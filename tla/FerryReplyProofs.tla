--------------------------- MODULE FerryReplyProofs ---------------------------
(***************************************************************************)
(* Proofs about what the ferry does with the messages of a conversation,    *)
(* for every set of sessions and notes and every limit: who an answer is    *)
(* given to, how long a pin and a correlation last, how often a message is  *)
(* handed out, how far apart notices are, that a refusal leaves nothing     *)
(* pending, and, by what normalize_remote makes of the Spellings of an      *)
(* origin, which sessions a note may reach.                                 *)
(***************************************************************************)
EXTENDS FerryProofs, Checkouts

----------------------------------------------------------------------------
(* Answers go to their askers *)

AskerTook(k) == \E t \in taken : t.mid = k /\ t.sid = posts[k].sid

\* Why the pin of posts[k] may be gone.
Excused(k) ==
  posts[k].life < restarts \/ Len(posts) >= k + AwaitingMax \/ AskerTook(k)

Pinned(k) == \E i \in 1 .. Len(awaiting) : awaiting[i].mid = k

\* A pin names the session its message came from, and a message without a pin
\* has an excuse.
PinInv ==
  /\ \A i \in 1 .. Len(awaiting) : awaiting[i].sid = posts[awaiting[i].mid].sid
  /\ \A k \in 1 .. Len(posts) : Pinned(k) \/ Excused(k)

\* A message being injected under a pin is offered to the asker only, and an
\* answer without a pin has an excuse; a message that was written was taken.
OfferInv ==
  reader.pc \in {"injecting", "written"} =>
    /\ reader.env.mid \in 1 .. Len(posts) \/ reader.env.mid > MaxPosts
    /\ reader.pin # NoMid =>
         /\ reader.pin = reader.env.mid /\ reader.env.mid \in 1 .. Len(posts)
         /\ \A i \in 1 .. Len(reader.targets) :
              reader.targets[i].sid = posts[reader.env.mid].sid
    /\ reader.pin = NoMid /\ reader.env.mid \in 1 .. Len(posts) => Excused(reader.env.mid)
    /\ reader.pc = "written" => \E t \in taken : t.mid = reader.env.mid /\ t.sid = Target.sid

\* An answer without an excuse was taken by nobody but the asker.
TakenInv ==
  /\ \A t \in taken : t.mid \in 1 .. Len(posts) \/ t.mid > MaxPosts
  /\ \A k \in 1 .. Len(posts) :
       Excused(k) \/ \A t \in taken : t.mid = k => t.sid = posts[k].sid

AskInv == TypeInv /\ PinInv /\ OfferInv /\ TakenInv

LEMMA Lengths ==
  ASSUME TypeInv
  PROVE  /\ Len(posts) \in Nat /\ DOMAIN posts = 1 .. Len(posts) /\ Len(posts) <= MaxPosts
         /\ \A k \in 1 .. Len(posts) : posts[k].life \in Nat /\ posts[k].life <= restarts
         /\ restarts \in Nat /\ now \in Nat
<1> DEFINE S == [sid : Sid, sock : Sock, project : Project, orig : Nat, life : 0 .. restarts]
<1>1. posts \in Seq(S) /\ Len(posts) <= MaxPosts
  BY DEF TypeInv, HistoryInv
<1>2. restarts \in Nat /\ now \in Nat
  BY DEF TypeInv, TimeInv
<1>3. \A x \in S : x.life \in 0 .. restarts
  OBVIOUS
<1> HIDE DEF S
<1>4. \A k \in 1 .. Len(posts) : posts[k].life \in 0 .. restarts
  BY <1>1, <1>3, ElementOfSeq
<1> QED
  BY <1>1, <1>2, <1>4, LenProperties

(***************************************************************************)
(* Pins are of messages that were posted.                                   *)
(***************************************************************************)
LEMMA PinIsPosted ==
  ASSUME TypeInv, NEW i \in 1 .. Len(awaiting)
  PROVE  awaiting[i].mid \in 1 .. Len(posts)
<1>1. /\ Len(awaiting) \in Nat /\ Len(posts) \in Nat
      /\ awaiting[i].mid \in Nat /\ awaiting[i].mid >= 1
  BY PinTyped, Lengths DEF TypeInv
<1>2. awaiting[i].mid + (Len(awaiting) - i) <= Len(posts)
  BY DEF TypeInv, AwaitingInv
<1> QED
  BY <1>1, <1>2

(***************************************************************************)
(* The message being injected is taken by the session it is offered to.     *)
(***************************************************************************)
LEMMA TakenByTarget ==
  ASSUME InjectWritten
  PROVE  /\ \E t \in taken' : t.mid = reader.env.mid /\ t.sid = Target.sid
         /\ \A t \in taken' : \/ t \in taken
                              \/ /\ t.mid = reader.env.mid /\ t.sid = Target.sid
                                 /\ t.at = now /\ t.life = restarts
         /\ \A t \in taken : \E u \in taken' : u.mid = t.mid /\ u.sid = t.sid
<1> DEFINE took == [mid |-> reader.env.mid, sid |-> Target.sid,
                    at |-> now, life |-> restarts]
<1>1. taken' = {t \in taken : t.mid # took.mid \/ t.sid # took.sid} \cup {took}
  BY DEF InjectWritten
<1>2. /\ took.mid = reader.env.mid /\ took.sid = Target.sid
      /\ took.at = now /\ took.life = restarts
  OBVIOUS
<1> HIDE DEF took
<1> QED
  BY <1>1, <1>2

(***************************************************************************)
(* What was posted stays as it is, sessions never give back what they took, *)
(* and the number of kills does not fall.                                   *)
(***************************************************************************)
LEMMA HistoryGrows ==
  ASSUME TypeInv, [Next]_vars
  PROVE  /\ Len(posts) <= Len(posts') /\ \A k \in 1 .. Len(posts) : posts'[k] = posts[k]
         /\ restarts <= restarts'
         /\ \A t \in taken : \E u \in taken' : u.mid = t.mid /\ u.sid = t.sid
         /\ taken' = taken \/ InjectWritten
         /\ posts' = posts \/ (Len(posts) < MaxPosts /\ Len(posts') = Len(posts) + 1)
<1>1. CASE \E e \in Entries : LocalMessage(e)
  <2> PICK e \in Entries : LocalMessage(e)
    BY <1>1
  <2> DEFINE post == [sid |-> e.sid, sock |-> e.sock, project |-> e.project,
                      orig |-> NextPending(e.sock), life |-> restarts]
  <2>1. /\ posts' = Append(posts, post) /\ Len(posts) < MaxPosts
        /\ taken' = taken /\ restarts' = restarts
    BY DEF LocalMessage
  <2> HIDE DEF post
  <2>2. posts \in Seq(Range(posts) \cup {post})
    BY SeqOfRange, SeqMonotonic DEF TypeInv, HistoryInv
  <2>3. /\ Len(posts') = Len(posts) + 1
        /\ \A k \in 1 .. Len(posts) : posts'[k] = posts[k]
    BY <2>1, <2>2, AppendProperties
  <2>4. Len(posts) <= Len(posts') /\ restarts <= restarts'
    BY <2>1, <2>3, Lengths
  <2> QED
    BY <2>1, <2>3, <2>4
<1>2. CASE InjectWritten
  <2>1. posts' = posts /\ restarts' = restarts
    BY <1>2 DEF InjectWritten
  <2> QED
    BY <2>1, <1>2, TakenByTarget, Lengths
<1>3. CASE posts' = posts /\ taken' = taken /\ restarts' \in {restarts, restarts + 1}
  BY <1>3, Lengths
<1> QED
  BY <1>1, <1>2, <1>3 DEF Next, vars, history, DeliverDuplicate, Deliver, InjectStep,
     InjectReturns, InjectRefused, InjectRaises, HubStatus, StatusTold, NoticeTask,
     LocalMessageNowhere, SessionStarts, SessionEnds, Tick, Restart

(***************************************************************************)
(* An excuse does not go away.                                              *)
(***************************************************************************)
LEMMA ExcusedStays ==
  ASSUME TypeInv, [Next]_vars, NEW k \in 1 .. Len(posts), Excused(k)
  PROVE  Excused(k)'
<1>1. /\ Len(posts) \in Nat /\ Len(posts') \in Nat /\ Len(posts) <= Len(posts')
      /\ posts'[k] = posts[k] /\ AwaitingMax \in Nat
  BY NextTypeInv, Lengths, HistoryGrows, Constants, LenProperties DEF TypeInv, HistoryInv
<1>2. restarts \in Nat /\ restarts' \in Nat /\ restarts <= restarts' /\ posts[k].life \in Nat
  BY Lengths, HistoryGrows, NextTypeInv DEF TypeInv, TimeInv
<1>3. CASE posts[k].life < restarts
  BY <1>3, <1>1, <1>2 DEF Excused
<1>4. CASE Len(posts) >= k + AwaitingMax
  BY <1>4, <1>1 DEF Excused
<1>5. CASE AskerTook(k)
  <2>1. PICK t \in taken : t.mid = k /\ t.sid = posts[k].sid
    BY <1>5 DEF AskerTook
  <2>2. \E u \in taken' : u.mid = t.mid /\ u.sid = t.sid
    BY HistoryGrows
  <2> QED
    BY <2>1, <2>2, <1>1 DEF Excused, AskerTook
<1> QED
  BY <1>3, <1>4, <1>5 DEF Excused

(***************************************************************************)
(* The first pin is displaced only by AWAITING_REPLY_MAX later messages.    *)
(***************************************************************************)
LEMMA DisplacedIsOld ==
  ASSUME TypeInv, Len(awaiting) = AwaitingMax
  PROVE  Len(posts) + 1 >= awaiting[1].mid + AwaitingMax
<1>1. 1 \in 1 .. Len(awaiting)
  BY PinTyped, Constants DEF TypeInv
<1>2. awaiting[1].mid + (Len(awaiting) - 1) <= Len(posts) /\ awaiting[1].mid \in Nat
  BY <1>1, PinTyped DEF TypeInv, AwaitingInv
<1> QED
  BY <1>2, Lengths, Constants

(***************************************************************************)
(* Whose pin goes, and why.                                                 *)
(***************************************************************************)
LEMMA PinStep ==
  ASSUME AskInv, [Next]_vars, NEW i \in 1 .. Len(awaiting)
  PROVE  \/ \E j \in 1 .. Len(awaiting') : awaiting'[j] = awaiting[i]
         \/ \E t \in taken : t.mid = awaiting[i].mid /\ t.sid = awaiting[i].sid
         \/ Len(posts') >= awaiting[i].mid + AwaitingMax
         \/ Restart
<1>1. Len(awaiting) \in Nat /\ AwaitingInv
  BY PinTyped DEF AskInv, TypeInv
<1>2. CASE \E e \in Entries : LocalMessage(e)
  <2> PICK e \in Entries : LocalMessage(e)
    BY <1>2
  <2>1. /\ Len(posts) + 1 \in 1 .. MaxPosts /\ e.sid \in Sid
        /\ awaiting' = Pin(Len(posts) + 1, e.sid) /\ Len(posts') = Len(posts) + 1
    <3>1. Len(posts) < MaxPosts /\ Len(posts) \in Nat /\ MaxPosts \in Nat
      BY Lengths, Constants DEF AskInv, LocalMessage
    <3>2. Len(posts') = Len(posts) + 1
      <4>1. posts' # posts
        BY <3>1, AppendProperties DEF AskInv, TypeInv, HistoryInv, LocalMessage
      <4> QED
        BY <4>1, HistoryGrows DEF AskInv
    <3> QED
      BY <3>1, <3>2 DEF LocalMessage, Sid
  <2>2. PICK d \in {0, 1} :
          /\ Len(awaiting') = Len(awaiting) + 1 - d
          /\ d = 1 => Len(awaiting) = AwaitingMax
          /\ \A j \in 1 .. Len(awaiting') :
               awaiting'[j] = IF j + d <= Len(awaiting) THEN awaiting[j + d]
                              ELSE [mid |-> Len(posts) + 1, sid |-> e.sid]
    <3>1. PICK k : k = Len(posts) + 1
      OBVIOUS
    <3>2. PICK d \in {0, 1} :
            /\ Len(Pin(k, e.sid)) = Len(awaiting) + 1 - d
            /\ d = 1 => Len(awaiting) = AwaitingMax
            /\ \A j \in 1 .. Len(Pin(k, e.sid)) :
                 Pin(k, e.sid)[j] = IF j + d <= Len(awaiting) THEN awaiting[j + d]
                                    ELSE [mid |-> k, sid |-> e.sid]
      BY <1>1, <2>1, <3>1, PinAdds, SMTT(60)
    <3>3. awaiting' = Pin(k, e.sid)
      BY <2>1, <3>1
    <3> QED
      BY <3>1, <3>2, <3>3
  <2>3. CASE i - d \in 1 .. Len(awaiting')
    <3>1. awaiting'[i - d] = awaiting[i]
      BY <1>1, <2>2, <2>3
    <3> QED
      BY <2>3, <3>1
  <2>4. CASE i - d \notin 1 .. Len(awaiting')
    <3>1. i = 1 /\ Len(awaiting) = AwaitingMax
      BY <1>1, <2>2, <2>4
    <3> QED
      BY <3>1, <2>1, DisplacedIsOld DEF AskInv
  <2> QED BY <2>3, <2>4
<1>3. CASE InjectReturns
  <2>1. awaiting' = Unpin(reader.pin) /\ reader.pc = "written"
    BY <1>3 DEF InjectReturns
  <2>2. CASE awaiting[i].mid = reader.pin
    <3>1. reader.pin # NoMid
      BY <1>1, <2>2, PinTyped DEF NoMid
    <3>2. reader.targets \in Seq(Entries) /\ reader.targets # <<>>
      BY <2>1 DEF AskInv, TypeInv, ReaderInv
    <3>3. 1 \in 1 .. Len(reader.targets) /\ Target = reader.targets[1]
      BY <3>2, EmptySeq DEF Target
    <3>4. PICK t \in taken : t.mid = reader.env.mid /\ t.sid = Target.sid
      BY <2>1 DEF AskInv, OfferInv
    <3>5. t.mid = reader.pin /\ t.sid = posts[reader.pin].sid
      BY <2>1, <3>1, <3>3, <3>4 DEF AskInv, OfferInv
    <3>6. awaiting[i].sid = posts[awaiting[i].mid].sid
      BY DEF AskInv, PinInv
    <3> QED
      BY <2>2, <3>5, <3>6
  <2>3. CASE awaiting[i].mid # reader.pin
    <3>1. CASE Unpin(reader.pin) = awaiting
      BY <2>1, <3>1
    <3>2. ASSUME NEW p \in 1 .. Len(awaiting), awaiting[p].mid = reader.pin,
                 Len(Unpin(reader.pin)) = Len(awaiting) - 1,
                 \A j \in 1 .. Len(awaiting) - 1 :
                   Unpin(reader.pin)[j] = IF j < p THEN awaiting[j] ELSE awaiting[j + 1]
          PROVE  \E j \in 1 .. Len(awaiting') : awaiting'[j] = awaiting[i]
      <4>1. i # p
        BY <2>3, <3>2
      <4>2. CASE i < p
        <5>1. i \in 1 .. Len(awaiting) - 1 /\ awaiting'[i] = awaiting[i]
          BY <1>1, <2>1, <3>2, <4>2
        <5> QED
          BY <5>1, <2>1, <3>2
      <4>3. CASE ~ (i < p)
        <5>1. i - 1 \in 1 .. Len(awaiting) - 1 /\ ~ (i - 1 < p) /\ (i - 1) + 1 = i
          BY <1>1, <4>1, <4>3
        <5>2. awaiting'[i - 1] = awaiting[i]
          BY <5>1, <2>1, <3>2
        <5> QED
          BY <5>1, <5>2, <2>1, <3>2
      <4> QED BY <4>2, <4>3
    <3> QED
      BY <1>1, <3>1, <3>2, UnpinRemoves
  <2> QED BY <2>2, <2>3
<1>4. CASE awaiting' = awaiting
  BY <1>4
<1> QED
  BY <1>2, <1>3, <1>4 DEF Next, vars, memory, DeliverDuplicate, Deliver, InjectStep,
     InjectWritten, InjectRefused, InjectRaises, HubStatus, StatusTold, NoticeTask,
     LocalMessageNowhere, SessionStarts, SessionEnds, Tick

(***************************************************************************)
(* Every message keeps its pin or has an excuse.                            *)
(***************************************************************************)
LEMMA PinInvKept ==
  ASSUME AskInv, [Next]_vars
  PROVE  PinInv'
<1>1. TypeInv /\ TypeInv' /\ Len(posts) \in Nat /\ Len(awaiting) \in Nat
  BY NextTypeInv, Lengths, PinTyped DEF AskInv, TypeInv
<1>2. /\ Len(posts) <= Len(posts') /\ \A k \in 1 .. Len(posts) : posts'[k] = posts[k]
      /\ Len(posts') \in Nat
  BY <1>1, HistoryGrows, LenProperties DEF TypeInv, HistoryInv
<1>3. ASSUME NEW k \in 1 .. Len(posts)
      PROVE  Pinned(k)' \/ Excused(k)'
  <2>1. CASE Excused(k)
    BY <2>1, <1>1, ExcusedStays
  <2>2. CASE Pinned(k)
    <3>1. PICK i \in 1 .. Len(awaiting) : awaiting[i].mid = k
      BY <2>2 DEF Pinned
    <3>2. awaiting[i].sid = posts[k].sid
      BY <3>1 DEF AskInv, PinInv
    <3>3. CASE \E j \in 1 .. Len(awaiting') : awaiting'[j] = awaiting[i]
      BY <3>1, <3>3 DEF Pinned
    <3>4. CASE \E t \in taken : t.mid = awaiting[i].mid /\ t.sid = awaiting[i].sid
      <4>1. Excused(k)
        BY <3>1, <3>2, <3>4 DEF Excused, AskerTook
      <4> QED
        BY <4>1, <1>1, ExcusedStays
    <3>5. CASE Len(posts') >= awaiting[i].mid + AwaitingMax
      BY <3>1, <3>5 DEF Excused
    <3>6. CASE Restart
      <4>1. restarts' = restarts + 1 /\ posts' = posts
        BY <3>6 DEF Restart
      <4>2. posts[k].life \in Nat /\ posts[k].life <= restarts /\ restarts \in Nat
        BY <1>1, Lengths
      <4>3. posts'[k].life < restarts'
        BY <4>1, <4>2
      <4> QED
        BY <4>3 DEF Excused
    <3> QED
      BY <3>3, <3>4, <3>5, <3>6, PinStep
  <2> QED
    BY <2>1, <2>2 DEF AskInv, PinInv
<1>4. CASE \E e \in Entries : LocalMessage(e)
  <2> PICK e \in Entries : LocalMessage(e)
    BY <1>4
  <2> DEFINE n == Len(posts) + 1
             post == [sid |-> e.sid, sock |-> e.sock, project |-> e.project,
                      orig |-> NextPending(e.sock), life |-> restarts]
  <2>1. /\ n \in 1 .. MaxPosts /\ e.sid \in Sid /\ awaiting' = Pin(n, e.sid)
    BY <1>1, Constants DEF LocalMessage, Sid
  <2>2. Len(posts') = n /\ posts'[n].sid = e.sid
    <3>1. posts' = Append(posts, post) /\ post.sid = e.sid
      BY DEF LocalMessage
    <3> HIDE DEF post
    <3>2. posts \in Seq(Range(posts) \cup {post})
      BY <1>1, SeqOfRange, SeqMonotonic DEF TypeInv, HistoryInv
    <3> QED
      BY <3>1, <3>2, AppendProperties
  <2>3. PICK d \in {0, 1} :
          /\ Len(awaiting') = Len(awaiting) + 1 - d /\ 0 < Len(awaiting')
          /\ \A j \in 1 .. Len(awaiting') :
               awaiting'[j] = IF j + d <= Len(awaiting) THEN awaiting[j + d]
                              ELSE [mid |-> n, sid |-> e.sid]
    BY <1>1, <2>1, PinAdds, SMTT(60) DEF TypeInv
  <2> HIDE DEF n, post
  <2>4. \E j \in 1 .. Len(awaiting') : awaiting'[j].mid = n
    <3>1. Len(awaiting') \in 1 .. Len(awaiting') /\ ~ (Len(awaiting') + d <= Len(awaiting))
      BY <1>1, <2>3
    <3>2. awaiting'[Len(awaiting')] = [mid |-> n, sid |-> e.sid]
      BY <2>3, <3>1
    <3> QED
      BY <3>1, <3>2
  <2>5. ASSUME NEW j \in 1 .. Len(awaiting')
        PROVE  awaiting'[j].sid = posts'[awaiting'[j].mid].sid
    <3>1. CASE j + d <= Len(awaiting)
      <4>1. j + d \in 1 .. Len(awaiting) /\ awaiting'[j] = awaiting[j + d]
        BY <1>1, <2>3, <3>1
      <4>2. awaiting[j + d].sid = posts[awaiting[j + d].mid].sid
        BY <4>1 DEF AskInv, PinInv
      <4>3. awaiting[j + d].mid \in 1 .. Len(posts)
        BY <4>1, <1>1, PinIsPosted
      <4> QED
        BY <4>1, <4>2, <4>3, <1>2
    <3>2. CASE ~ (j + d <= Len(awaiting))
      BY <2>2, <2>3, <3>2
    <3> QED BY <3>1, <3>2
  <2>6. \A k \in 1 .. Len(posts') : k = n \/ k \in 1 .. Len(posts)
    BY <1>1, <2>2 DEF n
  <2>7. ASSUME NEW k \in 1 .. Len(posts')
        PROVE  Pinned(k)' \/ Excused(k)'
    <3>1. CASE k = n
      BY <3>1, <2>4 DEF Pinned
    <3>2. CASE k # n
      BY <3>2, <2>6, <1>3
    <3> QED BY <3>1, <3>2
  <2> QED
    BY <2>5, <2>7 DEF PinInv
<1>5. CASE posts' = posts /\ \A j \in 1 .. Len(awaiting') :
                               \E i \in 1 .. Len(awaiting) : awaiting'[j] = awaiting[i]
  BY <1>3, <1>5 DEF PinInv, AskInv
<1>6. InjectReturns => \A j \in 1 .. Len(awaiting') :
                          \E i \in 1 .. Len(awaiting) : awaiting'[j] = awaiting[i]
  <2> SUFFICES ASSUME InjectReturns, NEW j \in 1 .. Len(awaiting')
               PROVE  \E i \in 1 .. Len(awaiting) : awaiting'[j] = awaiting[i]
    OBVIOUS
  <2>1. awaiting' = Unpin(reader.pin)
    BY DEF InjectReturns
  <2>2. CASE Unpin(reader.pin) = awaiting
    BY <2>1, <2>2
  <2>3. ASSUME NEW p \in 1 .. Len(awaiting), Len(awaiting') = Len(awaiting) - 1,
               \A i \in 1 .. Len(awaiting) - 1 :
                 awaiting'[i] = IF i < p THEN awaiting[i] ELSE awaiting[i + 1]
        PROVE  \E i \in 1 .. Len(awaiting) : awaiting'[j] = awaiting[i]
    <3>1. j \in 1 .. Len(awaiting) /\ j + 1 \in 1 .. Len(awaiting)
      BY <1>1, <2>3
    <3> QED
      BY <2>3, <3>1
  <2>4. \/ Unpin(reader.pin) = awaiting
        \/ \E p \in 1 .. Len(awaiting) :
             /\ Len(awaiting') = Len(awaiting) - 1
             /\ \A i \in 1 .. Len(awaiting) - 1 :
                  awaiting'[i] = IF i < p THEN awaiting[i] ELSE awaiting[i + 1]
    <3>1. AwaitingInv
      BY DEF AskInv, TypeInv
    <3> QED
      BY <2>1, <3>1, UnpinRemoves
  <2> QED
    BY <2>2, <2>3, <2>4
<1>7. Restart => \A j \in 1 .. Len(awaiting') :
                    \E i \in 1 .. Len(awaiting) : awaiting'[j] = awaiting[i]
  BY EmptySeq DEF Restart
<1>8. InjectReturns \/ Restart => posts' = posts
  BY DEF InjectReturns, Restart
<1>9. CASE UNCHANGED <<posts, awaiting>>
  BY <1>5, <1>9
<1> QED
  BY <1>4, <1>5, <1>6, <1>7, <1>8, <1>9 DEF Next, vars, memory, history, DeliverDuplicate,
     Deliver, InjectStep, InjectWritten, InjectRefused, InjectRaises, HubStatus, StatusTold,
     NoticeTask, LocalMessageNowhere, SessionStarts, SessionEnds, Tick

(***************************************************************************)
(* Who a message is offered to.                                             *)
(***************************************************************************)
LEMMA OfferInvKept ==
  ASSUME AskInv, [Next]_vars
  PROVE  OfferInv'
<1>1. TypeInv /\ OfferInv /\ PinInv /\ Len(posts) \in Nat /\ Len(posts) <= MaxPosts
      /\ MaxPosts \in Nat
  BY Lengths, Constants DEF AskInv
<1>2. \A k \in 1 .. Len(posts) : /\ k \in 1 .. Len(posts') /\ posts'[k] = posts[k]
                                 /\ Excused(k) => Excused(k)'
  <2>1. Len(posts') \in Nat
    BY <1>1, NextTypeInv, LenProperties DEF TypeInv, HistoryInv
  <2> QED
    BY <1>1, <2>1, HistoryGrows, ExcusedStays
<1>3. ASSUME NEW m \in Nat, m > MaxPosts
      PROVE  m \notin 1 .. Len(posts')
  <2>1. Len(posts') \in Nat /\ Len(posts') <= MaxPosts
    BY <1>1, NextTypeInv, LenProperties DEF TypeInv, HistoryInv
  <2> QED
    BY <1>1, <1>3, <2>1
<1>4. ASSUME NEW env \in Inbound, Deliver(env)
      PROVE  OfferInv'
  <2> PICK targets \in Candidates(env) :
        IF targets = <<>> THEN UNCHANGED <<reader, pending>>
        ELSE Offer(env, targets, ReplyPin(env), pending)
    BY <1>4 DEF Deliver
  <2>1. /\ env.mid \in Nat
        /\ env.mid \in 1 .. Len(posts) \/ env.mid > MaxPosts
        /\ env.orig \in {NoMid, env.mid}
        /\ env.mid \in 1 .. Len(posts) => env.orig = env.mid
    BY <1>1, InboundIs DEF TypeInv
  <2>2. posts' = posts /\ taken' = taken /\ restarts' = restarts
    BY <1>4 DEF Deliver, history
  <2>3. CASE targets = <<>>
    BY <2>3, <2>2, <1>4 DEF OfferInv, AskInv, Deliver, Idle
  <2>4. CASE targets # <<>>
    <3>1. /\ reader'.pc = "injecting" /\ reader'.env = env
          /\ reader'.targets = targets /\ reader'.pin = ReplyPin(env)
      BY <2>4 DEF Offer
    <3>2. ReplyPin(env) # NoMid =>
            /\ ReplyPin(env) = env.mid /\ env.mid \in 1 .. Len(posts)
            /\ \A j \in 1 .. Len(targets) : targets[j].sid = posts[env.mid].sid
      <4> SUFFICES ASSUME ReplyPin(env) # NoMid
                   PROVE  /\ ReplyPin(env) = env.mid /\ env.mid \in 1 .. Len(posts)
                          /\ \A j \in 1 .. Len(targets) : targets[j].sid = posts[env.mid].sid
        OBVIOUS
      <4>1. ReplyPin(env) = env.mid
        BY <2>1 DEF ReplyPin
      <4>2. PICK i \in 1 .. Len(awaiting) :
              /\ awaiting[i].mid = ReplyPin(env)
              /\ \A j \in 1 .. Len(targets) : targets[j].sid = awaiting[i].sid
        BY <1>1, CandidatesAreLive
      <4>3. awaiting[i].mid \in 1 .. Len(posts) /\ awaiting[i].sid = posts[awaiting[i].mid].sid
        BY <1>1, PinIsPosted DEF PinInv
      <4> QED
        BY <4>1, <4>2, <4>3
    <3>3. ReplyPin(env) = NoMid /\ env.mid \in 1 .. Len(posts) => Excused(env.mid)
      <4> SUFFICES ASSUME ReplyPin(env) = NoMid, env.mid \in 1 .. Len(posts)
                   PROVE  Excused(env.mid)
        OBVIOUS
      <4>1. env.orig = env.mid /\ env.mid # NoMid
        BY <2>1 DEF NoMid
      <4>2. Pins(env.mid) = {}
        BY <4>1 DEF ReplyPin
      <4>3. ~ Pinned(env.mid)
        BY <4>2, <1>1, PinTyped DEF Pins, Pinned, TypeInv
      <4> QED
        BY <4>3, <1>1 DEF PinInv
    <3>4. \A m \in 1 .. Len(posts) : Excused(m) => Excused(m)'
      BY <1>2
    <3>5. ReplyPin(env) = NoMid /\ env.mid \in 1 .. Len(posts) =>
            \A m : m = env.mid => Excused(m)'
      BY <3>3, <3>4
    <3> QED
      BY <2>1, <2>2, <3>1, <3>2, <3>5 DEF OfferInv
  <2> QED BY <2>3, <2>4
<1>5. CASE InjectRefused
  <2> DEFINE rest == Tail(reader.targets)
  <2>1. /\ reader.pc = "injecting" /\ posts' = posts /\ taken' = taken /\ restarts' = restarts
        /\ reader.targets \in Seq(Entries) /\ reader.targets # <<>>
    BY <1>5, <1>1 DEF InjectRefused, history, TypeInv, ReaderInv
  <2>2. CASE rest = <<>>
    BY <2>2, <1>5 DEF InjectRefused, Idle, OfferInv
  <2>3. CASE rest # <<>>
    <3>1. /\ reader'.pc = "injecting" /\ reader'.env = reader.env
          /\ reader'.targets = rest /\ reader'.pin = reader.pin
      BY <2>3, <1>5 DEF InjectRefused, Offer
    <3>2. \A i \in 1 .. Len(rest) : /\ rest[i] = reader.targets[i + 1]
                                    /\ i + 1 \in 1 .. Len(reader.targets)
      BY <2>1, HeadTailProperties, LenProperties
    <3> HIDE DEF rest
    <3>3. reader.pin = NoMid /\ reader.env.mid \in 1 .. Len(posts) =>
            \A m : m = reader.env.mid => Excused(m)'
      BY <1>1, <1>2, <2>1 DEF OfferInv
    <3> QED
      BY <1>1, <2>1, <3>1, <3>2, <3>3 DEF OfferInv
  <2> QED BY <2>2, <2>3
<1>6. CASE InjectWritten
  <2>1. /\ reader.pc = "injecting" /\ posts' = posts
        /\ reader'.pc = "written" /\ reader'.env = reader.env
        /\ reader'.targets = reader.targets /\ reader'.pin = reader.pin
    BY <1>6 DEF InjectWritten
  <2>2. Target' = Target
    BY <2>1 DEF Target
  <2>3. \E t \in taken' : t.mid = reader.env.mid /\ t.sid = Target.sid
    BY <1>6, TakenByTarget
  <2>4. reader.pin = NoMid /\ reader.env.mid \in 1 .. Len(posts) =>
          \A m : m = reader.env.mid => Excused(m)'
    BY <1>1, <1>2, <2>1 DEF OfferInv
  <2> QED
    BY <1>1, <2>1, <2>2, <2>3, <2>4 DEF OfferInv
<1>7. CASE reader' = reader /\ taken' = taken
  <2> SUFFICES ASSUME reader.pc \in {"injecting", "written"}
               PROVE  OfferInv'
    BY <1>7 DEF OfferInv
  <2>1. reader.env.mid \in Nat
    BY <1>1 DEF TypeInv, ReaderInv
  <2>2. reader.env.mid \in 1 .. Len(posts') => reader.env.mid \in 1 .. Len(posts)
    BY <1>1, <1>3, <2>1 DEF OfferInv
  <2>3. reader.pin = NoMid /\ reader.env.mid \in 1 .. Len(posts) =>
          \A m : m = reader.env.mid => Excused(m)'
    BY <1>1, <1>2 DEF OfferInv
  <2>4. Target' = Target
    BY <1>7 DEF Target
  <2> QED
    BY <1>1, <1>2, <1>7, <2>2, <2>3, <2>4 DEF OfferInv
<1>8. CASE reader'.pc \in {"idle", "telling"}
  BY <1>8 DEF OfferInv
<1>9. \/ reader' = reader /\ taken' = taken
      \/ reader'.pc \in {"idle", "telling"}
      \/ \E env \in Inbound : Deliver(env)
      \/ InjectRefused \/ InjectWritten
  <2>1. InjectReturns \/ InjectRaises \/ StatusTold \/ Restart => reader'.pc = "idle"
    BY DEF InjectReturns, InjectRaises, StatusTold, Restart, Idle
  <2>2. ASSUME NEW k \in DOMAIN posts, NEW kind \in Held, HubStatus(k, kind)
        PROVE  reader'.pc = "telling"
    BY <2>2 DEF HubStatus
  <2>3. ASSUME NEW env \in Inbound, DeliverDuplicate(env)
        PROVE  reader' = reader /\ taken' = taken
    BY <2>3 DEF DeliverDuplicate
  <2>4. ASSUME NEW e \in Entries,
               \/ LocalMessage(e) \/ LocalMessageNowhere(e)
               \/ SessionStarts(e) \/ SessionEnds(e)
        PROVE  reader' = reader /\ taken' = taken
    BY <2>4 DEF LocalMessage, LocalMessageNowhere, SessionStarts, SessionEnds, history
  <2>5. NoticeTask \/ Tick \/ UNCHANGED vars =>
          reader' = reader /\ taken' = taken
    BY DEF NoticeTask, Tick, history, vars
  <2> QED
    BY <2>1, <2>2, <2>3, <2>4, <2>5 DEF Next, InjectStep
<1> QED
  BY <1>4, <1>5, <1>6, <1>7, <1>8, <1>9

(***************************************************************************)
(* Who took an answer.                                                      *)
(***************************************************************************)
LEMMA TakenInvKept ==
  ASSUME AskInv, [Next]_vars
  PROVE  TakenInv'
<1>1. TypeInv /\ OfferInv /\ TakenInv /\ Len(posts) \in Nat /\ Len(posts) <= MaxPosts
      /\ MaxPosts \in Nat
  BY Lengths, Constants DEF AskInv
<1>2. Len(posts') \in Nat /\ Len(posts') <= MaxPosts /\ Len(posts) <= Len(posts')
  BY <1>1, NextTypeInv, HistoryGrows, LenProperties DEF TypeInv, HistoryInv
<1>3. \A k \in 1 .. Len(posts) : /\ k \in 1 .. Len(posts') /\ posts'[k] = posts[k]
                                 /\ Excused(k) => Excused(k)'
  BY <1>1, <1>2, HistoryGrows, ExcusedStays
<1>4. ASSUME NEW t \in taken'
      PROVE  /\ t.mid \in 1 .. Len(posts) \/ (t.mid \in Nat /\ t.mid > MaxPosts)
             /\ t.mid \in 1 .. Len(posts) =>
                  Excused(t.mid) \/ t.sid = posts[t.mid].sid
  <2>1. CASE t \in taken
    BY <2>1, <1>1 DEF TakenInv, TypeInv, HistoryInv
  <2>2. CASE t \notin taken
    <3>1. InjectWritten
      BY <2>2, <1>1, HistoryGrows
    <3>2. t.mid = reader.env.mid /\ t.sid = Target.sid /\ reader.pc = "injecting"
      BY <2>2, <3>1, TakenByTarget DEF InjectWritten
    <3>3. /\ reader.targets \in Seq(Entries) /\ reader.targets # <<>>
          /\ reader.env.mid \in Nat /\ reader.pin \in Nat
      BY <3>2, <1>1 DEF TypeInv, ReaderInv
    <3>4. 1 \in 1 .. Len(reader.targets) /\ Target = reader.targets[1]
      BY <3>3, EmptySeq DEF Target
    <3> QED
      BY <1>1, <3>2, <3>3, <3>4 DEF OfferInv
  <2> QED BY <2>1, <2>2
<1>5. \A t \in taken' : t.mid \in 1 .. Len(posts') \/ t.mid > MaxPosts
  BY <1>3, <1>4
<1>6. ASSUME NEW k \in 1 .. Len(posts'), NEW t \in taken', t.mid = k
      PROVE  Excused(k)' \/ t.sid = posts'[k].sid
  <2>1. k \in 1 .. Len(posts)
    BY <1>1, <1>2, <1>4, <1>6
  <2> QED
    BY <2>1, <1>3, <1>4, <1>6
<1> QED
  BY <1>5, <1>6 DEF TakenInv

LEMMA NextAskInv ==
  ASSUME AskInv, [Next]_vars
  PROVE  AskInv'
BY NextTypeInv, PinInvKept, OfferInvKept, TakenInvKept DEF AskInv

LEMMA InitAskInv == Init => AskInv
<1> SUFFICES ASSUME Init PROVE AskInv
  OBVIOUS
<1>1. Len(posts) = 0 /\ Len(awaiting) = 0 /\ taken = {} /\ reader.pc = "idle"
  BY EmptySeq DEF Init, Idle
<1> QED
  BY <1>1, InitTypeInv DEF AskInv, PinInv, OfferInv, TakenInv

(***************************************************************************)
(* The answer to a session's message goes to that session first: whatever   *)
(* sessions come, go and refuse, and however often the hub delivers it,     *)
(* another session takes it only after the asker did, or once the pin was   *)
(* lost to a kill or to AWAITING_REPLY_MAX later messages (app.py:          *)
(* on_local_message, on_deliver, _candidates).                              *)
(***************************************************************************)
THEOREM AnswersFindTheirAsker == Spec => []AskerComesFirst
<1>1. AskInv => AskerComesFirst
  <2> SUFFICES ASSUME AskInv, NEW k \in DOMAIN posts
               PROVE  \/ OnlyAskerTook(k)
                      \/ \E t \in taken : t.mid = k /\ t.sid = posts[k].sid
    BY DEF AskerComesFirst
  <2>1. k \in 1 .. Len(posts)
    BY Lengths DEF AskInv
  <2> QED
    BY <2>1 DEF AskInv, TakenInv, Excused, AskerTook, OnlyAskerTook
<1> QED
  BY InitAskInv, NextAskInv, <1>1, PTL DEF Spec

(***************************************************************************)
(* A pin leaves only when the asking session took the answer, when          *)
(* AWAITING_REPLY_MAX later messages displace it, or when the process is    *)
(* killed (app.py: _pin_reply, on_deliver).                                 *)
(***************************************************************************)
THEOREM PinsAreKept == Spec => PinKept
<1>1. AskInv /\ [Next]_vars =>
        [\A i \in DOMAIN awaiting :
           \/ awaiting[i] \in Range(awaiting')
           \/ \E t \in taken : t.mid = awaiting[i].mid /\ t.sid = awaiting[i].sid
           \/ Len(posts') >= awaiting[i].mid + AwaitingMax
           \/ Restart]_vars
  <2> SUFFICES ASSUME AskInv, [Next]_vars, NEW i \in DOMAIN awaiting
               PROVE  \/ awaiting[i] \in Range(awaiting')
                      \/ \E t \in taken : t.mid = awaiting[i].mid /\ t.sid = awaiting[i].sid
                      \/ Len(posts') >= awaiting[i].mid + AwaitingMax
                      \/ Restart
    OBVIOUS
  <2>1. i \in 1 .. Len(awaiting)
    BY PinTyped DEF AskInv, TypeInv
  <2>2. \A j \in 1 .. Len(awaiting') : awaiting'[j] \in Range(awaiting')
    BY NextTypeInv, RangeEquality DEF AskInv, TypeInv, AwaitingInv
  <2> QED
    BY <2>1, <2>2, PinStep
<1> QED
  BY InitAskInv, NextAskInv, <1>1, PTL DEF Spec, PinKept

----------------------------------------------------------------------------
(* No message is handed out twice within the window *)

\* A session took the message too long ago, or in an earlier life.
Lapsed(t) == t.life < restarts \/ now - t.at > Window

\* What was taken lately is in the dedup table, recorded no earlier than it was
\* taken, or is about to be recorded; what is being injected was not.
WindowInv ==
  /\ \A t \in taken : \/ Lapsed(t)
                      \/ t.mid \in DOMAIN seen /\ seen[t.mid] >= t.at
                      \/ reader.pc = "written" /\ reader.env.mid = t.mid
  /\ reader.pc = "injecting" => \A t \in taken : t.mid = reader.env.mid => Lapsed(t)

LEMMA TakenTyped ==
  ASSUME TypeInv, NEW t \in taken
  PROVE  /\ t.at \in Nat /\ t.at <= now /\ t.life \in Nat /\ t.life <= restarts
         /\ now \in Nat /\ restarts \in Nat /\ Window \in Nat
BY Constants DEF TypeInv, HistoryInv, TimeInv

LEMMA SeenTyped ==
  ASSUME TypeInv, NEW m \in DOMAIN seen
  PROVE  seen[m] \in Nat /\ seen[m] <= now
BY DEF TypeInv, MemoryInv, TimeInv

(***************************************************************************)
(* What was taken lately and recorded is not evicted.                       *)
(***************************************************************************)
LEMMA EvictionLapses ==
  ASSUME TypeInv, NEW t \in taken, t.mid \in DOMAIN seen, seen[t.mid] >= t.at
  PROVE  Lapsed(t) \/ (t.mid \in DOMAIN Evicted /\ Evicted[t.mid] = seen[t.mid])
<1>1. seen[t.mid] \in Nat /\ t.at \in Nat /\ now \in Nat /\ Window \in Nat
  BY SeenTyped, TakenTyped
<1>2. CASE seen[t.mid] >= now - Window
  BY <1>2, EvictedIs
<1>3. CASE ~ (seen[t.mid] >= now - Window)
  BY <1>1, <1>3 DEF Lapsed
<1> QED
  BY <1>2, <1>3

(***************************************************************************)
(* What check does not know may be handed out.                              *)
(***************************************************************************)
LEMMA UnknownMayBeOffered ==
  ASSUME TypeInv, WindowInv, reader = Idle, NEW mid, ~ IsDuplicate(mid),
         NEW t \in taken, t.mid = mid
  PROVE  Lapsed(t)
<1>1. SUFFICES ASSUME ~ Lapsed(t) PROVE FALSE
  OBVIOUS
<1>2. t.mid \in DOMAIN seen /\ seen[t.mid] >= t.at
  BY <1>1 DEF WindowInv, Idle
<1>3. mid \in DOMAIN Evicted /\ Evicted[mid] = seen[mid]
  BY <1>1, <1>2, EvictionLapses
<1>4. seen[mid] >= now - Window
  BY <1>3, EvictedIs
<1>5. seen[mid] \in Nat /\ now \in Nat /\ Window \in Nat
  BY <1>2, SeenTyped, TakenTyped
<1>6. now - seen[mid] <= Window
  BY <1>4, <1>5
<1> QED
  BY <1>3, <1>6 DEF IsDuplicate

(***************************************************************************)
(* A step that hands out nothing, records nothing and forgets at most what  *)
(* check evicts.                                                            *)
(***************************************************************************)
LEMMA WindowUntouched ==
  ASSUME TypeInv, WindowInv, taken' = taken, now' = now, restarts' = restarts,
         seen' \in {seen, Evicted},
         reader' = reader \/ (reader.pc # "written" /\ reader'.pc \in {"idle", "telling"})
  PROVE  WindowInv'
<1>1. \A t \in taken : Lapsed(t)' <=> Lapsed(t)
  BY DEF Lapsed
<1>2. ASSUME NEW t \in taken, t.mid \in DOMAIN seen, seen[t.mid] >= t.at
      PROVE  Lapsed(t)' \/ (t.mid \in DOMAIN seen' /\ seen'[t.mid] >= t.at)
  BY <1>1, <1>2, EvictionLapses
<1> QED
  BY <1>1, <1>2 DEF WindowInv

LEMMA WindowInvKept ==
  ASSUME TypeInv, WindowInv, [Next]_vars
  PROVE  WindowInv'
<1>1. ASSUME NEW env \in Inbound, DeliverDuplicate(env)
      PROVE  WindowInv'
  BY <1>1, WindowUntouched DEF DeliverDuplicate
<1>2. ASSUME NEW env \in Inbound, Deliver(env)
      PROVE  WindowInv'
  <2> PICK targets \in Candidates(env) :
        IF targets = <<>> THEN UNCHANGED <<reader, pending>>
        ELSE Offer(env, targets, ReplyPin(env), pending)
    BY <1>2 DEF Deliver
  <2>1. /\ taken' = taken /\ now' = now /\ restarts' = restarts /\ seen' = Evicted
        /\ reader = Idle /\ ~ IsDuplicate(env.mid)
    BY <1>2 DEF Deliver, history
  <2>2. CASE targets = <<>>
    BY <2>1, <2>2, WindowUntouched
  <2>3. CASE targets # <<>>
    <3>1. reader'.pc = "injecting" /\ reader'.env = env
      BY <2>3 DEF Offer
    <3>2. \A t \in taken : t.mid = env.mid => Lapsed(t)'
      BY <2>1, UnknownMayBeOffered DEF Lapsed
    <3>3. ASSUME NEW t \in taken
          PROVE  Lapsed(t)' \/ (t.mid \in DOMAIN seen' /\ seen'[t.mid] >= t.at)
      <4>1. Lapsed(t) \/ (t.mid \in DOMAIN seen /\ seen[t.mid] >= t.at)
        BY <2>1 DEF WindowInv, Idle
      <4> QED
        BY <4>1, <2>1, EvictionLapses DEF Lapsed
    <3> QED
      BY <2>1, <3>1, <3>2, <3>3 DEF WindowInv
  <2> QED BY <2>2, <2>3
<1>3. CASE InjectWritten
  <2>1. /\ reader.pc = "injecting" /\ reader'.pc = "written" /\ reader'.env = reader.env
        /\ seen' = seen /\ now' = now /\ restarts' = restarts
    BY <1>3 DEF InjectWritten, memory
  <2>2. \A t : Lapsed(t)' <=> Lapsed(t)
    BY <2>1 DEF Lapsed
  <2>3. \A t \in taken' : t \in taken \/ t.mid = reader.env.mid
    BY <1>3, TakenByTarget
  <2> QED
    BY <2>1, <2>2, <2>3 DEF WindowInv
<1>4. CASE InjectReturns
  <2> DEFINE mid == reader.env.mid
  <2>1. /\ taken' = taken /\ now' = now /\ restarts' = restarts
        /\ seen' = Recorded(mid) /\ reader'.pc = "idle" /\ reader.pc = "written"
    BY <1>4 DEF InjectReturns, Idle
  <2>2. \A t : Lapsed(t)' <=> Lapsed(t)
    BY <2>1 DEF Lapsed
  <2> HIDE DEF mid
  <2>3. ASSUME NEW t \in taken, t.mid = mid
        PROVE  t.mid \in DOMAIN seen' /\ seen'[t.mid] >= t.at
    <3>1. mid \in DOMAIN seen' /\ seen'[mid] = now
      BY <2>1, RecordedIs
    <3>2. now >= t.at
      BY TakenTyped
    <3> QED
      BY <2>3, <3>1, <3>2
  <2>4. ASSUME NEW t \in taken, t.mid # mid, ~ Lapsed(t)
        PROVE  t.mid \in DOMAIN seen' /\ seen'[t.mid] >= t.at
    <3>1. t.mid \in DOMAIN seen /\ seen[t.mid] >= t.at
      BY <2>4 DEF WindowInv, mid
    <3>2. t.mid \in DOMAIN Evicted
      BY <2>4, <3>1, EvictionLapses
    <3> QED
      BY <2>1, <2>4, <3>1, <3>2, RecordedIs
  <2> QED
    BY <2>1, <2>2, <2>3, <2>4 DEF WindowInv
<1>5. CASE InjectRefused
  <2>1. /\ taken' = taken /\ now' = now /\ restarts' = restarts /\ seen' = seen
        /\ reader.pc = "injecting"
        /\ \/ reader'.pc = "idle"
           \/ reader'.pc = "injecting" /\ reader'.env = reader.env
    BY <1>5 DEF InjectRefused, history, Idle, Offer
  <2>2. \A t : Lapsed(t)' <=> Lapsed(t)
    BY <2>1 DEF Lapsed
  <2> QED
    BY <2>1, <2>2 DEF WindowInv
<1>6. CASE InjectRaises
  BY <1>6, WindowUntouched DEF InjectRaises, memory, history, Idle
<1>7. ASSUME NEW k \in DOMAIN posts, NEW kind \in Held, HubStatus(k, kind)
      PROVE  WindowInv'
  <2>1. reader.pc = "idle" /\ reader'.pc = "telling"
    BY <1>7 DEF HubStatus, Idle
  <2>2. taken' = taken /\ now' = now /\ restarts' = restarts /\ seen' = seen
    BY <1>7 DEF HubStatus, history
  <2> QED
    BY <2>1, <2>2, WindowUntouched
<1>8. CASE StatusTold
  BY <1>8, WindowUntouched DEF StatusTold, memory, history, Idle
<1>9. CASE NoticeTask
  BY <1>9, WindowUntouched DEF NoticeTask, history
<1>10. ASSUME NEW e \in Entries,
              \/ LocalMessage(e) \/ LocalMessageNowhere(e)
              \/ SessionStarts(e) \/ SessionEnds(e)
       PROVE  WindowInv'
  BY <1>10, WindowUntouched DEF LocalMessage, LocalMessageNowhere, SessionStarts, SessionEnds,
     memory, history
<1>11. CASE Tick
  <2>1. /\ taken' = taken /\ now' = now + 1 /\ restarts' = restarts /\ seen' = seen
        /\ reader' = reader
    BY <1>11 DEF Tick, memory, history
  <2>2. \A t \in taken : Lapsed(t) => Lapsed(t)'
    BY <2>1, TakenTyped DEF Lapsed
  <2> QED
    BY <2>1, <2>2 DEF WindowInv
<1>12. CASE Restart
  <2>1. taken' = taken /\ restarts' = restarts + 1 /\ reader'.pc = "idle"
    BY <1>12 DEF Restart, Idle
  <2>2. \A t \in taken : Lapsed(t)'
    BY <2>1, TakenTyped DEF Lapsed
  <2> QED
    BY <2>1, <2>2 DEF WindowInv
<1>13. CASE UNCHANGED vars
  BY <1>13, WindowUntouched DEF vars
<1> QED
  BY <1>1, <1>2, <1>3, <1>4, <1>5, <1>6, <1>7, <1>8, <1>9, <1>10, <1>11, <1>12, <1>13
  DEF Next, InjectStep

(***************************************************************************)
(* One ferry process does not hand a message to sessions twice within the   *)
(* dedup window, however often the hub delivers it, whichever sessions      *)
(* refused it, and although the table evicts at every check (dedup.py:      *)
(* check, record; app.py: on_deliver).                                      *)
(***************************************************************************)
THEOREM HandedOutOnce == Spec => OncePerWindow
<1>1. Init => TypeInv /\ WindowInv
  BY InitTypeInv DEF Init, WindowInv, Idle
<1>2. TypeInv /\ WindowInv /\ [Next]_vars => (TypeInv /\ WindowInv)'
  BY NextTypeInv, WindowInvKept
<1>3. TypeInv /\ WindowInv /\ [Next]_vars =>
        [InjectWritten => \A t \in taken : t.mid = reader.env.mid =>
           t.life < restarts \/ now - t.at > Window]_vars
  BY DEF WindowInv, InjectWritten, Lapsed
<1> QED
  BY <1>1, <1>2, <1>3, PTL DEF Spec, OncePerWindow

----------------------------------------------------------------------------
(* Notices keep their distance, and silence is for what was told *)

(***************************************************************************)
(* NoticesCoalesced is not inductive: the next notice is kept back by the   *)
(* table, not by what was told.  So the table must remember, until its      *)
(* cool-down is over, whatever was told, and, for SilencedWasTold, nothing  *)
(* but what was told.                                                       *)
(***************************************************************************)
NoticeInv ==
  /\ \A news \in News : \A i \in 1 .. Len(told[news]) :
       \/ now - told[news][i] >= Cooldown
       \/ news \in DOMAIN notified /\ notified[news] >= told[news][i]
  /\ \A news \in News : \A i, j \in 1 .. Len(told[news]) :
       i < j => told[news][j] - told[news][i] >= Cooldown
  /\ \A news \in DOMAIN notified :
       \E i \in 1 .. Len(told[news]) : told[news][i] = notified[news]

LEMMA NewsValues ==
  ASSUME TypeInv
  PROVE  /\ now \in Nat /\ Cooldown \in Nat \ {0}
         /\ told \in [News -> Seq(0 .. now)]
         /\ \A news \in News :
              /\ told[news] \in Seq(0 .. now) /\ Len(told[news]) \in Nat
              /\ DOMAIN told[news] = 1 .. Len(told[news])
              /\ \A i \in 1 .. Len(told[news]) :
                   told[news][i] \in Nat /\ told[news][i] <= now
         /\ DOMAIN notified \subseteq News
         /\ \A news \in DOMAIN notified : notified[news] \in Nat /\ notified[news] <= now
<1>1. now \in Nat /\ Cooldown \in Nat \ {0}
  BY Constants DEF TypeInv, TimeInv
<1>2. /\ told \in [News -> Seq(0 .. now)] /\ DOMAIN notified \subseteq News
      /\ \A news \in DOMAIN notified : notified[news] \in 0 .. now
  BY DEF TypeInv, MemoryInv
<1>3. ASSUME NEW news \in News
      PROVE  /\ told[news] \in Seq(0 .. now) /\ Len(told[news]) \in Nat
             /\ DOMAIN told[news] = 1 .. Len(told[news])
             /\ \A i \in 1 .. Len(told[news]) : told[news][i] \in 0 .. now
  <2>1. told[news] \in Seq(0 .. now)
    BY <1>2
  <2> QED
    BY <2>1, LenProperties, ElementOfSeq
<1> QED
  BY <1>1, <1>2, <1>3

(***************************************************************************)
(* Telling a session something keeps the invariant for that news.           *)
(***************************************************************************)
LEMMA ToldIsRemembered ==
  ASSUME TypeInv, NoticeInv, NEW news \in News, MayNotify(news),
         notified' = Notified(news), told'[news] = Append(told[news], now), now' = now
  PROVE  /\ \A i \in 1 .. Len(told'[news]) :
              news \in DOMAIN notified' /\ notified'[news] >= told'[news][i]
         /\ \A i, j \in 1 .. Len(told'[news]) :
              i < j => told'[news][j] - told'[news][i] >= Cooldown
         /\ \E i \in 1 .. Len(told'[news]) : told'[news][i] = notified'[news]
<1> DEFINE q == told[news]
           n == Len(q) + 1
<1>1. /\ q \in Seq(0 .. now) /\ Len(q) \in Nat /\ now \in Nat /\ Cooldown \in Nat
      /\ \A i \in 1 .. Len(q) : q[i] \in Nat /\ q[i] <= now
  BY NewsValues
<1>2. news \in DOMAIN notified' /\ notified'[news] = now
  BY DEF Notified
<1>3. ASSUME NEW i \in 1 .. Len(q)
      PROVE  now - q[i] >= Cooldown
  <2>1. news \in DOMAIN notified => now - notified[news] >= Cooldown
    BY DEF MayNotify
  <2>2. \/ now - q[i] >= Cooldown
        \/ news \in DOMAIN notified /\ notified[news] >= q[i]
    BY DEF NoticeInv
  <2>3. news \in DOMAIN notified => notified[news] \in Nat
    BY NewsValues
  <2> HIDE DEF q
  <2> QED
    BY <1>1, <2>1, <2>2, <2>3
<1>4. \A i, j \in 1 .. Len(q) : i < j => q[j] - q[i] >= Cooldown
  BY DEF NoticeInv
<1>5. told'[news] = Append(q, now) /\ now \in 0 .. now
  BY <1>1
<1> HIDE DEF q
<1>6. /\ Len(told'[news]) = n /\ told'[news][n] = now
      /\ \A i \in 1 .. Len(q) : told'[news][i] = q[i]
  BY <1>1, <1>5, AppendProperties
<1>7. \A i \in 1 .. n : i = n \/ i \in 1 .. Len(q)
  BY <1>1
<1>8. ASSUME NEW i \in 1 .. n, NEW j \in 1 .. n, i < j
      PROVE  told'[news][j] - told'[news][i] >= Cooldown
  <2>1. i \in 1 .. Len(q)
    BY <1>1, <1>8
  <2>2. CASE j = n
    BY <1>3, <1>6, <2>1, <2>2
  <2>3. CASE j # n
    BY <1>4, <1>6, <1>7, <1>8, <2>1, <2>3
  <2> QED
    BY <2>2, <2>3
<1>9. ASSUME NEW i \in 1 .. n
      PROVE  now >= told'[news][i]
  BY <1>1, <1>6, <1>7, <1>9
<1>10. n \in 1 .. n
  BY <1>1
<1> QED
  BY <1>2, <1>6, <1>8, <1>9, <1>10

(***************************************************************************)
(* ... and for all other news: saying something forgets only what is over.  *)
(***************************************************************************)
LEMMA OtherNewsIsKept ==
  ASSUME TypeInv, NoticeInv, NEW key \in News, NEW news \in News, news # key,
         notified' = Notified(key), told'[news] = told[news], now' = now
  PROVE  /\ \A i \in 1 .. Len(told'[news]) :
              \/ now - told'[news][i] >= Cooldown
              \/ news \in DOMAIN notified' /\ notified'[news] >= told'[news][i]
         /\ news \in DOMAIN notified' => notified'[news] = notified[news]
         /\ news \in DOMAIN notified' => news \in DOMAIN notified
<1>1. news \in DOMAIN notified' <=>
        news \in DOMAIN notified /\ now - notified[news] < Cooldown
  BY DEF Notified
<1>2. news \in DOMAIN notified' => notified'[news] = notified[news]
  BY DEF Notified
<1>3. ASSUME NEW i \in 1 .. Len(told[news]), ~ (now - told[news][i] >= Cooldown)
      PROVE  news \in DOMAIN notified' /\ notified'[news] >= told[news][i]
  <2>1. news \in DOMAIN notified /\ notified[news] >= told[news][i]
    BY <1>3 DEF NoticeInv
  <2>2. /\ notified[news] \in Nat /\ now \in Nat /\ Cooldown \in Nat
        /\ told[news][i] \in Nat
    BY <2>1, NewsValues
  <2>3. now - notified[news] < Cooldown
    BY <1>3, <2>1, <2>2
  <2> QED
    BY <1>1, <1>2, <2>1, <2>3
<1> QED
  BY <1>1, <1>2, <1>3

LEMMA NoticeInvKept ==
  ASSUME TypeInv, NoticeInv, [Next]_vars
  PROVE  NoticeInv'
<1>1. CASE UNCHANGED <<notified, told, now>>
  BY <1>1 DEF NoticeInv
<1>2. ASSUME NEW sid \in Sid, NEW kind \in Kind, StartNotice(sid, kind), now' = now
      PROVE  NoticeInv'
  <2> DEFINE key == <<sid, kind>>
  <2>1. /\ key \in News /\ MayNotify(key) /\ notified' = Notified(key)
        /\ told' = [told EXCEPT ![key] = Append(@, now)]
    BY <1>2 DEF StartNotice, News
  <2> HIDE DEF key
  <2>2. /\ told'[key] = Append(told[key], now)
        /\ \A news \in News : news # key => told'[news] = told[news]
    BY <2>1, NewsValues
  <2>3. ASSUME NEW news \in News
        PROVE  /\ \A i \in 1 .. Len(told'[news]) :
                    \/ now - told'[news][i] >= Cooldown
                    \/ news \in DOMAIN notified' /\ notified'[news] >= told'[news][i]
               /\ \A i, j \in 1 .. Len(told'[news]) :
                    i < j => told'[news][j] - told'[news][i] >= Cooldown
               /\ news \in DOMAIN notified' =>
                    \E i \in 1 .. Len(told'[news]) : told'[news][i] = notified'[news]
    <3>1. CASE news = key
      BY <1>2, <2>1, <2>2, <3>1, ToldIsRemembered
    <3>2. CASE news # key
      <4>1. told'[news] = told[news]
        BY <2>2, <3>2
      <4>2. /\ \A i \in 1 .. Len(told'[news]) :
                 \/ now - told'[news][i] >= Cooldown
                 \/ news \in DOMAIN notified' /\ notified'[news] >= told'[news][i]
            /\ news \in DOMAIN notified' =>
                 news \in DOMAIN notified /\ notified'[news] = notified[news]
        BY <1>2, <2>1, <3>2, <4>1, OtherNewsIsKept
      <4> QED
        BY <4>1, <4>2 DEF NoticeInv
    <3> QED
      BY <3>1, <3>2
  <2>4. DOMAIN notified' \subseteq News
    BY <2>1, NewsValues DEF Notified
  <2> QED
    BY <1>2, <2>3, <2>4 DEF NoticeInv
<1>3. CASE Tick
  <2>1. UNCHANGED <<notified, told>> /\ now' = now + 1
    BY <1>3 DEF Tick, memory
  <2>2. ASSUME NEW news \in News, NEW i \in 1 .. Len(told[news])
        PROVE  \/ now' - told[news][i] >= Cooldown
               \/ news \in DOMAIN notified /\ notified[news] >= told[news][i]
    <3>1. \/ now - told[news][i] >= Cooldown
          \/ news \in DOMAIN notified /\ notified[news] >= told[news][i]
      BY DEF NoticeInv
    <3>2. now \in Nat /\ told[news][i] \in Nat /\ Cooldown \in Nat /\ now' = now + 1
      BY <2>1, NewsValues
    <3> QED
      BY <3>1, <3>2
  <2>3. told' = told /\ notified' = notified
    BY <2>1
  <2>4. \A news \in News : \A i \in 1 .. Len(told'[news]) :
          \/ now' - told'[news][i] >= Cooldown
          \/ news \in DOMAIN notified' /\ notified'[news] >= told'[news][i]
    BY <2>2, <2>3
  <2>5. /\ \A news \in News : \A i, j \in 1 .. Len(told'[news]) :
             i < j => told'[news][j] - told'[news][i] >= Cooldown
        /\ \A news \in DOMAIN notified' :
             \E i \in 1 .. Len(told'[news]) : told'[news][i] = notified'[news]
    BY <2>3 DEF NoticeInv
  <2> QED
    BY <2>4, <2>5 DEF NoticeInv
<1>4. CASE Restart
  BY <1>4, EmptySeq DEF Restart, NoticeInv, NothingTold, EmptyMap
<1>5. ASSUME \/ \E k \in DOMAIN posts, kind \in Held : HubStatus(k, kind)
             \/ StatusTold \/ NoticeTask
      PROVE  NoticeInv'
  <2>1. now' = now
    BY <1>5 DEF HubStatus, StatusTold, NoticeTask, memory
  <2> QED
    BY <1>1, <1>2, <1>5, <2>1, NewsIsTold
<1> QED
  BY <1>1, <1>3, <1>4, <1>5 DEF Next, vars, memory, DeliverDuplicate, Deliver,
     InjectStep, InjectWritten, InjectReturns, InjectRefused, InjectRaises,
     LocalMessage, LocalMessageNowhere, SessionStarts, SessionEnds

LEMMA NoticeInvHolds == Spec => [](TypeInv /\ NoticeInv)
<1>1. Init => TypeInv /\ NoticeInv
  BY InitTypeInv, EmptySeq DEF Init, NoticeInv, NothingTold, EmptyMap
<1>2. TypeInv /\ NoticeInv /\ [Next]_vars => (TypeInv /\ NoticeInv)'
  BY NextTypeInv, NoticeInvKept
<1> QED
  BY <1>1, <1>2, PTL DEF Spec

(***************************************************************************)
(* One process begins two notices of one kind to one session at least a     *)
(* cool-down apart: of a message held or of having no project, of one       *)
(* message or of several, from tasks that overlap or follow one another,    *)
(* and although the table is pruned whenever anything is said (app.py:      *)
(* _notify_ok, _notify_session, _spawn_notify, on_hub_status).              *)
(***************************************************************************)
THEOREM NoticesKeepTheirDistance == Spec => []NoticesCoalesced
<1>1. TypeInv /\ NoticeInv => NoticesCoalesced
  BY NewsValues DEF NoticeInv, NoticesCoalesced
<1> QED
  BY <1>1, NoticeInvHolds, PTL

(***************************************************************************)
(* A notice is kept back only within a cool-down of one of its own kind to  *)
(* the same session, which this process began: no other news silences it,   *)
(* and it is never silenced for good (app.py: _notify_ok).                  *)
(***************************************************************************)
THEOREM SilenceIsForWhatWasTold == Spec => []SilencedWasTold
<1>1. ASSUME TypeInv, NoticeInv, NEW news \in News, ~ MayNotify(news)
      PROVE  \E i \in DOMAIN told[news] : now - told[news][i] < Cooldown
  <2>1. news \in DOMAIN notified /\ ~ (now - notified[news] >= Cooldown)
    BY <1>1 DEF MayNotify
  <2>2. PICK i \in 1 .. Len(told[news]) : told[news][i] = notified[news]
    BY <1>1, <2>1 DEF NoticeInv
  <2>3. notified[news] \in Nat /\ now \in Nat /\ Cooldown \in Nat
    BY <1>1, <2>1, NewsValues
  <2>4. now - told[news][i] < Cooldown
    BY <2>1, <2>2, <2>3
  <2> QED
    BY <1>1, <2>4, NewsValues
<1>2. TypeInv /\ NoticeInv => SilencedWasTold
  BY <1>1 DEF SilencedWasTold
<1> QED
  BY <1>2, NoticeInvHolds, PTL

----------------------------------------------------------------------------
(* Correlations are kept *)

\* Why message m may leave the queue of socket s in a step.
MayLeave(s, m) ==
  \/ posts' # posts /\ Last(posts').sock = s /\ Last(posts').orig = m
  \/ InjectRefused /\ reader.env.mid = m /\ Target.sock = s
  \/ Len(pending'[s]) = PendingMax
  \/ Restart

LEMMA CorrelationStep ==
  ASSUME TypeInv, [Next]_vars, NEW s \in Sock,
         NEW m \in Range(pending[s]) \ Range(pending'[s])
  PROVE  MayLeave(s, m)
<1>1. Queues(pending)
  BY DEF TypeInv, PendingInv, Queues
<1>2. CASE pending' = pending
  BY <1>2
<1>3. ASSUME NEW env \in Inbound, Deliver(env)
      PROVE  MayLeave(s, m)
  <2> PICK targets \in Candidates(env) :
        IF targets = <<>> THEN UNCHANGED <<reader, pending>>
        ELSE Offer(env, targets, ReplyPin(env), pending)
    BY <1>3 DEF Deliver
  <2>1. CASE targets = <<>>
    BY <2>1
  <2>2. CASE targets # <<>>
    <3>1. targets \in Seq(Entries) /\ env.mid \in Nat
      BY CandidatesAreLive, InboundIs DEF TypeInv
    <3>2. Head(targets) \in Entries
      BY <3>1, <2>2, HeadTailProperties
    <3>3. pending' = Pend(pending, Head(targets).sock, env.mid) /\ Head(targets).sock \in Sock
      BY <3>2, <2>2 DEF Offer, Sock
    <3> QED
      BY <1>1, <3>1, <3>3, PendKeeps DEF MayLeave
  <2> QED BY <2>1, <2>2
<1>4. CASE InjectRefused
  <2> DEFINE rest == Tail(reader.targets)
             queues == Unpend(Target.sock, reader.env.mid)
  <2>1. /\ reader.targets \in Seq(Entries) /\ reader.targets # <<>> /\ reader.env.mid \in Nat
    BY <1>4 DEF InjectRefused, TypeInv, ReaderInv
  <2>2. Target \in Entries /\ rest \in Seq(Entries)
    BY <2>1, HeadTailProperties DEF Target
  <2>3. Target.sock \in Sock
    BY <2>2 DEF Sock
  <2>4. /\ Queues(queues)
        /\ Range(pending[s]) \ {reader.env.mid} \subseteq Range(queues[s])
        /\ s # Target.sock => queues[s] = pending[s]
    BY <2>3, UnpendKeeps DEF TypeInv
  <2>5. Range(queues[s]) \subseteq Range(pending'[s]) \/ Len(pending'[s]) = PendingMax
    <3>1. CASE rest = <<>>
      BY <1>4, <3>1 DEF InjectRefused
    <3>2. CASE rest # <<>>
      <4>1. Head(rest).sock \in Sock
        BY <2>2, <3>2, HeadTailProperties DEF Sock
      <4>2. pending' = Pend(queues, Head(rest).sock, reader.env.mid)
        BY <1>4, <3>2 DEF InjectRefused, Offer
      <4> HIDE DEF rest, queues
      <4> QED
        BY <2>1, <2>4, <4>1, <4>2, PendKeeps
    <3> QED BY <3>1, <3>2
  <2> HIDE DEF queues
  <2>6. CASE m \in Range(queues[s])
    BY <2>5, <2>6 DEF MayLeave
  <2>7. CASE m \notin Range(queues[s])
    BY <1>4, <2>4, <2>7 DEF MayLeave
  <2> QED BY <2>6, <2>7
<1>5. ASSUME NEW e \in Entries, LocalMessage(e)
      PROVE  MayLeave(s, m)
  <2> DEFINE q == pending[e.sock]
             post == [sid |-> e.sid, sock |-> e.sock, project |-> e.project,
                      orig |-> NextPending(e.sock), life |-> restarts]
  <2>1. /\ q \in Seq(Nat) /\ e.sock \in Sock
        /\ pending' = [pending EXCEPT ![e.sock] = IF q = <<>> THEN <<>> ELSE Tail(q)]
    BY <1>1, <1>5 DEF LocalMessage, Answered, Queues, Sock
  <2>2. s = e.sock
    BY <1>1, <2>1 DEF Queues
  <2>3. q # <<>>
    BY <1>1, <2>1, <2>2 DEF Queues
  <2>4. pending'[s] = Tail(q)
    BY <1>1, <2>1, <2>2, <2>3 DEF Queues
  <2>5. m = Head(q)
    <3>1. PICK i \in 1 .. Len(q) : q[i] = m
      BY <2>1, <2>2, RangeEquality
    <3>2. /\ Tail(q) \in Seq(Nat) /\ Len(Tail(q)) = Len(q) - 1 /\ Len(q) \in Nat
          /\ \A j \in 1 .. Len(Tail(q)) : Tail(q)[j] = q[j + 1]
      BY <2>1, <2>3, HeadTailProperties, LenProperties
    <3>3. CASE i = 1
      BY <2>1, <2>3, <3>1, <3>3
    <3>4. CASE i # 1
      <4> HIDE DEF q
      <4>1. i - 1 \in 1 .. Len(Tail(q)) /\ (i - 1) + 1 = i
        BY <3>2, <3>4
      <4>2. Tail(q)[i - 1] = m
        BY <3>1, <3>2, <4>1
      <4>3. m \in Range(Tail(q))
        BY <3>2, <4>1, <4>2, RangeEquality
      <4> QED
        BY <2>4, <4>3
    <3> QED BY <3>3, <3>4
  <2>6. post.sock = s /\ post.orig = m
    BY <2>2, <2>3, <2>5 DEF NextPending
  <2>7. posts' = Append(posts, post)
    BY <1>5 DEF LocalMessage
  <2> HIDE DEF post
  <2>8. Last(posts') = post /\ posts' # posts
    <3>1. posts \in Seq(Range(posts) \cup {post}) /\ Len(posts) \in Nat
      BY SeqOfRange, SeqMonotonic, Lengths DEF TypeInv, HistoryInv
    <3>2. Len(posts') = Len(posts) + 1 /\ posts'[Len(posts) + 1] = post
      BY <2>7, <3>1, AppendProperties
    <3> QED
      BY <3>1, <3>2 DEF Last
  <2> QED
    BY <2>6, <2>8 DEF MayLeave
<1>6. CASE Restart
  BY <1>6 DEF MayLeave
<1> QED
  BY <1>2, <1>3, <1>4, <1>5, <1>6 DEF Next, vars, memory, DeliverDuplicate, InjectStep,
     InjectWritten, InjectReturns, InjectRaises, HubStatus, StatusTold, NoticeTask,
     LocalMessageNowhere, SessionStarts, SessionEnds, Tick

(***************************************************************************)
(* A message a session has yet to answer leaves its socket's queue only     *)
(* when a message of that session is posted as its answer, when that        *)
(* session's socket refuses it, when PENDING_PER_SOCKET_MAX later ones      *)
(* displace it, or when the process is killed (app.py: _next_pending,       *)
(* _unqueue_pending, on_deliver).                                           *)
(***************************************************************************)
THEOREM CorrelationsAreKept == Spec => CorrelationKept
<1>1. TypeInv /\ [Next]_vars =>
        [\A s \in Sock : \A m \in Range(pending[s]) \ Range(pending'[s]) :
           \/ posts' # posts /\ Last(posts').sock = s /\ Last(posts').orig = m
           \/ InjectRefused /\ reader.env.mid = m /\ Target.sock = s
           \/ Len(pending'[s]) = PendingMax
           \/ Restart]_vars
  BY CorrelationStep DEF MayLeave
<1> QED
  BY InitTypeInv, NextTypeInv, <1>1, PTL DEF Spec, CorrelationKept

----------------------------------------------------------------------------
(* Nothing is pending against a session that did not take it *)

\* A session on socket s took message m.
TakenAt(m, s) == \E t \in taken : t.mid = m /\ \E e \in Entries : e.sid = t.sid /\ e.sock = s

\* All that is in queue q of socket s was taken there.
Clean(q, s) == \A i \in 1 .. Len(q) : TakenAt(q[i], s)

\* All but message m, which is in the queue once at most unless it was, too.
CleanBut(q, s, m) ==
  \A i \in 1 .. Len(q) :
    \/ TakenAt(q[i], s)
    \/ q[i] = m /\ \A j \in 1 .. Len(q) : q[j] = m => j = i

\* Only the message that is being offered may be pending before it is taken,
\* so that the one removal of a refusal clears it.
PendInv ==
  \A s \in Sock :
    IF reader.pc = "injecting" /\ Target.sock = s
    THEN CleanBut(pending[s], s, reader.env.mid)
    ELSE Clean(pending[s], s)

(***************************************************************************)
(* What a socket took stays taken.                                          *)
(***************************************************************************)
LEMMA TakenAtStays ==
  ASSUME TypeInv, [Next]_vars, NEW m, NEW s, TakenAt(m, s)
  PROVE  TakenAt(m, s)'
<1>1. PICK t \in taken : t.mid = m /\ \E e \in Entries : e.sid = t.sid /\ e.sock = s
  BY DEF TakenAt
<1>2. PICK u \in taken' : u.mid = t.mid /\ u.sid = t.sid
  BY HistoryGrows
<1> QED
  BY <1>1, <1>2 DEF TakenAt

(***************************************************************************)
(* The head of a queue leaves.                                              *)
(***************************************************************************)
LEMMA TailStaysClean ==
  ASSUME NEW q \in Seq(Nat), q # <<>>, NEW s, NEW m
  PROVE  /\ Clean(q, s) => Clean(Tail(q), s)
         /\ CleanBut(q, s, m) => CleanBut(Tail(q), s, m)
<1>1. /\ Tail(q) \in Seq(Nat) /\ Len(q) \in Nat /\ Len(Tail(q)) = Len(q) - 1
      /\ \A i \in 1 .. Len(Tail(q)) : Tail(q)[i] = q[i + 1]
  BY HeadTailProperties, LenProperties
<1>2. \A i \in 1 .. Len(Tail(q)) : i \in Nat /\ i + 1 \in 1 .. Len(q)
  BY <1>1
<1>3. Clean(q, s) => Clean(Tail(q), s)
  BY <1>1, <1>2 DEF Clean
<1>4. ASSUME CleanBut(q, s, m), NEW i \in 1 .. Len(Tail(q)), ~ TakenAt(Tail(q)[i], s)
      PROVE  Tail(q)[i] = m /\ \A j \in 1 .. Len(Tail(q)) : Tail(q)[j] = m => j = i
  <2>1. q[i + 1] = m /\ \A j \in 1 .. Len(q) : q[j] = m => j = i + 1
    BY <1>1, <1>2, <1>4 DEF CleanBut
  <2>2. ASSUME NEW j \in 1 .. Len(Tail(q)), Tail(q)[j] = m
        PROVE  j = i
    <3>1. j + 1 = i + 1
      BY <1>1, <1>2, <2>1, <2>2
    <3> QED
      BY <1>2, <3>1
  <2> QED
    BY <1>1, <2>1, <2>2
<1> QED
  BY <1>3, <1>4 DEF CleanBut

(***************************************************************************)
(* A message joins a queue, at its end.                                     *)
(***************************************************************************)
LEMMA AppendStaysClean ==
  ASSUME NEW q \in Seq(Nat), NEW s, NEW m \in Nat, Clean(q, s)
  PROVE  CleanBut(Append(q, m), s, m)
<1> DEFINE r == Append(q, m)
<1>1. /\ Len(q) \in Nat /\ Len(r) = Len(q) + 1 /\ r[Len(q) + 1] = m
      /\ \A i \in 1 .. Len(q) : r[i] = q[i]
  BY AppendProperties, LenProperties
<1> HIDE DEF r
<1>2. ASSUME NEW i \in 1 .. Len(r), ~ TakenAt(r[i], s)
      PROVE  r[i] = m /\ \A j \in 1 .. Len(r) : r[j] = m => j = i
  <2>1. i \notin 1 .. Len(q)
    BY <1>1, <1>2 DEF Clean
  <2>2. i = Len(q) + 1
    BY <1>1, <2>1
  <2>3. ASSUME NEW j \in 1 .. Len(r), r[j] = m
        PROVE  j = i
    <3>1. ~ TakenAt(m, s)
      BY <1>1, <1>2, <2>2
    <3>2. j \notin 1 .. Len(q)
      BY <1>1, <2>3, <3>1 DEF Clean
    <3> QED
      BY <1>1, <2>2, <3>2
  <2> QED
    BY <1>1, <2>2, <2>3
<1> QED
  BY <1>2 DEF CleanBut, r

(***************************************************************************)
(* One removal of the message that may not have been taken is enough.       *)
(***************************************************************************)
LEMMA RemovalCleans ==
  ASSUME NEW q \in Seq(Nat), NEW s, NEW m, CleanBut(q, s, m)
  PROVE  Clean(RemoveFirst(q, m), s)
<1>1. Len(q) \in Nat
  BY LenProperties
<1>2. CASE \E i \in 1 .. Len(q) : q[i] = m
  <2>1. PICK p \in 1 .. Len(q) : q[p] = m /\ RemoveFirst(q, m) = RemoveAt(q, p)
    BY <1>2, RemovedFirst
  <2> DEFINE r == RemoveAt(q, p)
  <2>2. /\ Len(r) = Len(q) - 1
        /\ \A i \in 1 .. Len(q) - 1 : r[i] = IF i < p THEN q[i] ELSE q[i + 1]
    BY <2>1, RemovedAt
  <2> HIDE DEF r
  <2>3. ASSUME NEW i \in 1 .. Len(r)
        PROVE  TakenAt(r[i], s)
    <3>1. PICK j \in 1 .. Len(q) : j # p /\ r[i] = q[j]
      <4>1. CASE i < p
        <5>1. i \in 1 .. Len(q) /\ i # p /\ r[i] = q[i]
          BY <1>1, <2>1, <2>2, <4>1
        <5> QED
          BY <5>1
      <4>2. CASE ~ (i < p)
        <5>1. i + 1 \in 1 .. Len(q) /\ i + 1 # p /\ r[i] = q[i + 1]
          BY <1>1, <2>1, <2>2, <4>2
        <5> QED
          BY <5>1
      <4> QED BY <4>1, <4>2
    <3>2. TakenAt(q[j], s) \/ (q[j] = m /\ \A k \in 1 .. Len(q) : q[k] = m => k = j)
      BY DEF CleanBut
    <3>3. ~ (q[j] = m /\ \A k \in 1 .. Len(q) : q[k] = m => k = j)
      BY <2>1, <3>1
    <3> QED
      BY <3>1, <3>2, <3>3
  <2> QED
    BY <2>1, <2>3 DEF Clean, r
<1>3. CASE ~ \E i \in 1 .. Len(q) : q[i] = m
  <2>1. RemoveFirst(q, m) = q
    BY <1>3 DEF RemoveFirst
  <2> QED
    BY <2>1, <1>3 DEF Clean, CleanBut
<1> QED
  BY <1>2, <1>3

(***************************************************************************)
(* A message is offered while all that is pending was taken.                *)
(***************************************************************************)
LEMMA OfferPends ==
  ASSUME NEW env, env.mid \in Nat, NEW targets \in Seq(Entries), targets # <<>>,
         NEW pin, NEW queues, Queues(queues), Offer(env, targets, pin, queues),
         \A s \in Sock : Clean(queues[s], s), taken' = taken
  PROVE  PendInv'
<1> DEFINE k == Head(targets).sock
           q == queues[k]
           r == IF Len(q) < PendingMax THEN q ELSE Tail(q)
<1>1. k \in Sock
  BY HeadTailProperties DEF Sock
<1>2. q \in Seq(Nat) /\ Len(q) \in Nat /\ Clean(q, k)
  BY <1>1, LenProperties DEF Queues
<1>3. r \in Seq(Nat) /\ Clean(r, k)
  <2>1. CASE Len(q) < PendingMax
    BY <1>2, <2>1
  <2>2. CASE ~ (Len(q) < PendingMax)
    <3>1. q # <<>>
      BY <1>2, <2>2, Constants, EmptySeq
    <3>2. r = Tail(q)
      BY <2>2
    <3> HIDE DEF q, r
    <3> QED
      BY <1>2, <3>1, <3>2, TailStaysClean, HeadTailProperties
  <2> QED BY <2>1, <2>2
<1>4. /\ reader'.pc = "injecting" /\ reader'.env = env /\ Target'.sock = k
      /\ pending' = [queues EXCEPT ![k] = Append(r, env.mid)]
  BY DEF Offer, Target, Pend
<1> HIDE DEF k, q, r
<1>5. CleanBut(Append(r, env.mid), k, env.mid)
  BY <1>3, AppendStaysClean
<1>6. ASSUME NEW s \in Sock
      PROVE  (IF reader.pc = "injecting" /\ Target.sock = s
              THEN CleanBut(pending[s], s, reader.env.mid)
              ELSE Clean(pending[s], s))'
  <2>1. \A x, y : TakenAt(x, y)' = TakenAt(x, y)
    BY DEF TakenAt
  <2>2. CASE s = k
    <3>1. pending'[s] = Append(r, env.mid)
      BY <1>1, <1>4, <2>2 DEF Queues
    <3> QED
      BY <1>4, <1>5, <2>1, <2>2, <3>1 DEF CleanBut
  <2>3. CASE s # k
    <3>1. pending'[s] = queues[s]
      BY <1>1, <1>4, <2>3 DEF Queues
    <3> QED
      BY <1>4, <2>1, <2>3, <3>1 DEF Clean
  <2> QED BY <2>2, <2>3
<1> QED
  BY <1>6 DEF PendInv

(***************************************************************************)
(* A step that offers nothing, and empties queues at most from the front.   *)
(***************************************************************************)
LEMMA PendInvUntouched ==
  ASSUME TypeInv, PendInv, [Next]_vars,
         \/ reader' = reader
         \/ reader.pc # "injecting" /\ reader'.pc # "injecting",
         \A s \in Sock : \/ pending'[s] = pending[s]
                         \/ pending[s] # <<>> /\ pending'[s] = Tail(pending[s])
  PROVE  PendInv'
<1>1. ASSUME NEW s \in Sock
      PROVE  /\ Clean(pending[s], s) => Clean(pending[s], s)'
             /\ \A m : CleanBut(pending[s], s, m) => CleanBut(pending[s], s, m)'
  <2>1. pending[s] \in Seq(Nat)
    BY DEF TypeInv, PendingInv
  <2>2. /\ Clean(pending[s], s) => Clean(pending'[s], s)
        /\ \A m : CleanBut(pending[s], s, m) => CleanBut(pending'[s], s, m)
    BY <2>1, TailStaysClean
  <2>3. \A x : TakenAt(x, s) => TakenAt(x, s)'
    BY TakenAtStays
  <2> QED
    BY <2>2, <2>3 DEF Clean, CleanBut
<1>2. CASE reader' = reader
  BY <1>1, <1>2 DEF PendInv, Target
<1>3. CASE reader.pc # "injecting" /\ reader'.pc # "injecting"
  BY <1>1, <1>3 DEF PendInv
<1> QED
  BY <1>2, <1>3

\* Where no write raises, every step keeps what is pending clean.
LEMMA PendInvKept ==
  ASSUME TypeInv, PendInv, [Next]_vars, "raise" \notin Failures
  PROVE  PendInv'
<1>1. CASE pending' = pending /\ (reader' = reader \/ (reader.pc # "injecting" /\ reader'.pc # "injecting"))
  BY <1>1, PendInvUntouched
<1>2. ASSUME NEW env \in Inbound, Deliver(env)
      PROVE  PendInv'
  <2>1. reader.pc = "idle" /\ taken' = taken
    BY <1>2 DEF Deliver, Idle, history
  <2> PICK targets \in Candidates(env) :
        IF targets = <<>> THEN UNCHANGED <<reader, pending>>
        ELSE Offer(env, targets, ReplyPin(env), pending)
    BY <1>2 DEF Deliver
  <2>2. CASE targets = <<>>
    BY <2>2, <1>1
  <2>3. CASE targets # <<>>
    <3>1. targets \in Seq(Entries) /\ env.mid \in Nat
      BY CandidatesAreLive, InboundIs DEF TypeInv
    <3>2. Queues(pending) /\ \A s \in Sock : Clean(pending[s], s)
      BY <2>1 DEF TypeInv, PendingInv, Queues, PendInv
    <3> QED
      BY <2>1, <2>3, <3>1, <3>2, OfferPends
  <2> QED BY <2>2, <2>3
<1>3. CASE InjectWritten
  <2>1. /\ reader.pc = "injecting" /\ reader'.pc = "written" /\ pending' = pending
        /\ reader.targets \in Seq(Entries) /\ reader.targets # <<>>
    BY <1>3 DEF InjectWritten, memory, TypeInv, ReaderInv
  <2>2. Target \in Entries
    BY <2>1, HeadTailProperties DEF Target
  <2>3. \A m, s : m = reader.env.mid /\ s = Target.sock => TakenAt(m, s)'
    BY <1>3, <2>2, TakenByTarget DEF TakenAt
  <2>4. ASSUME NEW s \in Sock, NEW i \in 1 .. Len(pending[s]), NEW m, m = pending[s][i]
        PROVE  TakenAt(m, s)'
    <3>1. TakenAt(m, s) \/ (s = Target.sock /\ m = reader.env.mid)
      BY <2>1, <2>4 DEF PendInv, Clean, CleanBut
    <3> QED
      BY <3>1, <2>3, TakenAtStays
  <2> QED
    BY <2>1, <2>4 DEF PendInv, Clean
<1>4. CASE InjectRefused
  <2> DEFINE rest == Tail(reader.targets)
             queues == Unpend(Target.sock, reader.env.mid)
  <2>1. /\ reader.targets \in Seq(Entries) /\ reader.targets # <<>> /\ reader.env.mid \in Nat
        /\ reader.pc = "injecting" /\ taken' = taken
    BY <1>4 DEF InjectRefused, TypeInv, ReaderInv, history
  <2>2. Target \in Entries /\ rest \in Seq(Entries)
    BY <2>1, HeadTailProperties DEF Target
  <2>3. Target.sock \in Sock
    BY <2>2 DEF Sock
  <2>4. Queues(queues)
    BY <2>3, UnpendKeeps DEF TypeInv
  <2>5. ASSUME NEW s \in Sock
        PROVE  Clean(queues[s], s)
    <3>1. pending \in [Sock -> Seq(Nat)]
      BY DEF TypeInv, PendingInv
    <3>2. CASE s = Target.sock
      <4>1. queues[s] = RemoveFirst(pending[s], reader.env.mid)
        BY <3>1, <3>2 DEF Unpend
      <4>2. pending[s] \in Seq(Nat) /\ CleanBut(pending[s], s, reader.env.mid)
        BY <2>1, <3>1, <3>2 DEF PendInv
      <4> HIDE DEF queues
      <4> QED
        BY <4>1, <4>2, RemovalCleans
    <3>3. CASE s # Target.sock
      BY <2>1, <3>1, <3>3 DEF PendInv, Unpend
    <3> QED BY <3>2, <3>3
  <2>6. CASE rest = <<>>
    <3>1. reader' = Idle /\ pending' = queues
      BY <1>4, <2>6 DEF InjectRefused
    <3> HIDE DEF queues
    <3> QED
      BY <2>1, <2>5, <3>1 DEF PendInv, Idle, Clean, TakenAt
  <2>7. CASE rest # <<>>
    <3>1. Offer(reader.env, rest, reader.pin, queues)
      BY <1>4, <2>7 DEF InjectRefused
    <3> HIDE DEF rest, queues
    <3> QED
      BY <2>1, <2>2, <2>4, <2>5, <2>7, <3>1, OfferPends
  <2> QED BY <2>6, <2>7
<1>5. ASSUME NEW e \in Entries, LocalMessage(e)
      PROVE  PendInv'
  <2>1. /\ reader' = reader /\ pending \in [Sock -> Seq(Nat)]
        /\ pending' = [pending EXCEPT ![e.sock] = IF @ = <<>> THEN <<>> ELSE Tail(@)]
    BY <1>5 DEF LocalMessage, Answered, TypeInv, PendingInv
  <2>2. \A s \in Sock : \/ pending'[s] = pending[s]
                        \/ pending[s] # <<>> /\ pending'[s] = Tail(pending[s])
    BY <2>1
  <2> QED
    BY <2>1, <2>2, PendInvUntouched
<1>6. CASE Restart
  BY <1>6, EmptySeq DEF Restart, PendInv, Idle, NothingPending, Clean
<1> QED
  BY <1>1, <1>2, <1>3, <1>4, <1>5, <1>6 DEF Next, vars, memory, DeliverDuplicate, InjectStep,
     InjectReturns, InjectRaises, Idle, HubStatus, StatusTold, NoticeTask,
     LocalMessageNowhere, SessionStarts, SessionEnds, Tick

(***************************************************************************)
(* While no connection breaks in the middle of an inject, nothing is left   *)
(* pending against a target that did not take the message, whoever refuses, *)
(* answers early, or is killed (app.py: on_deliver, _unqueue_pending).  The *)
(* raise that Failures leaves out is the one that on_deliver does not       *)
(* catch.                                                                   *)
(***************************************************************************)
THEOREM RefusalsLeaveNothing == "raise" \notin Failures => (Spec => []PendingWasTaken)
<1> SUFFICES ASSUME "raise" \notin Failures
             PROVE  Spec => []PendingWasTaken
  OBVIOUS
<1>1. Init => TypeInv /\ PendInv
  BY InitTypeInv, EmptySeq DEF Init, PendInv, NothingPending, Clean, Idle
<1>2. TypeInv /\ PendInv /\ [Next]_vars => (TypeInv /\ PendInv)'
  BY NextTypeInv, PendInvKept
<1>3. TypeInv /\ PendInv => PendingWasTaken
  <2> SUFFICES ASSUME TypeInv, PendInv, NEW s \in Sock, NEW m \in Range(pending[s])
               PROVE  \/ TakenAt(m, s)
                      \/ reader.pc = "injecting" /\ reader.env.mid = m /\ Target.sock = s
    BY DEF PendingWasTaken, TakenAt
  <2>1. PICK i \in 1 .. Len(pending[s]) : pending[s][i] = m
    BY RangeEquality DEF TypeInv, PendingInv
  <2> QED
    BY <2>1 DEF PendInv, Clean, CleanBut
<1> QED
  BY <1>1, <1>2, <1>3, PTL DEF Spec

----------------------------------------------------------------------------
(* Project ids *)

\* What a URL is made of.
Token == Name \cup Marks \cup {"ssh"}

\* The mark occurs nowhere in a.
Free(a, mark) == \A i \in 1 .. Len(a) : a[i] # mark

(***************************************************************************)
(* The place of a mark is the first one where it stands.                    *)
(***************************************************************************)
LEMMA PlaceIsFirst ==
  ASSUME NEW u \in Seq(Token), NEW mark
  PROVE  /\ Place(u, mark) = 0 <=> Free(u, mark)
         /\ Place(u, mark) # 0 =>
              /\ Place(u, mark) \in 1 .. Len(u) /\ u[Place(u, mark)] = mark
              /\ \A i \in 1 .. Place(u, mark) - 1 : u[i] # mark
<1> DEFINE I == {i \in 1 .. Len(u) : u[i] = mark}
           p == CHOOSE x \in I : \A y \in I : x <= y
<1>1. Place(u, mark) = IF I # {} THEN p ELSE 0
  BY DEF Place, SelectInSeq, Min
<1>2. I = {} <=> Free(u, mark)
  BY DEF Free
<1>3. Len(u) \in Nat
  BY LenProperties
<1>4. I # {} => p \in I /\ \A y \in I : p <= y
  <2>1. I \subseteq Nat
    BY <1>3
  <2> HIDE DEF I
  <2> QED
    BY <2>1, LeastNatural
<1> HIDE DEF p
<1>5. CASE I = {}
  BY <1>1, <1>2, <1>5
<1>6. CASE I # {}
  <2>1. Place(u, mark) = p /\ p \in 1 .. Len(u) /\ u[p] = mark
    BY <1>1, <1>4, <1>6
  <2>2. \A i \in 1 .. p - 1 : u[i] # mark
    <3> SUFFICES ASSUME NEW i \in 1 .. p - 1, u[i] = mark
                 PROVE  FALSE
      OBVIOUS
    <3>1. i \in 1 .. Len(u) /\ i < p
      BY <1>3, <2>1
    <3>2. i \in I
      BY <3>1
    <3>3. p <= i
      BY <1>4, <1>6, <3>2
    <3> QED
      BY <2>1, <3>1, <3>3
  <2> HIDE DEF I
  <2> QED
    BY <1>2, <1>6, <2>1, <2>2
<1> QED
  BY <1>5, <1>6

\* Without the mark, str.partition leaves everything in its first part.
LEMMA NoPlace ==
  ASSUME NEW u \in Seq(Token), NEW mark, Free(u, mark)
  PROVE  Place(u, mark) = 0 /\ Before(u, mark) = u /\ After(u, mark) = <<>>
BY PlaceIsFirst DEF Before, After

(***************************************************************************)
(* A URL that is put together from a part without the mark, the mark and a  *)
(* rest, is taken apart there (str.partition).                              *)
(***************************************************************************)
LEMMA TakenApart ==
  ASSUME NEW a \in Seq(Token), NEW b \in Seq(Token), NEW mark \in Token, Free(a, mark)
  PROVE  /\ Place(a \o (<<mark>> \o b), mark) # 0
         /\ Before(a \o (<<mark>> \o b), mark) = a
         /\ After(a \o (<<mark>> \o b), mark) = b
<1> DEFINE m == <<mark>>
           c == m \o b
           u == a \o c
           p == Place(u, mark)
<1>1. m \in Seq(Token) /\ Len(m) = 1 /\ m[1] = mark
  OBVIOUS
<1>2. Len(a) \in Nat /\ Len(b) \in Nat
  BY LenProperties
<1> HIDE DEF m
<1>3. /\ c \in Seq(Token) /\ Len(c) = 1 + Len(b) /\ c[1] = mark
      /\ \A i \in 1 .. Len(b) : c[1 + i] = b[i]
  <2>1. /\ c \in Seq(Token) /\ Len(c) = 1 + Len(b)
        /\ \A i \in 1 .. 1 + Len(b) : c[i] = IF i <= 1 THEN m[i] ELSE b[i - 1]
    <3>1. /\ c \in Seq(Token) /\ Len(c) = Len(m) + Len(b)
          /\ \A i \in 1 .. Len(m) + Len(b) :
               c[i] = IF i <= Len(m) THEN m[i] ELSE b[i - Len(m)]
      BY <1>1, ConcatProperties
    <3> HIDE DEF c
    <3> QED
      BY <1>1, <3>1
  <2> HIDE DEF c
  <2> QED
    BY <1>1, <1>2, <2>1
<1> HIDE DEF c
<1>4. /\ u \in Seq(Token) /\ Len(u) = Len(a) + 1 + Len(b)
      /\ \A i \in 1 .. Len(a) : u[i] = a[i]
      /\ u[Len(a) + 1] = mark
      /\ \A i \in 1 .. Len(b) : u[Len(a) + 1 + i] = b[i]
  <2>1. /\ u \in Seq(Token) /\ Len(u) = Len(a) + Len(c)
        /\ \A i \in 1 .. Len(a) + Len(c) :
             u[i] = IF i <= Len(a) THEN a[i] ELSE c[i - Len(a)]
    BY <1>3, ConcatProperties, SMTT(60)
  <2> HIDE DEF u
  <2>2. u[Len(a) + 1] = c[1]
    BY <1>2, <1>3, <2>1
  <2>3. ASSUME NEW i \in 1 .. Len(b)
        PROVE  u[Len(a) + 1 + i] = b[i]
    <3>1. u[Len(a) + 1 + i] = c[1 + i]
      BY <1>2, <1>3, <2>1
    <3> QED
      BY <1>3, <3>1
  <2> QED
    BY <1>2, <1>3, <2>1, <2>2, <2>3
<1> HIDE DEF u
<1>5. p = Len(a) + 1
  <2>1. ~ Free(u, mark)
    BY <1>2, <1>4 DEF Free
  <2>2. /\ p # 0 /\ p \in 1 .. Len(u) /\ u[p] = mark
        /\ \A i \in 1 .. p - 1 : u[i] # mark
    BY <1>4, <2>1, PlaceIsFirst
  <2> HIDE DEF p
  <2>3. ~ (p <= Len(a))
    <3> SUFFICES ASSUME p <= Len(a)
                 PROVE  FALSE
      OBVIOUS
    <3>1. p \in 1 .. Len(a)
      BY <1>2, <2>2
    <3>2. a[p] = mark
      BY <1>4, <2>2, <3>1
    <3> QED
      BY <3>1, <3>2 DEF Free
  <2>4. ~ (Len(a) + 1 < p)
    BY <1>2, <1>4, <2>2
  <2> QED
    BY <1>2, <2>2, <2>3, <2>4
<1>6. Before(u, mark) = SubSeq(u, 1, Len(a))
  BY <1>2, <1>5 DEF Before
<1>7. After(u, mark) = SubSeq(u, Len(a) + 2, Len(a) + 1 + Len(b))
  BY <1>2, <1>4, <1>5 DEF After
<1> HIDE DEF p
<1>8. SubSeq(u, 1, Len(a)) = a
  <2> DEFINE s == SubSeq(u, 1, Len(a))
  <2>1. \A i \in 1 .. Len(a) : u[i] \in Token
    BY <1>4, ElementOfSeq
  <2>2. s \in Seq(Token) /\ Len(s) = Len(a) /\ \A i \in 1 .. Len(a) : s[i] = u[i]
    BY <1>2, <2>1, SubSeqProperties
  <2> HIDE DEF s
  <2>3. s = a
    BY <1>4, <2>2, SeqEqual
  <2> QED
    BY <2>3 DEF s
<1>9. SubSeq(u, Len(a) + 2, Len(a) + 1 + Len(b)) = b
  <2> DEFINE f == Len(a) + 2
             l == Len(a) + 1 + Len(b)
             s == SubSeq(u, f, l)
  <2>0. f \in Int /\ l \in Int /\ l - f + 1 = Len(b)
    BY <1>2
  <2>1. \A i \in f .. l : u[i] \in Token
    BY <1>2, <1>4, ElementOfSeq
  <2>2. s \in Seq(Token) /\ Len(s) = Len(b) /\ \A i \in 1 .. Len(b) : s[i] = u[f + i - 1]
    <3> HIDE DEF f, l
    <3>1. /\ s \in Seq(Token) /\ Len(s) = IF f <= l THEN l - f + 1 ELSE 0
          /\ \A i \in 1 .. l - f + 1 : s[i] = u[f + i - 1]
      BY <2>0, <2>1, SubSeqProperties
    <3> QED
      BY <1>2, <2>0, <3>1
  <2> HIDE DEF s
  <2>3. \A i \in 1 .. Len(b) : s[i] = b[i]
    <3>1. \A i \in 1 .. Len(b) : f + i - 1 = Len(a) + 1 + i
      BY <1>2
    <3> HIDE DEF f
    <3> QED
      BY <1>4, <2>2, <3>1
  <2>4. s = b
    BY <2>2, <2>3, SeqEqual
  <2> QED
    BY <2>4 DEF s
<1>10. Place(u, mark) # 0 /\ Before(u, mark) = a /\ After(u, mark) = b
  BY <1>2, <1>5, <1>6, <1>7, <1>8, <1>9 DEF p
<1> QED
  BY <1>10 DEF u, c, m

(***************************************************************************)
(* What a repository's name contributes to its spellings.                   *)
(***************************************************************************)
LEMMA TokenParts ==
  /\ Marks \subseteq Token /\ Name \subseteq Token /\ "ssh" \in Token
  /\ \A name \in Name : name \notin Marks
  /\ "ssh" \notin Marks
BY ProjectIdAssumption DEF Token, Marks

\* Two parts without a mark, joined, have none.
LEMMA FreeConcat ==
  ASSUME NEW a \in Seq(Token), NEW b \in Seq(Token), NEW mark,
         Free(a, mark), Free(b, mark)
  PROVE  a \o b \in Seq(Token) /\ Free(a \o b, mark)
<1> DEFINE c == a \o b
<1>1. /\ c \in Seq(Token) /\ Len(c) = Len(a) + Len(b)
      /\ \A i \in 1 .. Len(a) + Len(b) : c[i] = IF i <= Len(a) THEN a[i] ELSE b[i - Len(a)]
  BY ConcatProperties
<1>2. Len(a) \in Nat /\ Len(b) \in Nat
  BY LenProperties
<1> HIDE DEF c
<1>3. ASSUME NEW i \in 1 .. Len(c)
      PROVE  c[i] # mark
  <2>1. CASE i <= Len(a)
    BY <1>1, <1>2, <2>1 DEF Free
  <2>2. CASE i > Len(a)
    <3>1. i - Len(a) \in 1 .. Len(b) /\ c[i] = b[i - Len(a)]
      BY <1>1, <1>2, <2>2
    <3> QED
      BY <3>1 DEF Free
  <2> QED
    BY <1>1, <1>2, <2>1, <2>2
<1>4. c \in Seq(Token) /\ Free(c, mark)
  BY <1>1, <1>3 DEF Free
<1> QED
  BY <1>4 DEF c

\* A token is free of every mark but itself.
LEMMA FreeOne ==
  ASSUME NEW token \in Token
  PROVE  <<token>> \in Seq(Token) /\ \A mark : token # mark => Free(<<token>>, mark)
BY DEF Free

\* Nothing holds no mark.
LEMMA FreeNone == <<>> \in Seq(Token) /\ \A mark : Free(<<>>, mark)
BY DEF Free

\* Hosts hold no mark, and paths none but slashes, which do not end them.
LEMMA RepositoryParts ==
  ASSUME NEW repo \in Repositories
  PROVE  /\ repo.host \in Seq(Token) /\ \A mark \in Marks : Free(repo.host, mark)
         /\ repo.path \in Seq(Token) /\ repo.path # <<>>
         /\ \A mark \in Marks \ {"/"} : Free(repo.path, mark)
         /\ repo.path[1] # "/" /\ repo.path[Len(repo.path)] # "/"
<1>1. /\ repo.host \in Seq(Name)
      /\ repo.path \in Seq(Name \cup {"/"}) /\ repo.path # <<>>
      /\ Head(repo.path) # "/" /\ Last(repo.path) # "/"
  BY ProjectIdAssumption
<1>2. repo.host \in Seq(Token) /\ repo.path \in Seq(Token)
  <2>1. Name \subseteq Token /\ Name \cup {"/"} \subseteq Token
    BY TokenParts DEF Marks
  <2> QED
    BY <1>1, <2>1, SeqMonotonic
<1>3. \A i \in 1 .. Len(repo.host) : repo.host[i] \in Name
  BY <1>1, ElementOfSeq
<1>4. \A i \in 1 .. Len(repo.path) : repo.path[i] \in Name \cup {"/"}
  BY <1>1, ElementOfSeq
<1>5. repo.path[1] # "/" /\ repo.path[Len(repo.path)] # "/"
  BY <1>1 DEF Last
<1> QED
  BY <1>1, <1>2, <1>3, <1>4, <1>5, TokenParts DEF Free

(***************************************************************************)
(* The slashes around a path go, and a .git at the end of a URL.            *)
(***************************************************************************)
LEMMA SlashesGo ==
  ASSUME NEW path \in Seq(Token), path # <<>>, path[1] # "/", path[Len(path)] # "/",
         NEW slash \in {<<>>, <<"/">>}, NEW end \in {<<>>, <<"/">>}
  PROVE  Strip(slash \o (path \o end)) = path
<1> DEFINE tail == path \o end
<1>0. "/" \in Token /\ Len(path) \in Nat \ {0}
  BY TokenParts, EmptySeq, LenProperties DEF Marks
<1>1. tail \in Seq(Token) /\ tail # <<>> /\ tail[1] = path[1]
  <2>1. end \in Seq(Token)
    BY <1>0, FreeOne, FreeNone
  <2>2. /\ tail \in Seq(Token) /\ Len(tail) = Len(path) + Len(end)
        /\ \A i \in 1 .. Len(path) + Len(end) :
             tail[i] = IF i <= Len(path) THEN path[i] ELSE end[i - Len(path)]
    BY <2>1, ConcatProperties
  <2>3. Len(end) \in Nat
    BY <2>1, LenProperties
  <2> HIDE DEF tail
  <2> QED
    BY <1>0, <2>2, <2>3
<1>2. (IF slash \o tail # <<>> /\ Head(slash \o tail) = "/"
       THEN Tail(slash \o tail) ELSE slash \o tail) = tail
  <2>1. CASE slash = <<>>
    <3>1. slash \o tail = tail
      BY <1>1, <2>1, ConcatEmptySeq
    <3> HIDE DEF tail
    <3>2. Head(tail) # "/"
      BY <1>1
    <3> QED
      BY <3>1, <3>2
  <2>2. CASE slash = <<"/">>
    <3> HIDE DEF tail
    <3>1. /\ Head(<<"/">> \o tail) = "/" /\ Tail(<<"/">> \o tail) = tail
          /\ <<"/">> \o tail # <<>>
      BY <1>0, <1>1
    <3> QED
      BY <2>2, <3>1
  <2> QED
    BY <2>1, <2>2
<1>3. (IF tail # <<>> /\ Last(tail) = "/" THEN Front(tail) ELSE tail) = path
  <2>1. CASE end = <<>>
    <3>1. tail = path
      BY <2>1, ConcatEmptySeq
    <3> HIDE DEF tail
    <3> QED
      BY <3>1 DEF Last
  <2>2. CASE end = <<"/">>
    <3>1. tail = Append(path, "/")
      BY <1>0, <2>2, AppendIsConcat
    <3>2. Last(Append(path, "/")) = "/" /\ Front(Append(path, "/")) = path
      BY <1>0 DEF Last, Front
    <3> HIDE DEF tail
    <3> QED
      BY <1>1, <3>1, <3>2
  <2> QED
    BY <2>1, <2>2
<1> HIDE DEF tail
<1>4. Strip(slash \o tail) = path
  <2> DEFINE all == slash \o tail
  <2>1. (IF all # <<>> /\ Head(all) = "/" THEN Tail(all) ELSE all) = tail
    BY <1>2
  <2> HIDE DEF all
  <2>2. Strip(all) = path
    BY <1>3, <2>1, Zenon DEF Strip
  <2> QED
    BY <2>2 DEF all
<1> QED
  BY <1>4 DEF tail

\* A final .git makes no difference.
LEMMA SuffixGoes ==
  ASSUME NEW url \in Seq(Token), url # <<>>, Free(url, ".git")
  PROVE  /\ Last(url) # ".git"
         /\ Normalize(url \o <<".git">>) = Normalize(url)
<1>1. ".git" \in Token /\ Len(url) \in Nat \ {0}
  BY TokenParts, EmptySeq, LenProperties DEF Marks
<1>2. url \o <<".git">> = Append(url, ".git")
  BY <1>1, AppendIsConcat
<1>3. Last(Append(url, ".git")) = ".git" /\ Front(Append(url, ".git")) = url
  BY <1>1 DEF Last, Front
<1>4. Last(url) # ".git"
  BY <1>1 DEF Last, Free
<1> QED
  BY <1>2, <1>3, <1>4 DEF Normalize

(***************************************************************************)
(* Host and port, then the path: the port goes.                             *)
(***************************************************************************)
LEMMA AuthorityRead ==
  ASSUME NEW host \in Seq(Token), \A mark \in Marks : Free(host, mark),
         NEW port \in Ports, NEW tail \in Seq(Token)
  PROVE  /\ host \o port \in Seq(Token)
         /\ \A mark \in Marks \ {":"} : Free(host \o port, mark)
         /\ Before(host \o port, ":") = host
         /\ Before((host \o port) \o (<<"/">> \o tail), "/") = host \o port
         /\ After((host \o port) \o (<<"/">> \o tail), "/") = tail
<1>1. /\ port \in Seq(Token) /\ \A mark \in Marks \ {":"} : Free(port, mark)
      /\ Before(host \o port, ":") = host
  <2>1. CASE port = <<>>
    <3>1. host \o port = host /\ Free(host, ":")
      BY <2>1, ConcatEmptySeq DEF Marks
    <3> QED
      BY <2>1, <3>1, NoPlace, FreeNone
  <2>2. ASSUME NEW name \in Name, port = <<":", name>>
        PROVE  /\ port \in Seq(Token) /\ \A mark \in Marks \ {":"} : Free(port, mark)
               /\ Before(host \o port, ":") = host
    <3>1. name \in Token /\ ":" \in Token /\ name \notin Marks /\ ":" \in Marks
      BY TokenParts DEF Marks
    <3>2. <<":", name>> = <<":">> \o <<name>>
      OBVIOUS
    <3>3. Free(host, ":") /\ <<name>> \in Seq(Token)
      BY <3>1
    <3>4. Before(host \o (<<":">> \o <<name>>), ":") = host
      BY <3>1, <3>3, TakenApart
    <3>5. port \in Seq(Token)
      BY <2>2, <3>1
    <3>6. \A mark \in Marks \ {":"} : Free(port, mark)
      BY <2>2, <3>1 DEF Free
    <3> QED
      BY <2>2, <3>2, <3>4, <3>5, <3>6
  <2> QED
    BY <2>1, <2>2 DEF Ports
<1>2. host \o port \in Seq(Token) /\ \A mark \in Marks \ {":"} : Free(host \o port, mark)
  BY <1>1, FreeConcat, ConcatProperties
<1>3. "/" \in Token /\ "/" \in Marks \ {":"}
  BY TokenParts DEF Marks
<1> QED
  BY <1>1, <1>2, <1>3, TakenApart

\* A path as it may stand at the end of a spelling that lost its .git.
PathWritten(tail, path) ==
  /\ tail \in Seq(Token) /\ tail # <<>>
  /\ \A mark \in Marks \ {"/"} : Free(tail, mark)
  /\ Strip(tail) = path

\* A path may stand between slashes.
LEMMA PathsWritten ==
  ASSUME NEW repo \in Repositories, NEW slash \in {<<>>, <<"/">>},
         NEW end \in {<<>>, <<"/">>}
  PROVE  PathWritten(slash \o (repo.path \o end), repo.path)
<1> DEFINE tail == slash \o (repo.path \o end)
<1>1. "/" \in Token
  BY TokenParts DEF Marks
<1>2. /\ slash \in Seq(Token) /\ end \in Seq(Token)
      /\ \A mark \in Marks \ {"/"} : Free(slash, mark) /\ Free(end, mark)
  BY <1>1, FreeOne, FreeNone
<1>3. /\ repo.path \o end \in Seq(Token)
      /\ \A mark \in Marks \ {"/"} : Free(repo.path \o end, mark)
  BY <1>2, RepositoryParts, FreeConcat, ConcatProperties
<1>4. tail \in Seq(Token) /\ \A mark \in Marks \ {"/"} : Free(tail, mark)
  <2> HIDE DEF tail
  <2>1. \A b \in Seq(Token) : slash \o b \in Seq(Token)
    BY <1>2, ConcatProperties
  <2>2. \A mark \in Marks \ {"/"} : Free(slash \o (repo.path \o end), mark)
    BY <1>2, <1>3, FreeConcat
  <2> QED
    BY <1>3, <2>1, <2>2 DEF tail
<1>5. tail # <<>>
  BY <1>2, <1>3, RepositoryParts, ConcatEqualIffEmpty
<1>6. Strip(tail) = repo.path
  BY RepositoryParts, SlashesGo
<1> QED
  BY <1>4, <1>5, <1>6 DEF PathWritten

(***************************************************************************)
(* The three forms, without a .git at the end.                              *)
(***************************************************************************)
LEMMA BareRead ==
  ASSUME NEW repo \in Repositories, NEW port \in Ports,
         NEW tail, PathWritten(tail, repo.path)
  PROVE  LET url == (repo.host \o port) \o (<<"/">> \o tail)
         IN /\ url \in Seq(Token) /\ url # <<>> /\ Free(url, ".git")
            /\ Normalize(url) = Id(repo.host, tail)
<1> DEFINE host == repo.host
           rest == <<"/">> \o tail
           url == (host \o port) \o rest
<1>1. /\ host \in Seq(Token) /\ \A mark \in Marks : Free(host, mark)
      /\ tail \in Seq(Token) /\ \A mark \in Marks \ {"/"} : Free(tail, mark)
  BY RepositoryParts DEF PathWritten
<1>2. /\ host \o port \in Seq(Token)
      /\ \A mark \in Marks \ {":"} : Free(host \o port, mark)
      /\ Before(host \o port, ":") = host
      /\ Before(url, "/") = host \o port
      /\ After(url, "/") = tail
  BY <1>1, AuthorityRead
<1>3. rest \in Seq(Token) /\ rest # <<>> /\ \A mark \in Marks \ {"/"} : Free(rest, mark)
  <2>1. <<"/">> \in Seq(Token) /\ \A mark \in Marks \ {"/"} : Free(<<"/">>, mark)
    BY TokenParts, FreeOne DEF Marks
  <2>2. rest \in Seq(Token) /\ \A mark \in Marks \ {"/"} : Free(rest, mark)
    BY <1>1, <2>1, FreeConcat, ConcatProperties
  <2>3. rest # <<>>
    BY <1>1, <2>1, ConcatEqualIffEmpty
  <2> QED
    BY <2>2, <2>3
<1> HIDE DEF host, rest
<1>4. url \in Seq(Token) /\ url # <<>> /\ \A mark \in Marks \ {":", "/"} : Free(url, mark)
  <2>1. url # <<>>
    BY <1>2, <1>3, ConcatEqualIffEmpty
  <2>2. url \in Seq(Token) /\ \A mark \in Marks \ {":", "/"} : Free(url, mark)
    BY <1>2, <1>3, FreeConcat, ConcatProperties
  <2> QED
    BY <2>1, <2>2
<1> HIDE DEF url
<1>5. Free(url, ".git") /\ Free(url, "://") /\ Free(url, "@")
  BY <1>4 DEF Marks
<1>6. Last(url) # ".git" /\ Place(url, "://") = 0 /\ Place(url, "@") = 0
  BY <1>4, <1>5, SuffixGoes, NoPlace
<1>7. Normalize(url) = Id(Before(Before(url, "/"), ":"), After(url, "/"))
  BY <1>6 DEF Normalize
<1>8. Normalize(url) = Id(host, tail)
  BY <1>2, <1>7
<1> QED
  BY <1>4, <1>5, <1>8 DEF url, host, rest

(***************************************************************************)
(* git's short form: what follows the user is host, colon and path.         *)
(***************************************************************************)
LEMMA ShortRead ==
  ASSUME NEW repo \in Repositories, NEW user \in Name,
         NEW tail, PathWritten(tail, repo.path)
  PROVE  LET url == <<user>> \o (<<"@">> \o (repo.host \o (<<":">> \o tail)))
         IN /\ url \in Seq(Token) /\ url # <<>> /\ Free(url, ".git")
            /\ Normalize(url) = Id(repo.host, tail)
<1> DEFINE host == repo.host
           rest == host \o (<<":">> \o tail)
           url == <<user>> \o (<<"@">> \o rest)
<1>1. /\ host \in Seq(Token) /\ \A mark \in Marks : Free(host, mark)
      /\ tail \in Seq(Token) /\ \A mark \in Marks \ {"/"} : Free(tail, mark)
  BY RepositoryParts DEF PathWritten
<1> HIDE DEF host
<1>2. /\ user \in Token /\ \A mark \in Marks : user # mark
      /\ ":" \in Token /\ "@" \in Token
  BY TokenParts DEF Marks
<1>3. /\ <<user>> \in Seq(Token) /\ \A mark \in Marks : Free(<<user>>, mark)
      /\ <<":">> \in Seq(Token) /\ \A mark \in Marks \ {":"} : Free(<<":">>, mark)
      /\ <<"@">> \in Seq(Token) /\ \A mark \in Marks \ {"@"} : Free(<<"@">>, mark)
  BY <1>2, FreeOne DEF Marks
<1>4. /\ <<":">> \o tail \in Seq(Token)
      /\ \A mark \in Marks \ {":", "/"} : Free(<<":">> \o tail, mark)
  BY <1>1, <1>3, FreeConcat, ConcatProperties
<1>5. /\ rest \in Seq(Token) /\ \A mark \in Marks \ {":", "/"} : Free(rest, mark)
  BY <1>1, <1>4, FreeConcat, ConcatProperties
<1>6. Before(rest, ":") = host /\ After(rest, ":") = tail
  <2>1. Free(host, ":")
    BY <1>1 DEF Marks
  <2> QED
    BY <1>1, <1>2, <2>1, TakenApart
<1> HIDE DEF rest
<1>7. Place(url, "@") # 0 /\ After(url, "@") = rest
  <2>1. Free(<<user>>, "@")
    BY <1>3 DEF Marks
  <2> QED
    BY <1>2, <1>3, <1>5, <2>1, TakenApart
<1>8. /\ <<"@">> \o rest \in Seq(Token)
      /\ \A mark \in Marks \ {":", "/", "@"} : Free(<<"@">> \o rest, mark)
  BY <1>3, <1>5, FreeConcat, ConcatProperties
<1>9. /\ url \in Seq(Token) /\ url # <<>>
      /\ \A mark \in Marks \ {":", "/", "@"} : Free(url, mark)
  <2>1. url # <<>>
    BY <1>3, <1>8, ConcatEqualIffEmpty
  <2>2. url \in Seq(Token) /\ \A mark \in Marks \ {":", "/", "@"} : Free(url, mark)
    BY <1>3, <1>8, FreeConcat, ConcatProperties
  <2> QED
    BY <2>1, <2>2
\* The colon comes before the first slash.
<1>10. Place(Before(url, "/"), ":") # 0
  <2> DEFINE a == <<user>> \o (<<"@">> \o host)
             b == <<":">> \o tail
  <2>1. url = a \o b
    <3>1. <<"@">> \o (host \o b) = (<<"@">> \o host) \o b
      BY <1>1, <1>3, <1>4, ConcatAssociative
    <3>2. <<"@">> \o host \in Seq(Token)
      BY <1>1, <1>3, ConcatProperties
    <3>3. <<user>> \o ((<<"@">> \o host) \o b) = a \o b
      BY <1>3, <1>4, <3>2, ConcatAssociative
    <3> QED
      BY <3>1, <3>3 DEF rest
  <2>2. a \in Seq(Token) /\ Free(a, "/")
    <3>1. Free(<<"@">>, "/") /\ Free(host, "/") /\ Free(<<user>>, "/")
      BY <1>1, <1>3 DEF Marks
    <3>2. <<"@">> \o host \in Seq(Token) /\ Free(<<"@">> \o host, "/")
      BY <1>1, <1>3, <3>1, FreeConcat
    <3> QED
      BY <1>3, <3>1, <3>2, FreeConcat
  <2>3. b \in Seq(Token) /\ Len(b) \in Nat \ {0} /\ b[1] = ":"
    BY <1>1, <1>2
  <2> HIDE DEF a, b
  <2>4. /\ Len(a) \in Nat /\ Len(url) = Len(a) + Len(b)
        /\ \A i \in 1 .. Len(a) : url[i] # "/"
        /\ url[Len(a) + 1] = ":"
    <3>1. /\ Len(a \o b) = Len(a) + Len(b)
          /\ \A i \in 1 .. Len(a) + Len(b) :
               (a \o b)[i] = IF i <= Len(a) THEN a[i] ELSE b[i - Len(a)]
      BY <2>2, <2>3, ConcatProperties
    <3>2. Len(a) \in Nat
      BY <2>2, LenProperties
    <3> HIDE DEF url
    <3>3. \A i \in 1 .. Len(a) : url[i] = a[i]
      BY <2>1, <2>3, <3>1, <3>2
    <3>4. url[Len(a) + 1] = b[1]
      BY <2>1, <2>3, <3>1, <3>2
    <3> QED
      BY <2>1, <2>2, <2>3, <3>1, <3>2, <3>3, <3>4 DEF Free
  <2> HIDE DEF url
  <2>5. /\ Before(url, "/") \in Seq(Token)
        /\ Len(a) + 1 \in 1 .. Len(Before(url, "/"))
        /\ Before(url, "/")[Len(a) + 1] = ":"
    <3> DEFINE p == Place(url, "/")
    <3>1. CASE p = 0
      <4>1. Before(url, "/") = url
        BY <3>1 DEF Before
      <4> QED
        BY <1>9, <2>3, <2>4, <4>1
    <3>2. CASE p # 0
      <4>1. p \in 1 .. Len(url) /\ url[p] = "/"
        BY <1>9, <3>2, PlaceIsFirst
      <4>2. Before(url, "/") = SubSeq(url, 1, p - 1)
        BY <3>2 DEF Before
      <4> HIDE DEF p
      <4>3. p > Len(a) + 1
        BY <2>3, <2>4, <4>1
      <4>4. \A i \in 1 .. p - 1 : url[i] \in Token
        <5>1. \A i \in 1 .. p - 1 : i \in 1 .. Len(url)
          BY <2>3, <2>4, <4>1
        <5> QED
          BY <1>9, <5>1, ElementOfSeq
      <4>5. /\ SubSeq(url, 1, p - 1) \in Seq(Token)
            /\ Len(SubSeq(url, 1, p - 1)) = p - 1
            /\ \A i \in 1 .. p - 1 : SubSeq(url, 1, p - 1)[i] = url[i]
        <5>1. p - 1 \in Int /\ 1 <= p - 1 /\ (p - 1) - 1 + 1 = p - 1
          BY <2>4, <4>1, <4>3
        <5>2. \A i \in 1 .. p - 1 : 1 + i - 1 = i
          OBVIOUS
        <5> DEFINE q == p - 1
        <5>3. /\ SubSeq(url, 1, q) \in Seq(Token)
              /\ Len(SubSeq(url, 1, q)) = IF 1 <= q THEN q - 1 + 1 ELSE 0
              /\ \A i \in 1 .. q - 1 + 1 : SubSeq(url, 1, q)[i] = url[1 + i - 1]
          BY <4>4, <5>1, SubSeqProperties
        <5> QED
          BY <5>1, <5>2, <5>3
      <4> QED
        BY <2>4, <4>1, <4>2, <4>3, <4>5
    <3> QED
      BY <3>1, <3>2
  <2> QED
    BY <2>5, PlaceIsFirst DEF Free
<1> HIDE DEF url
<1>11. Free(url, ".git") /\ Free(url, "://")
  BY <1>9 DEF Marks
<1>12. Last(url) # ".git" /\ Place(url, "://") = 0
  BY <1>9, <1>11, SuffixGoes, NoPlace
<1>13. Normalize(url) = Id(Before(After(url, "@"), ":"), After(After(url, "@"), ":"))
  BY <1>7, <1>10, <1>12 DEF Normalize
<1>14. Normalize(url) = Id(host, tail)
  BY <1>6, <1>7, <1>13
<1> QED
  BY <1>9, <1>11, <1>14 DEF url, rest, host

(***************************************************************************)
(* A URL with a scheme: neither its user nor its port is part of the id.    *)
(***************************************************************************)
LEMMA UrlRead ==
  ASSUME NEW repo \in Repositories, NEW user \in Users, NEW port \in Ports,
         NEW tail, PathWritten(tail, repo.path)
  PROVE  LET url == <<"ssh">> \o (<<"://">> \o
                      (user \o ((repo.host \o port) \o (<<"/">> \o tail))))
         IN /\ url \in Seq(Token) /\ url # <<>> /\ Free(url, ".git")
            /\ Normalize(url) = Id(repo.host, tail)
<1> DEFINE path == <<"/">> \o tail
           auth == repo.host \o port
           bare == auth \o path
           rest == user \o bare
           url == <<"ssh">> \o (<<"://">> \o rest)
<1>1. /\ auth \in Seq(Token) /\ \A mark \in Marks \ {":"} : Free(auth, mark)
      /\ Before(auth, ":") = repo.host
      /\ Before(bare, "/") = auth /\ After(bare, "/") = tail
  BY RepositoryParts, AuthorityRead, SMTT(60) DEF PathWritten
<1>2. /\ bare \in Seq(Token) /\ bare # <<>> /\ Free(bare, ".git")
  BY BareRead
<1>3. /\ path \in Seq(Token)
  <2>1. <<"/">> \in Seq(Token)
    BY TokenParts, FreeOne DEF Marks
  <2> QED
    BY <2>1, ConcatProperties DEF PathWritten
<1>4. "/" \in Token /\ "@" \in Token /\ "://" \in Token /\ "ssh" \in Token
  BY TokenParts DEF Marks
<1>5. /\ user \in Seq(Token) /\ Free(user, ".git")
      /\ (IF Place(Before(rest, "/"), "@") # 0 THEN After(rest, "@") ELSE rest) = bare
  <2>0. Free(auth, "@") /\ Free(auth, "/")
    BY <1>1 DEF Marks
  <2>1. CASE user = <<>>
    <3>1. rest = bare
      BY <1>2, <2>1, ConcatEmptySeq
    <3> HIDE DEF rest
    <3>2. Place(Before(rest, "/"), "@") = 0
      BY <1>1, <2>0, <3>1, NoPlace
    <3> QED
      BY <2>1, <3>1, <3>2, FreeNone
  <2>2. ASSUME NEW name \in Name, user = <<name, "@">>
        PROVE  /\ user \in Seq(Token) /\ Free(user, ".git")
               /\ (IF Place(Before(rest, "/"), "@") # 0 THEN After(rest, "@") ELSE rest) = bare
    <3> HIDE DEF auth, path
    <3>1. name \in Token /\ name # "@" /\ name # "/" /\ name # ".git"
      BY TokenParts DEF Marks
    <3>2. <<name>> \in Seq(Token) /\ <<"@">> \in Seq(Token) /\ Free(<<name>>, "@")
      BY <1>4, <3>1, FreeOne
    <3>3. user = <<name>> \o <<"@">>
      BY <2>2
    <3>4. user \in Seq(Token) /\ Free(user, ".git") /\ Free(user, "/")
      BY <1>4, <2>2, <3>1 DEF Free
    <3>5. rest = <<name>> \o (<<"@">> \o bare)
      BY <1>2, <3>2, <3>3, ConcatAssociative, SMTT(60)
    <3>6. rest = (user \o auth) \o path
      BY <1>1, <1>3, <3>4, ConcatAssociative, SMTT(60)
    <3>7. user \o auth = <<name>> \o (<<"@">> \o auth)
      BY <1>1, <3>2, <3>3, ConcatAssociative
    <3>8. After(rest, "@") = bare
      <4> HIDE DEF bare, rest
      <4>1. After(<<name>> \o (<<"@">> \o bare), "@") = bare
        BY <1>2, <1>4, <3>2, TakenApart
      <4> QED
        BY <3>5, <4>1
    <3>9. user \o auth \in Seq(Token) /\ Free(user \o auth, "/")
      BY <1>1, <2>0, <3>4, FreeConcat
    <3>10. Before(rest, "/") = user \o auth
      <4>1. tail \in Seq(Token)
        BY DEF PathWritten
      <4>2. Before((user \o auth) \o (<<"/">> \o tail), "/") = user \o auth
        BY <1>4, <3>9, <4>1, TakenApart
      <4> QED
        BY <3>6, <4>2 DEF path
    <3>11. Place(user \o auth, "@") # 0
      <4>0. auth \in Seq(Token)
        BY <1>1
      <4>1. Place(<<name>> \o (<<"@">> \o auth), "@") # 0
        BY <1>4, <3>2, <4>0, TakenApart
      <4> QED
        BY <3>7, <4>1
    <3> QED
      BY <3>4, <3>8, <3>10, <3>11
  <2> QED
    BY <2>1, <2>2 DEF Users
<1> HIDE DEF bare
<1>6. rest \in Seq(Token) /\ Free(rest, ".git")
  BY <1>2, <1>5, FreeConcat
<1> HIDE DEF rest
<1>7. Place(url, "://") # 0 /\ After(url, "://") = rest
  <2>1. <<"ssh">> \in Seq(Token) /\ Free(<<"ssh">>, "://")
    BY <1>4, FreeOne
  <2> QED
    BY <1>4, <1>6, <2>1, TakenApart
<1>8. url \in Seq(Token) /\ url # <<>> /\ Free(url, ".git")
  <2>1. /\ <<"ssh">> \in Seq(Token) /\ Free(<<"ssh">>, ".git")
        /\ <<"://">> \in Seq(Token) /\ Free(<<"://">>, ".git")
    BY <1>4, FreeOne
  <2>2. <<"://">> \o rest \in Seq(Token) /\ Free(<<"://">> \o rest, ".git")
    BY <1>6, <2>1, FreeConcat
  <2>3. url \in Seq(Token) /\ Free(url, ".git")
    BY <2>1, <2>2, FreeConcat
  <2>4. url # <<>>
    BY <2>1, <2>2, ConcatEqualIffEmpty
  <2> QED
    BY <2>3, <2>4
<1> HIDE DEF url
<1>9. Last(url) # ".git"
  BY <1>8, SuffixGoes
<1> HIDE DEF auth
<1>10. Normalize(url) = Id(Before(Before(bare, "/"), ":"), After(bare, "/"))
  BY <1>5, <1>7, <1>9 DEF Normalize
<1>11. Normalize(url) = Id(repo.host, tail)
  BY <1>1, <1>10
<1> QED
  BY <1>8, <1>11 DEF url, rest, bare, auth, path

(***************************************************************************)
(* The spellings of a repository are these forms with each of the ends, and *)
(* have one id.                                                             *)
(***************************************************************************)
IdOf(repo) == Lower(repo.host) \o <<"/">> \o repo.path

(***************************************************************************)
(* What holds for a spelling as it is and with a slash behind it holds with *)
(* .git behind it.                                                          *)
(***************************************************************************)
LEMMA EndsRead ==
  ASSUME NEW repo, NEW stem \in Seq(Token), NEW end \in Ends,
         \A e \in {<<>>, <<"/">>} :
           /\ stem \o e \in Seq(Token) /\ stem \o e # <<>> /\ Free(stem \o e, ".git")
           /\ Normalize(stem \o e) = IdOf(repo)
  PROVE  Normalize(stem \o end) = IdOf(repo)
<1>1. CASE end \in {<<>>, <<"/">>}
  BY <1>1
<1>2. CASE end = <<".git">>
  <2>1. stem \o <<>> = stem
    BY ConcatEmptySeq
  <2>2. stem # <<>> /\ Free(stem, ".git") /\ Normalize(stem) = IdOf(repo)
    BY <2>1
  <2>3. Normalize(stem \o <<".git">>) = Normalize(stem)
    BY <2>2, SuffixGoes
  <2> QED
    BY <1>2, <2>2, <2>3
<1> QED
  BY <1>1, <1>2 DEF Ends

\* The parts of a URL may be grouped in any way.  Joined has a name of its own so
\* that only this is known of it.
Joined(a, b) == a \o b

LEMMA JoinedThree ==
  \A a, b, c \in Seq(Token) :
    /\ Joined(a, b) \in Seq(Token)
    /\ Joined(Joined(a, b), c) = Joined(a, Joined(b, c))
<1> SUFFICES ASSUME NEW a \in Seq(Token), NEW b \in Seq(Token), NEW c \in Seq(Token)
             PROVE  /\ Joined(a, b) \in Seq(Token)
                    /\ Joined(Joined(a, b), c) = Joined(a, Joined(b, c))
  OBVIOUS
<1>1. a \o b \in Seq(Token)
  BY ConcatProperties
<1>2. (a \o b) \o c = a \o (b \o c)
  BY ConcatAssociative
<1>3. Joined(a, b) \in Seq(Token)
  BY <1>1 DEF Joined
<1>4. Joined(Joined(a, b), c) = Joined(a, Joined(b, c))
  BY <1>2 DEF Joined
<1> QED
  BY <1>3, <1>4

LEMMA JoinedFour ==
  ASSUME NEW a \in Seq(Token), NEW b \in Seq(Token),
         NEW c \in Seq(Token), NEW d \in Seq(Token)
  PROVE  Joined(Joined(Joined(a, b), c), d) = Joined(a, Joined(b, Joined(c, d)))
<1>1. Joined(a, b) \in Seq(Token) /\ Joined(c, d) \in Seq(Token)
  BY JoinedThree
<1>2. Joined(Joined(Joined(a, b), c), d) = Joined(Joined(a, b), Joined(c, d))
  BY <1>1, JoinedThree
<1>3. Joined(Joined(a, b), Joined(c, d)) = Joined(a, Joined(b, Joined(c, d)))
  BY <1>1, JoinedThree
<1> QED
  BY <1>2, <1>3

\* Every spelling of a repository is one of the three forms.
LEMMA OneId ==
  ASSUME NEW repo \in Repositories, NEW url \in Spellings(repo)
  PROVE  Normalize(url) = IdOf(repo)
<1> DEFINE host == repo.host
           path == repo.path
           sl == <<"/">>
<1>1. /\ host \in Seq(Token) /\ path \in Seq(Token) /\ sl \in Seq(Token)
      /\ <<"ssh">> \in Seq(Token) /\ <<"://">> \in Seq(Token)
      /\ <<"@">> \in Seq(Token) /\ <<":">> \in Seq(Token) /\ <<>> \in Seq(Token)
      /\ \A name \in Name : <<name>> \in Seq(Token)
  BY RepositoryParts, TokenParts, FreeOne, FreeNone DEF Marks
<1>2. \A tail : PathWritten(tail, path) => Id(host, tail) = IdOf(repo)
  BY DEF PathWritten, Id, IdOf
<1>3. \A slash, end \in {<<>>, <<"/">>} : PathWritten(slash \o (path \o end), path)
  BY PathsWritten
<1>4. \A end \in {<<>>, <<"/">>} : PathWritten(path \o end, path)
  <2>1. \A end \in {<<>>, <<"/">>} : path \o end \in Seq(Token)
    BY <1>1, ConcatProperties
  <2>2. \A end \in {<<>>, <<"/">>} : <<>> \o (path \o end) = path \o end
    BY <2>1, ConcatEmptySeq
  <2> QED
    BY <1>3, <2>2
<1>5. \A port \in Ports : port \in Seq(Token)
  <2>1. \A name \in Name : <<":", name>> \in Seq(Token)
    BY TokenParts DEF Marks
  <2> QED
    BY <1>1, <2>1 DEF Ports
<1>6. \A user \in Users : user \in Seq(Token)
  <2>1. \A name \in Name : <<name, "@">> \in Seq(Token)
    BY TokenParts DEF Marks
  <2> QED
    BY <1>1, <2>1 DEF Users
<1>7. \A a, b \in Seq(Token) : a \o b \in Seq(Token)
  BY ConcatProperties
<1>8. \A a, b, c \in Seq(Token) : (a \o b) \o c = a \o (b \o c)
  BY JoinedThree DEF Joined
<1> HIDE DEF host, path, sl
<1>9. ASSUME NEW user \in Users, NEW port \in Ports, NEW end \in Ends,
             url = <<"ssh", "://">> \o user \o host \o port \o sl \o path \o end
      PROVE  Normalize(url) = IdOf(repo)
  <2> DEFINE S == <<"ssh", "://">>
             front == S \o user \o host \o port
             stem == front \o sl \o path
  <2>1. S \in Seq(Token) /\ S = <<"ssh">> \o <<"://">>
    BY <1>1
  <2> HIDE DEF S
  <2>2. /\ S \o user \in Seq(Token) /\ host \o port \in Seq(Token)
        /\ front \in Seq(Token) /\ stem \in Seq(Token)
    BY <1>1, <1>5, <1>6, <1>7, <2>1
  <2>3. front = (S \o user) \o (host \o port)
    <3> DEFINE Su == S \o user
    <3>1. Su \in Seq(Token)
      BY <2>2
    <3> HIDE DEF Su
    <3>2. (Su \o host) \o port = Su \o (host \o port)
      BY <1>1, <1>5, <1>8, <3>1, SMTT(60)
    <3> QED
      BY <3>2 DEF Su
  <2>4. ASSUME NEW e \in {<<>>, <<"/">>}
        PROVE  stem \o e = <<"ssh">> \o (<<"://">> \o
                             (user \o ((host \o port) \o (sl \o (path \o e)))))
    <3> DEFINE tail == sl \o (path \o e)
               bare == (host \o port) \o tail
    <3>1. e \in Seq(Token)
      BY <1>1 DEF sl
    <3>2. tail \in Seq(Token) /\ bare \in Seq(Token)
      BY <1>1, <1>7, <2>2, <3>1
    <3> HIDE DEF front
    <3>3. stem \o e = front \o tail
      <4>1. front \in Seq(Token) /\ path \in Seq(Token) /\ sl \in Seq(Token)
        BY <1>1, <2>2
      <4>2. Joined(Joined(Joined(front, sl), path), e)
              = Joined(front, Joined(sl, Joined(path, e)))
        BY <3>1, <4>1, JoinedFour
      <4> QED
        BY <4>2 DEF Joined
    <3> HIDE DEF tail, stem
    <3>4. front \o tail = (S \o user) \o bare
      <4> DEFINE a == S \o user
                 b == host \o port
      <4>1. a \in Seq(Token) /\ b \in Seq(Token) /\ front = a \o b
        BY <2>2, <2>3
      <4> HIDE DEF a, b
      <4>2. Joined(Joined(a, b), tail) = Joined(a, Joined(b, tail))
        BY <3>2, <4>1, JoinedThree
      <4>3. (a \o b) \o tail = a \o (b \o tail)
        BY <4>2 DEF Joined
      <4> QED
        BY <4>1, <4>3 DEF a, b
    <3> HIDE DEF bare
    <3>5. (S \o user) \o bare = S \o (user \o bare)
      BY <1>6, <1>8, <2>1, <3>2
    <3>6. S \o (user \o bare) = <<"ssh">> \o (<<"://">> \o (user \o bare))
      <4> DEFINE ssh == <<"ssh">>
                 sep == <<"://">>
                 after == user \o bare
      <4>1. ssh \in Seq(Token) /\ sep \in Seq(Token) /\ after \in Seq(Token)
        BY <1>1, <1>6, <1>7, <3>2
      <4>2. S = ssh \o sep
        BY <2>1
      <4> HIDE DEF ssh, sep, after
      <4>3. Joined(Joined(ssh, sep), after) = Joined(ssh, Joined(sep, after))
        BY <4>1, JoinedThree
      <4>4. (ssh \o sep) \o after = ssh \o (sep \o after)
        BY <4>3 DEF Joined
      <4> QED
        BY <4>2, <4>4 DEF ssh, sep, after
    <3> QED
      BY <3>3, <3>4, <3>5, <3>6 DEF bare, tail
  <2> HIDE DEF front, stem
  <2>5. ASSUME NEW e \in {<<>>, <<"/">>}
        PROVE  /\ stem \o e \in Seq(Token) /\ stem \o e # <<>> /\ Free(stem \o e, ".git")
               /\ Normalize(stem \o e) = IdOf(repo)
    <3> DEFINE u == <<"ssh">> \o (<<"://">> \o
                      (user \o ((repo.host \o port) \o (<<"/">> \o (path \o e)))))
    <3>1. PathWritten(path \o e, repo.path)
      BY <1>4 DEF path
    <3>2. /\ u \in Seq(Token) /\ u # <<>> /\ Free(u, ".git")
          /\ Normalize(u) = Id(repo.host, path \o e)
      BY <3>1, UrlRead
    <3>3. stem \o e = u
      BY <2>4 DEF host, sl
    <3>4. Id(repo.host, path \o e) = IdOf(repo)
      BY <1>2, <1>4 DEF host
    <3> QED
      BY <3>2, <3>3, <3>4
  <2>6. Normalize(stem \o end) = IdOf(repo)
    BY <2>2, <2>5, EndsRead
  <2> QED
    BY <1>9, <2>6 DEF stem, front, S
<1>10. ASSUME NEW user \in Name, NEW slash \in {<<>>, <<"/">>}, NEW end \in Ends,
              url = <<user, "@">> \o host \o <<":">> \o slash \o path \o end
       PROVE  Normalize(url) = IdOf(repo)
  <2> DEFINE U == <<user, "@">>
             colon == <<":">>
             front == U \o host \o colon
             stem == front \o slash \o path
  <2>1. U \in Seq(Token) /\ U = <<user>> \o <<"@">> /\ colon \in Seq(Token)
    BY <1>1, TokenParts DEF Marks
  <2> HIDE DEF U, colon
  <2>2. U \o host \in Seq(Token) /\ front \in Seq(Token) /\ slash \in Seq(Token)
        /\ stem \in Seq(Token)
    <3>1. slash \in Seq(Token)
      BY <1>1 DEF sl
    <3>2. U \o host \in Seq(Token)
      BY <1>1, <1>7, <2>1
    <3>3. front \in Seq(Token)
      BY <1>7, <2>1, <3>2
    <3> QED
      BY <1>1, <1>7, <3>1, <3>2, <3>3
  <2>3. ASSUME NEW e \in {<<>>, <<"/">>}
        PROVE  stem \o e = <<user>> \o (<<"@">> \o
                             (host \o (<<":">> \o (slash \o (path \o e)))))
    <3> DEFINE tail == slash \o (path \o e)
               rest == colon \o tail
    <3>1. e \in Seq(Token)
      BY <1>1 DEF sl
    <3>2. tail \in Seq(Token) /\ rest \in Seq(Token)
      BY <1>1, <1>7, <2>1, <2>2, <3>1
    <3>3. stem \o e = front \o tail
      <4> HIDE DEF front
      <4>1. front \in Seq(Token) /\ path \in Seq(Token) /\ slash \in Seq(Token)
        BY <1>1, <2>2
      <4>2. Joined(Joined(Joined(front, slash), path), e)
              = Joined(front, Joined(slash, Joined(path, e)))
        BY <3>1, <4>1, JoinedFour
      <4> QED
        BY <4>2 DEF Joined
    <3> HIDE DEF tail, stem
    <3>4. front \o tail = (U \o host) \o rest
      <4> DEFINE a == U \o host
      <4>1. a \in Seq(Token) /\ front = a \o colon
        BY <2>2 DEF front
      <4> HIDE DEF a, front, rest
      <4>2. Joined(Joined(a, colon), tail) = Joined(a, Joined(colon, tail))
        BY <2>1, <3>2, <4>1, JoinedThree
      <4>3. (a \o colon) \o tail = a \o (colon \o tail)
        BY <4>2 DEF Joined
      <4> QED
        BY <4>1, <4>3 DEF a, rest
    <3> HIDE DEF rest, front
    <3>5. (U \o host) \o rest = U \o (host \o rest)
      BY <1>1, <1>8, <2>1, <3>2, SMTT(60)
    <3>6. host \o rest \in Seq(Token)
      BY <1>1, <1>7, <3>2
    <3>7. U \o (host \o rest) = <<user>> \o (<<"@">> \o (host \o rest))
      BY <1>1, <1>8, <2>1, <3>6, SMTT(60)
    <3> QED
      BY <3>3, <3>4, <3>5, <3>7 DEF rest, tail, colon
  <2> HIDE DEF front, stem
  <2>4. ASSUME NEW e \in {<<>>, <<"/">>}
        PROVE  /\ stem \o e \in Seq(Token) /\ stem \o e # <<>> /\ Free(stem \o e, ".git")
               /\ Normalize(stem \o e) = IdOf(repo)
    <3> DEFINE tail == slash \o (path \o e)
               u == <<user>> \o (<<"@">> \o (repo.host \o (<<":">> \o tail)))
    <3>1. PathWritten(tail, repo.path)
      BY <1>3 DEF path
    <3> HIDE DEF tail
    <3>2. /\ u \in Seq(Token) /\ u # <<>> /\ Free(u, ".git")
          /\ Normalize(u) = Id(repo.host, tail)
      BY <3>1, ShortRead
    <3>3. stem \o e = u
      BY <2>3 DEF host, tail
    <3>4. Id(repo.host, tail) = IdOf(repo)
      BY <1>2, <3>1 DEF host, path
    <3> QED
      BY <3>2, <3>3, <3>4
  <2>5. Normalize(stem \o end) = IdOf(repo)
    BY <2>2, <2>4, EndsRead
  <2> QED
    BY <1>10, <2>5 DEF stem, front, U, colon
<1>11. ASSUME NEW port \in Ports, NEW end \in Ends,
              url = host \o port \o sl \o path \o end
       PROVE  Normalize(url) = IdOf(repo)
  <2> DEFINE front == host \o port
             stem == front \o sl \o path
  <2>1. front \in Seq(Token) /\ stem \in Seq(Token)
    BY <1>1, <1>5, <1>7
  <2>2. ASSUME NEW e \in {<<>>, <<"/">>}
        PROVE  stem \o e = front \o (sl \o (path \o e))
    <3>1. e \in Seq(Token)
      BY <1>1 DEF sl
    <3> HIDE DEF front
    <3>2. front \in Seq(Token) /\ path \in Seq(Token) /\ sl \in Seq(Token)
      BY <1>1, <2>1
    <3>3. Joined(Joined(Joined(front, sl), path), e)
            = Joined(front, Joined(sl, Joined(path, e)))
      BY <3>1, <3>2, JoinedFour
    <3> QED
      BY <3>3 DEF Joined
  <2> HIDE DEF stem
  <2>3. ASSUME NEW e \in {<<>>, <<"/">>}
        PROVE  /\ stem \o e \in Seq(Token) /\ stem \o e # <<>> /\ Free(stem \o e, ".git")
               /\ Normalize(stem \o e) = IdOf(repo)
    <3> DEFINE u == (repo.host \o port) \o (<<"/">> \o (path \o e))
    <3>1. PathWritten(path \o e, repo.path)
      BY <1>4 DEF path
    <3>2. /\ u \in Seq(Token) /\ u # <<>> /\ Free(u, ".git")
          /\ Normalize(u) = Id(repo.host, path \o e)
      BY <3>1, BareRead
    <3>3. stem \o e = u
      BY <2>2 DEF host, sl
    <3>4. Id(repo.host, path \o e) = IdOf(repo)
      BY <1>2, <1>4 DEF host
    <3> QED
      BY <3>2, <3>3, <3>4
  <2>4. Normalize(stem \o end) = IdOf(repo)
    BY <2>1, <2>3, EndsRead
  <2> QED
    BY <1>11, <2>4 DEF stem, front
<1>12. CASE url \in Urls(repo)
  <2> DEFINE Form(user, port, end) == <<"ssh", "://">> \o user \o host \o port \o sl \o path \o end
  <2>1. Urls(repo) = {Form(user, port, end) : user \in Users, port \in Ports, end \in Ends}
    BY DEF Urls, host, path, sl
  <2> HIDE DEF Form
  <2>2. PICK user \in Users, port \in Ports, end \in Ends : url = Form(user, port, end)
    BY <1>12, <2>1
  <2> QED
    BY <1>9, <2>2 DEF Form
<1>13. CASE url \in Shorts(repo)
  <2> DEFINE Form(user, slash, end) == <<user, "@">> \o host \o <<":">> \o slash \o path \o end
  <2>1. Shorts(repo) = {Form(user, slash, end) : user \in Name, slash \in {<<>>, <<"/">>}, end \in Ends}
    BY DEF Shorts, host, path, sl
  <2> HIDE DEF Form
  <2>2. PICK user \in Name, slash \in {<<>>, <<"/">>}, end \in Ends : url = Form(user, slash, end)
    BY <1>13, <2>1
  <2> QED
    BY <1>10, <2>2 DEF Form
<1>14. CASE url \in Bares(repo)
  <2> DEFINE Form(port, end) == host \o port \o sl \o path \o end
  <2>1. Bares(repo) = {Form(port, end) : port \in Ports, end \in Ends}
    BY DEF Bares, host, path, sl
  <2> HIDE DEF Form
  <2>2. PICK port \in Ports, end \in Ends : url = Form(port, end)
    BY <1>14, <2>1
  <2> QED
    BY <1>11, <2>2 DEF Form
<1> QED
  BY <1>12, <1>13, <1>14 DEF Spellings

(***************************************************************************)
(* Different repositories have different ids: the first slash of an id ends *)
(* its host.                                                                *)
(***************************************************************************)
LEMMA IdsApart ==
  ASSUME NEW r \in Repositories, NEW q \in Repositories
  PROVE  IdOf(r) = IdOf(q) <=> SameRepository(r, q)
<1>1. \A repo \in Repositories :
        /\ Before(IdOf(repo), "/") = Lower(repo.host)
        /\ After(IdOf(repo), "/") = repo.path
  <2> SUFFICES ASSUME NEW repo \in Repositories
               PROVE  /\ Before(IdOf(repo), "/") = Lower(repo.host)
                      /\ After(IdOf(repo), "/") = repo.path
    OBVIOUS
  <2> DEFINE low == Lower(repo.host)
             path == repo.path
  <2>1. repo.host \in Seq(Name) /\ path \in Seq(Token)
    BY ProjectIdAssumption, RepositoryParts
  <2>2. /\ DOMAIN repo.host = 1 .. Len(repo.host) /\ Len(repo.host) \in Nat
        /\ \A i \in 1 .. Len(repo.host) : repo.host[i] \in Name
    BY <2>1, LenProperties, ElementOfSeq
  <2>3. low \in [1 .. Len(repo.host) -> Name]
    BY <2>2, ProjectIdAssumption DEF Lower
  <2>4. low \in Seq(Name)
    BY <2>2, <2>3, SeqDef
  <2> HIDE DEF low
  <2>5. low \in Seq(Token) /\ \A i \in 1 .. Len(low) : low[i] \in Name
    BY <2>4, TokenParts, SeqMonotonic, ElementOfSeq
  <2>6. Free(low, "/") /\ "/" \in Token /\ <<"/">> \in Seq(Token)
    BY <2>5, TokenParts DEF Free, Marks
  <2>7. (low \o <<"/">>) \o path = low \o (<<"/">> \o path)
    <3> HIDE DEF path
    <3> DEFINE sl == <<"/">>
    <3>1. sl \in Seq(Token) /\ low \in Seq(Token) /\ path \in Seq(Token)
      BY <2>1, <2>5, <2>6
    <3> HIDE DEF sl
    <3>2. (low \o sl) \o path = low \o (sl \o path)
      BY <3>1, ConcatAssociative
    <3> QED
      BY <3>2 DEF sl
  <2>8. /\ Before(low \o (<<"/">> \o path), "/") = low
        /\ After(low \o (<<"/">> \o path), "/") = path
    BY <2>1, <2>5, <2>6, TakenApart
  <2>9. IdOf(repo) = low \o (<<"/">> \o path)
    BY <2>7 DEF IdOf, low
  <2> QED
    BY <2>8, <2>9 DEF low
<1> QED
  BY <1>1 DEF SameRepository, IdOf

(***************************************************************************)
(* For the Spellings of the origins of two checkouts (not for those of      *)
(* Misread), their project ids are equal exactly when they are checkouts of *)
(* one repository: for every set of hosts and paths, every user and port,   *)
(* and every mapping to lower case.                                         *)
(***************************************************************************)
LEMMA EachHasOneId == OneIdEach
<1>1. \A repo \in Repositories : \A i \in Ids(repo) : i = IdOf(repo)
  BY OneId DEF Ids
<1> QED
  BY <1>1, IdsApart DEF OneIdEach

----------------------------------------------------------------------------
(* Messages find the sessions in their repository *)

LEMMA CheckoutIds ==
  ASSUME live \subseteq Entries, NEW e \in live, NEW n \in Notes,
         e \in InProjects => e \in ReadAlike, n \in ReadAlike
  PROVE  e.project = n.project <=> SharesRepository(e, n)
<1>1. n.project # NoProject
  BY FerryAssumption
<1>2. CASE e.project = NoProject
  BY <1>1, <1>2 DEF SharesRepository
<1>3. CASE e.project # NoProject
  <2>1. /\ CheckoutOf[e].repo \in Repositories /\ CheckoutOf[n].repo \in Repositories
        /\ e.project \in Ids(CheckoutOf[e].repo) /\ n.project \in Ids(CheckoutOf[n].repo)
    BY <1>3, CheckoutAssumption DEF Ids, InProjects, ReadAlike, WithOrigin
  <2>2. e.project = n.project <=>
          SameRepository(CheckoutOf[e].repo, CheckoutOf[n].repo)
    BY <2>1, EachHasOneId DEF OneIdEach
  <2> QED
    BY <1>3, <2>2 DEF SharesRepository
<1> QED
  BY <1>2, <1>3

(***************************************************************************)
(* The ids that two ferries make of origins written with a scheme, as       *)
(* user@host:path or as host/path, ending in the path, ".git" or one slash, *)
(* are equal exactly when the checkouts are of one repository: for every    *)
(* set of hosts and paths, every user and port, and every registry, in      *)
(* which other sessions may have origins of Misread (projectid.py).         *)
(***************************************************************************)
THEOREM SpellingsAlwaysAgree == Spec => []SpellingsAgree
<1>1. TypeInv => SpellingsAgree
  BY CheckoutIds, EachHasOneId DEF TypeInv, LiveInv, SpellingsAgree, InProjects
<1>2. TypeInv /\ [Next]_vars => TypeInv'
  BY NextTypeInv
<1> QED
  BY <1>1, <1>2, InitTypeInv, PTL DEF Spec

(***************************************************************************)
(* What the ranking gives for a note: sessions in the note's repository,    *)
(* and nothing only if none is there.                                       *)
(***************************************************************************)
LEMMA RankedThere ==
  ASSUME TypeInv, NEW n \in Notes, NEW targets \in Candidates(Note(n)),
         InProjects \cup {n} \subseteq ReadAlike
  PROVE  LET there == {e \in live : e.ok /\ SharesRepository(e, n)}
         IN /\ targets = <<>> <=> there = {}
            /\ Range(targets) \subseteq there
<1> DEFINE there == {e \in live : e.ok /\ SharesRepository(e, n)}
<1>1. live \subseteq Entries /\ IsFiniteSet(live)
  BY DEF TypeInv, LiveInv
<1>2. {e \in live : e.project = n.project /\ e.ok} = there
  BY <1>1, CheckoutIds
<1>3. IsFiniteSet(there) /\ Cardinality(there) \in Nat
  BY <1>1, FS_Subset, FS_CardinalityType
<1>4. ReplyPin(Note(n)) = NoMid /\ Note(n).project = n.project
  BY DEF ReplyPin, Note
<1>5. PICK order \in SetToSeqs(there) : targets = Cut(order)
  BY <1>2, <1>4 DEF Candidates, Rankings
<1> HIDE DEF there
<1>6. order \in [1 .. Cardinality(there) -> there] /\ order \in Seq(there)
  BY <1>3, <1>5, ListedInSet DEF SetToSeqs
<1>7. Len(order) = Cardinality(there)
  BY <1>3, <1>6, LenProperties
<1>8. Cardinality(there) = 0 <=> there = {}
  BY <1>3, FS_EmptySet
<1> DEFINE k == IF Len(order) < Attempts THEN Len(order) ELSE Attempts
<1>9. k \in Nat /\ k <= Len(order) /\ (k = 0 <=> Len(order) = 0)
  BY <1>3, <1>7, Constants
<1>10. targets = SubSeq(order, 1, k)
  BY <1>5 DEF Cut
<1> HIDE DEF k
<1>11. targets \in Seq(there) /\ Len(targets) = k
  <2>1. \A i \in 1 .. k : order[i] \in there
    BY <1>6, <1>7, <1>9
  <2> QED
    BY <1>9, <1>10, <2>1, SubSeqProperties
<1>12. targets = <<>> <=> there = {}
  BY <1>7, <1>8, <1>9, <1>11, EmptySeq
<1>13. Range(targets) \subseteq there
  BY <1>11, RangeOfSeq
<1> QED
  BY <1>12, <1>13 DEF there

(***************************************************************************)
(* While the note's origin and those of all sessions are among Spellings, a *)
(* note is offered to sessions in its repository and to no other, and it is *)
(* held only when none is there, for every set of repositories and for a    *)
(* registry that changes at any time (app.py: _candidates, on_deliver).     *)
(***************************************************************************)
THEOREM NotesStayInTheirRepository == Spec => RoutesByRepository
<1>1. ASSUME TypeInv, NEW n \in Notes, Deliver(Note(n)),
             InProjects \cup {n} \subseteq ReadAlike
      PROVE  LET there == {e \in live : e.ok /\ SharesRepository(e, n)}
             IN IF there = {} THEN reader' = reader
                ELSE /\ reader'.pc = "injecting" /\ reader'.env = Note(n)
                     /\ reader'.targets # <<>>
                     /\ Range(reader'.targets) \subseteq there
  <2>1. PICK targets \in Candidates(Note(n)) :
          IF targets = <<>> THEN UNCHANGED <<reader, pending>>
          ELSE Offer(Note(n), targets, ReplyPin(Note(n)), pending)
    BY <1>1 DEF Deliver
  <2> QED
    BY <1>1, <2>1, RankedThere DEF Offer
<1>2. TypeInv /\ [Next]_vars => TypeInv'
  BY NextTypeInv
<1>3. TypeInv /\ [Next]_vars =>
        [\A n \in Notes :
           Deliver(Note(n)) /\ InProjects \cup {n} \subseteq ReadAlike =>
           LET there == {e \in live : e.ok /\ SharesRepository(e, n)}
           IN IF there = {} THEN reader' = reader
              ELSE /\ reader'.pc = "injecting" /\ reader'.env = Note(n)
                   /\ reader'.targets # <<>>
                   /\ Range(reader'.targets) \subseteq there]_vars
  BY <1>1
<1> QED
  BY <1>2, <1>3, InitTypeInv, PTL DEF Spec, RoutesByRepository
=============================================================================
