-------------------------- MODULE HubServerProofs --------------------------
(***************************************************************************)
(* Proofs about the hub's server for every set of hosts, projects and       *)
(* envelopes and any number of connections.                                 *)
(*                                                                          *)
(* UpIsRegistered and NoGap are each inductive together with TypeOK: NoGap  *)
(* needs that msg_id is a key (an eviction must not take the                *)
(* acknowledgements of a row it keeps) and that a registered connection is  *)
(* one of its host.  HeldIsKept needs what a handler knows of the message   *)
(* it is still pushing when others act in between (HeldInv).  The server    *)
(* implements its mailbox (KeepsMailbox) step by step: MailboxSteps.        *)
(***************************************************************************)
EXTENDS HubServer, FiniteSetTheorems, TLAPS

\* A set of rows in which msg_id is a key.
Keyed(rows) == \A m, n \in rows : m.msg_id = n.msg_id => m = n

----------------------------------------------------------------------------
(* The mailbox under the server *)

(***************************************************************************)
(* The instance of Mailbox has its own IsFiniteSet; it is the library's.    *)
(***************************************************************************)
LEMMA SameFinite == \A S : MB!IsFiniteSet(S) <=> IsFiniteSet(S)
BY DEF IsFiniteSet, MB!IsFiniteSet

(***************************************************************************)
(* Whatever put, ack and the sweeper do, the tables keep their types and    *)
(* msg_id stays a key.                                                      *)
(***************************************************************************)
LEMMA DeleteKeepsTables ==
  ASSUME NEW rows, NEW victims, rows \subseteq Envelopes, IsFiniteSet(rows),
         Keyed(rows), acks \subseteq MB!Ids(Envelopes) \X Host, now' \in Clock,
         MB!Delete(rows, victims)
  PROVE  MB!TypeOK'
<1>1. IsFiniteSet(rows \ victims)
  BY FS_Subset
<1>2. QED
  BY <1>1, SameFinite DEF MB!Delete, MB!TypeOK, Keyed

LEMMA MailboxStepTyped ==
  ASSUME MB!TypeOK,
         \/ \E env \in Envelopes : MB!Put(env)
         \/ \E mid \in MB!Ids(Envelopes), h \in Host : MB!Ack(mid, h)
         \/ MB!SweepExpired
         \/ MB!Tick
         \/ UNCHANGED mailbox
  PROVE  MB!TypeOK'
<1>1. ASSUME NEW env \in Envelopes, MB!Put(env)
      PROVE  MB!TypeOK'
  <2>1. IsFiniteSet(messages \cup {env})
    BY FS_AddElement, SameFinite DEF MB!TypeOK
  <2>2. /\ MB!Inserted(env) \subseteq Envelopes
        /\ IsFiniteSet(MB!Inserted(env))
        /\ Keyed(MB!Inserted(env))
    BY <2>1, SameFinite DEF MB!Inserted, MB!TypeOK, MB!Ids, Keyed
  <2>3. QED
    BY <1>1, <2>2, DeleteKeepsTables DEF MB!Put, MB!TypeOK
<1>2. ASSUME NEW mid \in MB!Ids(Envelopes), NEW h \in Host, MB!Ack(mid, h)
      PROVE  MB!TypeOK'
  BY <1>2 DEF MB!Ack, MB!TypeOK
<1>3. CASE MB!SweepExpired
  BY <1>3, DeleteKeepsTables, SameFinite DEF MB!SweepExpired, MB!TypeOK, Keyed
<1>4. CASE MB!Tick
  BY <1>4 DEF MB!Tick, MB!TypeOK
<1>5. CASE UNCHANGED mailbox
  BY <1>5 DEF mailbox, MB!TypeOK
<1>6. QED
  BY <1>1, <1>2, <1>3, <1>4, <1>5

----------------------------------------------------------------------------
(* Connections *)

\* While a handler pushes, it has the envelope it was posted.
Sound(c) == c.pc = "pushing" => c.env \in Envelopes

\* What TypeOK says beside the mailbox, and that every connection is sound.
ConnOK ==
  /\ conn \in Seq(Connection) /\ Len(conn) <= MaxConns
  /\ \A i \in DOMAIN conn : Sound(conn[i])
  /\ registered \in [Host -> 0 .. Len(conn)]
  /\ \A h \in Host : registered[h] # 0 => conn[registered[h]].host = h

(***************************************************************************)
(* A step that changes connections in place, keeping their hosts, and at    *)
(* most unregisters some, keeps ConnOK.                                     *)
(***************************************************************************)
LEMMA InPlace ==
  ASSUME ConnOK, conn' = [i \in DOMAIN conn |-> conn'[i]],
         \A i \in DOMAIN conn : /\ conn'[i] \in Connection /\ Sound(conn'[i])
                                /\ conn'[i].host = conn[i].host,
         registered' \in [Host -> Nat],
         \A h \in Host : registered'[h] \in {0, registered[h]}
  PROVE  ConnOK'
<1>1. DOMAIN conn = 1 .. Len(conn) /\ Len(conn) \in Nat
  BY DEF ConnOK
<1>2. conn' \in [1 .. Len(conn) -> Connection]
  BY <1>1
<1>3. conn' \in Seq(Connection) /\ Len(conn') = Len(conn)
  BY <1>1, <1>2
<1>4. registered' \in [Host -> 0 .. Len(conn')]
  <2>1. registered \in [Host -> 0 .. Len(conn')]
    BY <1>3 DEF ConnOK
  <2>2. \A h \in Host : registered'[h] \in 0 .. Len(conn')
    BY <1>1, <1>3, <2>1
  <2>3. QED
    BY <2>2
<1>5. QED
  BY <1>1, <1>3, <1>4 DEF ConnOK

(***************************************************************************)
(* The case of one connection that becomes c.                               *)
(***************************************************************************)
LEMMA OneInPlace ==
  ASSUME ConnOK, NEW i \in DOMAIN conn, NEW c \in Connection,
         c.host = conn[i].host, Sound(c), conn' = [conn EXCEPT ![i] = c],
         registered' = registered \/ registered' = Unregister(i)
  PROVE  ConnOK'
<1>1. /\ \A j \in DOMAIN conn : conn[j] \in Connection /\ Sound(conn[j])
      /\ Len(conn) \in Nat
      /\ \A h \in Host : registered[h] \in 0 .. Len(conn)
      /\ registered = [h \in Host |-> registered[h]]
  BY DEF ConnOK
<1>2. \A j \in DOMAIN conn : /\ conn'[j] \in Connection /\ Sound(conn'[j])
                            /\ conn'[j].host = conn[j].host
  BY <1>1
<1>3. conn' = [j \in DOMAIN conn |-> conn'[j]]
  BY DEF ConnOK
<1>4. \A h \in Host : registered'[h] \in {0, registered[h]}
  BY <1>1 DEF Unregister
<1>5. registered' \in [Host -> Nat]
  <2>1. registered' = [h \in Host |-> registered'[h]]
    BY <1>1 DEF Unregister
  <2>2. \A h \in Host : registered'[h] \in Nat
    BY <1>1, <1>4
  <2>3. QED
    BY <2>1, <2>2
<1>6. QED
  BY <1>2, <1>3, <1>4, <1>5, InPlace

(***************************************************************************)
(* What PendingFor, Recipients and Carried return has the type that the     *)
(* fields of a connection expect.                                           *)
(***************************************************************************)
LEMMA PendingTyped ==
  ASSUME MB!TypeOK, NEW h, NEW ps
  PROVE  MB!PendingFor(h, ps) \subseteq Envelopes
BY DEF MB!PendingFor, MB!TypeOK

LEMMA RecipientsTyped ==
  ASSUME ConnOK, NEW env \in Envelopes
  PROVE  /\ Recipients(env) \subseteq DOMAIN conn
         /\ DOMAIN conn \subseteq 1 .. MaxConns
<1>1. DOMAIN conn = 1 .. Len(conn) /\ Len(conn) \in Nat /\ Len(conn) <= MaxConns
  BY DEF ConnOK
<1>2. \A h \in Host : registered[h] \in 0 .. Len(conn)
  BY DEF ConnOK
<1>3. Recipients(env) \subseteq DOMAIN conn
  BY <1>1, <1>2, HubAssumption DEF Recipients
<1>4. QED
  BY <1>1, <1>3, HubAssumption

LEMMA CarriedTyped ==
  ASSUME ConnOK, NEW i \in DOMAIN conn, NEW m, m.msg_id \in MB!Ids(Envelopes)
  PROVE  Carried(i, m) \subseteq MB!Ids(Envelopes)
<1>1. conn[i] \in Connection
  BY DEF ConnOK
<1>2. conn[i].sent \subseteq MB!Ids(Envelopes)
  BY <1>1 DEF Connection
<1>3. QED
  BY <1>2 DEF Carried

(***************************************************************************)
(* The steps of a handler keep the connections well typed.                  *)
(***************************************************************************)
LEMMA HandlerTyped ==
  ASSUME MB!TypeOK, ConnOK, NEW i \in DOMAIN conn, HandlerStep(i)
  PROVE  ConnOK'
<1>1. conn[i] \in Connection /\ Sound(conn[i])
  BY DEF ConnOK
<1>2. CASE DrainSend(i)
  <2>1. PICK m \in conn[i].todo :
          conn' = [conn EXCEPT ![i].todo = @ \ {m}, ![i].sent = Carried(i, m)]
    BY <1>2 DEF DrainSend
  <2>2. Carried(i, m) \subseteq MB!Ids(Envelopes)
    BY <1>1, CarriedTyped DEF Connection, MB!Ids
  <2> DEFINE c == [conn[i] EXCEPT !.todo = @ \ {m}, !.sent = Carried(i, m)]
  <2>3. c \in Connection /\ c.host = conn[i].host /\ Sound(c)
    BY <1>1, <2>2 DEF Connection, Sound
  <2>4. conn' = [conn EXCEPT ![i] = c]
    BY <2>1
  <2>5. QED
    BY <1>2, <2>3, <2>4, OneInPlace DEF DrainSend
<1>3. CASE DrainDone(i)
  <2> DEFINE c == [conn[i] EXCEPT !.pc = "open"]
  <2>1. c \in Connection /\ c.host = conn[i].host /\ Sound(c)
    BY <1>1 DEF Connection, Places, Sound
  <2>2. QED
    BY <1>3, <2>1, OneInPlace DEF DrainDone
<1>4. CASE Push(i)
  <2>1. PICK r \in conn[i].recipients :
          conn' = [conn EXCEPT ![i].recipients = @ \ {r},
                               ![r].sent = Carried(r, conn[i].env)]
    BY <1>4 DEF Push
  <2>2. conn[i].env.msg_id \in MB!Ids(Envelopes)
    BY <1>1, <1>4 DEF Push, Sound, MB!Ids
  <2>3. ASSUME NEW j \in DOMAIN conn
        PROVE  /\ conn'[j] \in Connection /\ Sound(conn'[j])
               /\ conn'[j].host = conn[j].host
    <3> DEFINE c == IF j = i THEN [conn[j] EXCEPT !.recipients = @ \ {r}] ELSE conn[j]
               d == IF j = r THEN [c EXCEPT !.sent = Carried(r, conn[i].env)] ELSE c
    <3>1. conn[j] \in Connection /\ Sound(conn[j])
      BY DEF ConnOK
    <3>2. c \in Connection /\ Sound(c) /\ c.host = conn[j].host
      BY <3>1 DEF Connection, Sound
    <3>3. j = r => Carried(r, conn[i].env) \subseteq MB!Ids(Envelopes)
      BY <2>2, CarriedTyped
    <3>4. d \in Connection /\ Sound(d) /\ d.host = conn[j].host
      BY <3>2, <3>3 DEF Connection, Sound
    <3>5. conn'[j] = d
      BY <2>1
    <3>6. QED
      BY <3>4, <3>5
  <2>4. conn' = [j \in DOMAIN conn |-> conn'[j]]
    BY <2>1 DEF ConnOK
  <2>5. registered' = registered /\ registered \in [Host -> Nat]
    BY <1>4 DEF Push, ConnOK
  <2>6. QED
    BY <2>3, <2>4, <2>5, InPlace
<1>5. CASE PostDone(i)
  <2> DEFINE c == [conn[i] EXCEPT !.pc = "open", !.env = NoEnvelope]
  <2>1. c \in Connection /\ c.host = conn[i].host /\ Sound(c)
    BY <1>1 DEF Connection, Places, Sound
  <2>2. QED
    BY <1>5, <2>1, OneInPlace DEF PostDone
<1>6. CASE Close(i)
  <2> DEFINE c == [conn[i] EXCEPT !.pc = "closed", !.todo = {}, !.projects = {}]
  <2>1. c \in Connection /\ c.host = conn[i].host /\ Sound(c)
    BY <1>1 DEF Connection, Places, Sound
  <2>2. QED
    BY <1>6, <2>1, OneInPlace DEF Close
<1>7. QED
  BY <1>2, <1>3, <1>4, <1>5, <1>6 DEF HandlerStep

(***************************************************************************)
(* A hello appends a connection and registers it.                           *)
(***************************************************************************)
LEMMA HelloTyped ==
  ASSUME MB!TypeOK, ConnOK, NEW h \in Host, NEW ps \in SUBSET Project, Hello(h, ps)
  PROVE  ConnOK'
<1> DEFINE c == Drain(Fresh(h), ps)
           n == Len(conn) + 1
<1>1. c \in Connection /\ c.host = h /\ Sound(c)
  BY PendingTyped DEF Drain, Fresh, Connection, Sound, Places, Links
<1>2. /\ conn \in Seq(Connection) /\ Len(conn) \in Nat /\ Len(conn) < MaxConns
      /\ \A k \in Host : registered[k] \in 0 .. Len(conn)
      /\ registered = [k \in Host |-> registered[k]]
  BY DEF ConnOK, Hello
<1>3. /\ conn' = Append(conn, c)
      /\ registered' = [registered EXCEPT ![h] = n]
  BY DEF Hello
<1>4. /\ conn' \in Seq(Connection) /\ Len(conn') = n /\ conn'[n] = c
      /\ \A i \in DOMAIN conn : conn'[i] = conn[i]
      /\ DOMAIN conn' = DOMAIN conn \cup {n}
  BY <1>1, <1>2, <1>3
<1>5. Len(conn') <= MaxConns
  BY <1>2, <1>4, HubAssumption
<1>6. \A i \in DOMAIN conn' : Sound(conn'[i])
  BY <1>1, <1>4 DEF ConnOK
<1>7. registered' \in [Host -> 0 .. Len(conn')]
  BY <1>2, <1>3, <1>4
<1>8. ASSUME NEW k \in Host, registered'[k] # 0
      PROVE  conn'[registered'[k]].host = k
  <2>1. CASE k = h
    BY <1>1, <1>2, <1>3, <1>4, <2>1
  <2>2. CASE k # h
    <3>1. registered'[k] = registered[k] /\ registered[k] \in DOMAIN conn
      BY <1>2, <1>3, <1>8, <2>2
    <3>2. QED
      BY <1>4, <1>8, <3>1 DEF ConnOK
  <2>3. QED
    BY <2>1, <2>2
<1>9. QED
  BY <1>4, <1>5, <1>6, <1>7, <1>8 DEF ConnOK

(***************************************************************************)
(* A frame from a client changes its own connection only.                   *)
(***************************************************************************)
LEMMA FrameTyped ==
  ASSUME MB!TypeOK, ConnOK, NEW i \in DOMAIN conn,
         \/ \E env \in Envelopes : Post(i, env)
         \/ \E mid \in MB!Ids(Envelopes) : Ack(i, mid)
         \/ \E ps \in SUBSET Project : Announce(i, ps)
         \/ ClientVanishes(i)
         \/ HubNotices(i)
  PROVE  ConnOK'
<1>1. conn[i] \in Connection /\ Sound(conn[i])
  BY DEF ConnOK
<1>2. ASSUME NEW env \in Envelopes, Post(i, env)
      PROVE  ConnOK'
  <2> DEFINE c == [conn[i] EXCEPT !.pc = "pushing", !.env = env,
                                  !.recipients = Recipients(env),
                                  !.posted = @ \cup {env.msg_id}]
  <2>1. Recipients(env) \subseteq 1 .. MaxConns /\ env.msg_id \in MB!Ids(Envelopes)
    BY RecipientsTyped DEF MB!Ids
  <2>2. c \in Connection /\ c.host = conn[i].host /\ Sound(c)
    BY <1>1, <2>1 DEF Connection, Places, Sound
  <2>3. QED
    BY <1>2, <2>2, OneInPlace DEF Post
<1>3. ASSUME NEW mid \in MB!Ids(Envelopes), Ack(i, mid)
      PROVE  ConnOK'
  BY <1>3 DEF Ack, ConnOK
<1>4. ASSUME NEW ps \in SUBSET Project, Announce(i, ps)
      PROVE  ConnOK'
  <2>1. Drain(conn[i], ps) \in Connection /\ Sound(Drain(conn[i], ps))
    BY <1>1, PendingTyped DEF Drain, Connection, Places, Sound
  <2>2. Drain(conn[i], ps).host = conn[i].host
    BY <1>1 DEF Drain, Connection
  <2>3. QED
    BY <1>4, <2>1, <2>2, OneInPlace DEF Announce
<1>5. CASE ClientVanishes(i)
  <2> DEFINE c == [conn[i] EXCEPT !.link = "gone"]
  <2>1. c \in Connection /\ c.host = conn[i].host /\ Sound(c)
    BY <1>1 DEF Connection, Links, Sound
  <2>2. QED
    BY <1>5, <2>1, OneInPlace DEF ClientVanishes
<1>6. CASE HubNotices(i)
  <2> DEFINE c == [conn[i] EXCEPT !.link = "dropped"]
  <2>1. c \in Connection /\ c.host = conn[i].host /\ Sound(c)
    BY <1>1 DEF Connection, Links, Sound
  <2>2. QED
    BY <1>6, <2>1, OneInPlace DEF HubNotices
<1>7. QED
  BY <1>2, <1>3, <1>4, <1>5, <1>6

(***************************************************************************)
(* A restart of the hub closes every connection.                            *)
(***************************************************************************)
LEMMA RestartTyped ==
  ASSUME ConnOK, Restart
  PROVE  ConnOK'
<1>1. ASSUME NEW i \in DOMAIN conn
      PROVE  /\ conn'[i] \in Connection /\ Sound(conn'[i])
             /\ conn'[i].host = conn[i].host
  <2>1. conn[i] \in Connection
    BY DEF ConnOK
  <2>2. conn'[i] = [conn[i] EXCEPT !.link = "dropped", !.pc = "closed", !.todo = {},
                                   !.env = NoEnvelope, !.recipients = {},
                                   !.projects = {}]
    BY DEF Restart
  <2>3. QED
    BY <2>1, <2>2 DEF Connection, Links, Places, Sound
<1>2. conn' = [i \in DOMAIN conn |-> conn'[i]] /\ registered' = [h \in Host |-> 0]
  BY DEF Restart
<1>3. QED
  BY <1>1, <1>2, InPlace

----------------------------------------------------------------------------
(* The theorems *)

TypeInv == MB!TypeOK /\ ConnOK /\ restarts \in 0 .. MaxRestarts

LEMMA TypeInvInductive == TypeInv /\ [Next]_vars => TypeInv'
<1> SUFFICES ASSUME TypeInv, [Next]_vars
             PROVE  TypeInv'
  OBVIOUS
<1> USE DEF TypeInv
<1>1. ASSUME NEW h \in Host, NEW ps \in SUBSET Project, Hello(h, ps)
      PROVE  TypeInv'
  BY <1>1, HelloTyped, MailboxStepTyped DEF Hello
<1>2. ASSUME NEW i \in DOMAIN conn, HandlerStep(i)
      PROVE  TypeInv'
  <2>1. UNCHANGED mailbox /\ UNCHANGED restarts
    BY <1>2 DEF HandlerStep, DrainSend, DrainDone, Push, PostDone, Close
  <2>2. QED
    BY <1>2, <2>1, HandlerTyped, MailboxStepTyped
<1>3. ASSUME NEW i \in DOMAIN conn, NEW env \in Envelopes, Post(i, env)
      PROVE  TypeInv'
  BY <1>3, FrameTyped, MailboxStepTyped DEF Post
<1>4. ASSUME NEW i \in DOMAIN conn, NEW mid \in MB!Ids(Envelopes), Ack(i, mid)
      PROVE  TypeInv'
  <2>1. conn[i] \in Connection
    BY DEF ConnOK
  <2>2. conn[i].host \in Host
    BY <2>1 DEF Connection
  <2>3. QED
    BY <1>4, <2>2, FrameTyped, MailboxStepTyped DEF Ack
<1>5. ASSUME NEW i \in DOMAIN conn, NEW ps \in SUBSET Project, Announce(i, ps)
      PROVE  TypeInv'
  BY <1>5, FrameTyped, MailboxStepTyped DEF Announce
<1>6. ASSUME NEW i \in DOMAIN conn, ClientVanishes(i) \/ HubNotices(i)
      PROVE  TypeInv'
  BY <1>6, FrameTyped, MailboxStepTyped DEF ClientVanishes, HubNotices
<1>7. CASE Restart
  <2>1. MaxRestarts \in Nat
    BY HubAssumption
  <2>2. restarts' \in 0 .. MaxRestarts
    <3>1. restarts < MaxRestarts /\ restarts' = restarts + 1
      BY <1>7 DEF Restart
    <3>2. restarts \in 0 .. MaxRestarts
      OBVIOUS
    <3>3. QED
      BY <2>1, <3>1, <3>2
  <2>3. UNCHANGED mailbox
    BY <1>7 DEF Restart
  <2>4. MB!TypeOK' /\ ConnOK'
    BY <1>7, <2>3, RestartTyped, MailboxStepTyped
  <2>5. QED
    BY <2>2, <2>4
<1>8. CASE Sweep
  BY <1>8, MailboxStepTyped DEF Sweep, ConnOK
<1>9. CASE Tick
  BY <1>9, MailboxStepTyped DEF Tick, ConnOK
<1>10. CASE UNCHANGED vars
  BY <1>10, MailboxStepTyped DEF vars, mailbox, ConnOK
<1>11. QED
  <2>1. \A i : HandlerStep(i) => i \in DOMAIN conn
    BY DEF HandlerStep
  <2>2. QED
    BY <1>1, <1>2, <1>3, <1>4, <1>5, <1>6, <1>7, <1>8, <1>9, <1>10 DEF Next

LEMMA TypeInvInit == Init => TypeInv
<1> SUFFICES ASSUME Init
             PROVE  TypeInv
  OBVIOUS
<1>1. MB!TypeOK
  BY FS_EmptySet, SameFinite DEF Init, MB!Init, MB!TypeOK
<1>2. ConnOK
  <2>1. conn = <<>> /\ registered = [h \in Host |-> 0]
    BY DEF Init
  <2>2. conn \in Seq(Connection) /\ Len(conn) = 0 /\ DOMAIN conn = {}
    BY <2>1
  <2>3. Len(conn) <= MaxConns
    BY <2>2, HubAssumption
  <2>4. QED
    BY <2>1, <2>2, <2>3 DEF ConnOK
<1>3. QED
  BY <1>1, <1>2, HubAssumption DEF Init, TypeInv

(***************************************************************************)
(* The hub's tables and connections stay well typed, and a registered       *)
(* connection is one of its host.                                           *)
(***************************************************************************)
THEOREM HubTypeCorrect == Spec => []TypeOK
<1>1. TypeInv => TypeOK
  BY DEF TypeInv, ConnOK, TypeOK
<1>2. QED
  BY <1>1, TypeInvInit, TypeInvInductive, PTL DEF Spec

(***************************************************************************)
(* A connection its client still uses stays registered.                     *)
(***************************************************************************)
LEMMA UpInductive == TypeInv /\ UpIsRegistered /\ [Next]_vars => UpIsRegistered'
<1> SUFFICES ASSUME TypeInv, UpIsRegistered, [Next]_vars
             PROVE  UpIsRegistered'
  OBVIOUS
<1>0. /\ \A i \in DOMAIN conn : conn[i] \in Connection
      /\ conn \in Seq(Connection)
      /\ registered \in [Host -> Nat]
  BY DEF TypeInv, ConnOK
<1>1. ASSUME NEW h \in Host, NEW ps \in SUBSET Project, Hello(h, ps)
      PROVE  UpIsRegistered'
  <2>1. /\ conn' = Append(conn, Drain(Fresh(h), ps))
        /\ registered' = [registered EXCEPT ![h] = Len(conn) + 1]
        /\ \A i \in DOMAIN conn : conn[i].host = h => conn[i].link # "up"
    BY <1>1 DEF Hello
  <2>2. Drain(Fresh(h), ps).host = h
    BY DEF Drain, Fresh
  <2>3. /\ DOMAIN conn' = DOMAIN conn \cup {Len(conn) + 1}
        /\ \A i \in DOMAIN conn : conn'[i] = conn[i]
        /\ conn'[Len(conn) + 1].host = h
    BY <1>0, <2>1, <2>2
  <2>4. QED
    BY <1>0, <2>1, <2>3 DEF UpIsRegistered, Connection
<1>2. ASSUME NEW i \in DOMAIN conn, HandlerStep(i)
      PROVE  UpIsRegistered'
  <2>1. CASE ~ Close(i)
    <3>1. CASE DrainSend(i) \/ DrainDone(i) \/ PostDone(i)
      <4>1. registered' = registered /\ DOMAIN conn' = DOMAIN conn
        BY <1>0, <3>1 DEF DrainSend, DrainDone, PostDone
      <4>2. ASSUME NEW j \in DOMAIN conn
            PROVE  conn'[j].host = conn[j].host /\ conn'[j].link = conn[j].link
        <5>0. conn[i] \in Connection /\ conn[j] \in Connection
          BY <1>0
        <5>1. CASE DrainSend(i)
          BY <5>0, <5>1 DEF DrainSend, Connection
        <5>2. CASE DrainDone(i)
          BY <5>0, <5>2 DEF DrainDone, Connection
        <5>3. CASE PostDone(i)
          BY <5>0, <5>3 DEF PostDone, Connection
        <5>4. QED
          BY <3>1, <5>1, <5>2, <5>3
      <4>3. QED
        BY <4>1, <4>2 DEF UpIsRegistered
    <3>2. CASE Push(i)
      <4>1. PICK r \in conn[i].recipients :
              conn' = [conn EXCEPT ![i].recipients = @ \ {r},
                                   ![r].sent = Carried(r, conn[i].env)]
        BY <3>2 DEF Push
      <4>2. \A j \in DOMAIN conn : /\ conn'[j].host = conn[j].host
                                   /\ conn'[j].link = conn[j].link
        BY <1>0, <4>1 DEF Connection
      <4>3. registered' = registered /\ DOMAIN conn' = DOMAIN conn
        BY <3>2, <4>1 DEF Push
      <4>4. QED
        BY <4>2, <4>3 DEF UpIsRegistered
    <3>3. QED
      BY <1>2, <2>1, <3>1, <3>2 DEF HandlerStep
  <2>2. CASE Close(i)
    <3>1. /\ registered' = Unregister(i) /\ DOMAIN conn' = DOMAIN conn
          /\ conn[i].link = "dropped"
          /\ \A j \in DOMAIN conn : /\ conn'[j].host = conn[j].host
                                    /\ conn'[j].link = conn[j].link
      BY <1>0, <2>2 DEF Close, Connection
    <3>2. QED
      BY <1>0, <3>1 DEF UpIsRegistered, Unregister, Connection
  <2>3. QED
    BY <2>1, <2>2
<1>3. ASSUME NEW i \in DOMAIN conn,
             \/ \E env \in Envelopes : Post(i, env)
             \/ \E mid \in MB!Ids(Envelopes) : Ack(i, mid)
             \/ \E ps \in SUBSET Project : Announce(i, ps)
             \/ ClientVanishes(i) \/ HubNotices(i)
      PROVE  UpIsRegistered'
  <2>1. ASSUME NEW env \in Envelopes, Post(i, env)
        PROVE  UpIsRegistered'
    BY <1>0, <2>1 DEF Post, Connection, UpIsRegistered
  <2>2. ASSUME NEW mid, Ack(i, mid)
        PROVE  UpIsRegistered'
    BY <2>2 DEF Ack, UpIsRegistered
  <2>3. ASSUME NEW ps, Announce(i, ps)
        PROVE  UpIsRegistered'
    BY <1>0, <2>3 DEF Announce, Drain, Connection, UpIsRegistered
  <2>4. CASE ClientVanishes(i) \/ HubNotices(i)
    BY <1>0, <2>4 DEF ClientVanishes, HubNotices, Connection, UpIsRegistered
  <2>5. QED
    BY <1>3, <2>1, <2>2, <2>3, <2>4
<1>4. CASE Restart
  <2>1. \A i \in DOMAIN conn' : conn'[i].link = "dropped"
    BY <1>0, <1>4 DEF Restart, Connection
  <2>2. QED
    BY <2>1 DEF UpIsRegistered
<1>5. CASE Sweep \/ Tick \/ UNCHANGED vars
  BY <1>5 DEF Sweep, Tick, vars, UpIsRegistered
<1>6. QED
  <2>1. \A i : HandlerStep(i) => i \in DOMAIN conn
    BY DEF HandlerStep
  <2>2. QED
    BY <1>1, <1>2, <1>3, <1>4, <1>5, <2>1 DEF Next

(***************************************************************************)
(* The late end of an older connection never unregisters the one its host   *)
(* uses, for any number of hosts and connections.                           *)
(***************************************************************************)
THEOREM UpStaysRegistered == Spec => []UpIsRegistered
<1>1. Init => UpIsRegistered
  BY DEF Init, UpIsRegistered
<1>2. QED
  BY <1>1, TypeInvInit, TypeInvInductive, UpInductive, PTL DEF Spec

----------------------------------------------------------------------------
(* NoGap *)

\* The two ways in which a waiting message is on its way to host h.
Coming(m, h) ==
  \/ m \in conn[registered[h]].todo
  \/ \E i \in DOMAIN conn : /\ conn[i].pc = "pushing"
                            /\ conn[i].env.msg_id = m.msg_id
                            /\ registered[h] \in conn[i].recipients

LEMMA NoGapIsComing ==
  NoGap <=> \A h \in Host, m \in Envelopes : Waiting(m, h) => Coming(m, h)
BY DEF NoGap, Coming

(***************************************************************************)
(* The mailbox never comes to owe a host a stored envelope that it did not  *)
(* owe before: acknowledgements go with their own rows only, and time moves *)
(* forward.                                                                 *)
(***************************************************************************)
LEMMA InsertedKeyed ==
  ASSUME MB!TypeOK, NEW env \in Envelopes
  PROVE  /\ Keyed(MB!Inserted(env))
         /\ MB!Inserted(env) \subseteq messages \cup {env}
         /\ messages \subseteq MB!Inserted(env)
BY DEF MB!Inserted, MB!TypeOK, MB!Ids, Keyed

LEMMA DeleteOwesNothing ==
  ASSUME NEW rows, NEW victims, Keyed(rows), victims \subseteq rows,
         MB!Delete(rows, victims), now' = now,
         NEW m \in messages, NEW h, MB!Owed(m, h)'
  PROVE  MB!Owed(m, h)
<1>1. m \in rows \ victims /\ MB!ExpiresAt(m) > now /\ MB!Addressed(m, h)
  BY DEF MB!Delete, MB!Owed, MB!ExpiresAt, MB!Addressed
<1>2. m.msg_id \notin MB!Ids(victims)
  BY <1>1 DEF Keyed, MB!Ids
<1>3. <<m.msg_id, h>> \notin acks
  BY <1>2 DEF MB!Delete, MB!Owed
<1>4. QED
  BY <1>1, <1>3 DEF MB!Owed

LEMMA OwesNothingNew ==
  ASSUME MB!TypeOK, NEW m \in messages, NEW h, MB!Owed(m, h)',
         \/ \E env \in Envelopes : MB!Put(env)
         \/ \E mid \in MB!Ids(Envelopes), k \in Host : MB!Ack(mid, k)
         \/ MB!SweepExpired
         \/ MB!Tick
         \/ UNCHANGED mailbox
  PROVE  MB!Owed(m, h)
<1>1. ASSUME NEW env \in Envelopes, MB!Put(env)
      PROVE  MB!Owed(m, h)
  <2>1. MB!OverCap(MB!Inserted(env), env.project) \subseteq MB!Inserted(env)
    BY DEF MB!OverCap
  <2>2. QED
    BY <1>1, <2>1, InsertedKeyed, DeleteOwesNothing DEF MB!Put
<1>2. ASSUME NEW mid, NEW k, MB!Ack(mid, k)
      PROVE  MB!Owed(m, h)
  BY <1>2 DEF MB!Ack, MB!Owed, MB!ExpiresAt, MB!Addressed
<1>3. CASE MB!SweepExpired
  <2>1. Keyed(messages)
    BY DEF MB!TypeOK, Keyed
  <2>2. QED
    BY <1>3, <2>1, DeleteOwesNothing DEF MB!SweepExpired
<1>4. CASE MB!Tick
  <2>1. now \in Nat /\ now' \in Nat /\ now' > now /\ acks' = acks
    BY <1>4, HubAssumption DEF MB!Tick, MB!TypeOK
  <2>2. MB!ExpiresAt(m) > now' /\ <<m.msg_id, h>> \notin acks /\ MB!Addressed(m, h)
    BY <2>1 DEF MB!Owed, MB!ExpiresAt, MB!Addressed
  <2>3. m \in MB!EnvelopeType
    BY HubAssumption DEF MB!TypeOK
  <2>4. MB!ExpiresAt(m) \in Int
    BY <2>3 DEF MB!ExpiresAt, MB!EnvelopeType
  <2>5. QED
    BY <2>1, <2>2, <2>4 DEF MB!Owed
<1>5. CASE UNCHANGED mailbox
  BY <1>5 DEF mailbox, MB!Owed, MB!ExpiresAt, MB!Addressed
<1>6. QED
  BY <1>1, <1>2, <1>3, <1>4, <1>5

(***************************************************************************)
(* A step after which h is owed no more than before, on the same            *)
(* connection, keeps message m coming to h, if whatever leaves a drain or a *)
(* push on the way to h has been sent to it.                                *)
(***************************************************************************)
LEMMA StillComing ==
  ASSUME NEW h, NEW m, Waiting(m, h) => Coming(m, h), Waiting(m, h)',
         registered'[h] = registered[h],
         m \in messages, MB!Owed(m, h)' => MB!Owed(m, h),
         conn[registered[h]].link = "up",
         conn[registered[h]].projects = conn'[registered[h]].projects,
         conn[registered[h]].sent \subseteq conn'[registered[h]].sent,
         m \in conn[registered[h]].todo =>
           \/ m \in conn'[registered[h]].todo
           \/ m.msg_id \in conn'[registered[h]].sent,
         \A i \in DOMAIN conn :
           conn[i].pc = "pushing" /\ conn[i].env.msg_id = m.msg_id
             /\ registered[h] \in conn[i].recipients =>
           \/ /\ i \in DOMAIN conn' /\ conn'[i].pc = "pushing"
              /\ conn'[i].env.msg_id = m.msg_id
              /\ registered[h] \in conn'[i].recipients
           \/ m.msg_id \in conn'[registered[h]].sent
  PROVE  Coming(m, h)'
<1>1. /\ registered[h] # 0
      /\ MB!Owed(m, h)'
      /\ m.target_kind = "project" => m.project \in conn'[registered[h]].projects
      /\ m.msg_id \notin conn'[registered[h]].sent
  BY DEF Waiting, MB!PendingFor
<1>2. m \in MB!PendingFor(h, conn[registered[h]].projects)
  BY <1>1 DEF MB!PendingFor
<1>3. Waiting(m, h)
  BY <1>1, <1>2 DEF Waiting
<1>4. Coming(m, h)
  BY <1>3
<1>5. CASE m \in conn[registered[h]].todo
  BY <1>1, <1>5 DEF Coming
<1>6. CASE m \notin conn[registered[h]].todo
  <2>1. PICK i \in DOMAIN conn : /\ conn[i].pc = "pushing"
                                 /\ conn[i].env.msg_id = m.msg_id
                                 /\ registered[h] \in conn[i].recipients
    BY <1>4, <1>6 DEF Coming
  <2>2. QED
    BY <1>1, <2>1 DEF Coming
<1>7. QED
  BY <1>5, <1>6

\* The conditions of an inductive step, for one host and one message.
Step(m, h) == TypeInv /\ NoGap /\ TypeInv' /\ Waiting(m, h)'

(***************************************************************************)
(* What Step gives: who h is connected on.                                  *)
(***************************************************************************)
LEMMA StepFacts ==
  ASSUME NEW h \in Host, NEW m \in Envelopes, Step(m, h)
  PROVE  /\ Waiting(m, h) => Coming(m, h)
         /\ registered'[h] # 0 /\ registered'[h] \in DOMAIN conn'
         /\ conn'[registered'[h]].link = "up"
         /\ conn'[registered'[h]].host = h
         /\ m \in messages' /\ MB!Owed(m, h)'
         /\ \A i \in DOMAIN conn : conn[i] \in Connection
         /\ \A i \in DOMAIN conn' : conn'[i] \in Connection
         /\ conn \in Seq(Connection)
         /\ registered \in [Host -> Nat]
<1>1. Waiting(m, h) => Coming(m, h)
  BY NoGapIsComing DEF Step
<1>2. /\ registered'[h] # 0 /\ conn'[registered'[h]].link = "up"
      /\ m \in messages' /\ MB!Owed(m, h)'
  BY DEF Step, Waiting, MB!PendingFor, MB!Owed
<1>3. registered'[h] \in 0 .. Len(conn') /\ conn' \in Seq(Connection)
  BY DEF Step, TypeInv, ConnOK
<1>4. registered'[h] \in DOMAIN conn'
  BY <1>2, <1>3
<1>5. conn'[registered'[h]].host = h
  BY <1>2 DEF Step, TypeInv, ConnOK
<1>6. QED
  BY <1>1, <1>2, <1>3, <1>4, <1>5 DEF Step, TypeInv, ConnOK

LEMMA HelloNoGap ==
  ASSUME NEW h \in Host, NEW m \in Envelopes, Step(m, h),
         NEW k \in Host, NEW ps \in SUBSET Project, Hello(k, ps)
  PROVE  Coming(m, h)'
<1> DEFINE c == Drain(Fresh(k), ps)
           n == Len(conn) + 1
<1>1. /\ conn' = Append(conn, c) /\ registered' = [registered EXCEPT ![k] = n]
      /\ UNCHANGED mailbox
  BY DEF Hello
<1>2. /\ \A i \in DOMAIN conn : i \in DOMAIN conn' /\ conn'[i] = conn[i]
      /\ conn'[n] = c
      /\ DOMAIN conn' = DOMAIN conn \cup {n}
  BY <1>1, StepFacts
<1>3. CASE h = k
  <2>1. registered'[h] = n
    BY <1>1, <1>3, StepFacts
  <2>2. c.projects = ps /\ c.todo = MB!PendingFor(k, ps)
    BY DEF Drain, Fresh
  <2>3. m \in MB!PendingFor(h, ps)
    BY <1>1, <1>2, <2>1, <2>2
       DEF Step, Waiting, MB!PendingFor, MB!Owed, MB!ExpiresAt, MB!Addressed, mailbox
  <2>4. QED
    BY <1>2, <1>3, <2>1, <2>2, <2>3 DEF Coming
<1>4. CASE h # k
  <2>1. registered'[h] = registered[h] /\ registered[h] \in DOMAIN conn
    <3>1. registered'[h] = registered[h] /\ registered[h] # 0
      BY <1>1, <1>4, StepFacts
    <3>2. registered[h] \in 0 .. Len(conn) /\ conn \in Seq(Connection)
      BY DEF Step, TypeInv, ConnOK
    <3>3. QED
      BY <3>1, <3>2
  <2>2. m \in messages /\ (MB!Owed(m, h)' => MB!Owed(m, h))
    BY <1>1, StepFacts, OwesNothingNew DEF mailbox, Step, TypeInv
  <2>3. QED
    BY <1>2, <2>1, <2>2, StepFacts, StillComing DEF Step
<1>5. QED
  BY <1>3, <1>4

LEMMA AnnounceNoGap ==
  ASSUME NEW h \in Host, NEW m \in Envelopes, Step(m, h),
         NEW i \in DOMAIN conn, NEW ps \in SUBSET Project, Announce(i, ps)
  PROVE  Coming(m, h)'
<1>1. /\ conn' = [conn EXCEPT ![i] = Drain(conn[i], ps)] /\ conn[i].pc = "open"
      /\ registered' = registered /\ UNCHANGED mailbox
  BY DEF Announce
<1>2. CASE registered[h] = i
  <2>1. conn[i].host = h
    BY <1>1, <1>2, StepFacts DEF Step, TypeInv, ConnOK
  <2>2. conn'[i].projects = ps /\ conn'[i].todo = MB!PendingFor(h, ps)
    <3>1. conn[i] \in Connection /\ conn'[i] = Drain(conn[i], ps)
      BY <1>1, StepFacts
    <3>2. /\ Drain(conn[i], ps).projects = ps
          /\ Drain(conn[i], ps).todo = MB!PendingFor(conn[i].host, ps)
      BY <3>1 DEF Drain, Connection
    <3>3. QED
      BY <2>1, <3>1, <3>2
  <2>3. m \in MB!PendingFor(h, ps)
    BY <1>1, <1>2, <2>2
       DEF Step, Waiting, MB!PendingFor, MB!Owed, MB!ExpiresAt, MB!Addressed, mailbox
  <2>4. QED
    BY <1>1, <1>2, <2>2, <2>3 DEF Coming
<1>3. CASE registered[h] # i
  <2>1. /\ \A j \in DOMAIN conn \ {i} : conn'[j] = conn[j]
        /\ DOMAIN conn' = DOMAIN conn
    BY <1>1
  <2>2. m \in messages /\ (MB!Owed(m, h)' => MB!Owed(m, h))
    BY <1>1, StepFacts, OwesNothingNew DEF mailbox, Step, TypeInv
  <2>3. QED
    BY <1>1, <1>3, <2>1, <2>2, StepFacts, StillComing DEF Step
<1>4. QED
  BY <1>2, <1>3

LEMMA PostNoGap ==
  ASSUME NEW h \in Host, NEW m \in Envelopes, Step(m, h),
         NEW i \in DOMAIN conn, NEW env \in Envelopes, Post(i, env)
  PROVE  Coming(m, h)'
<1>1. /\ MB!Put(env) /\ conn[i].pc = "open" /\ registered' = registered
      /\ conn' = [conn EXCEPT ![i].pc = "pushing", ![i].env = env,
                              ![i].recipients = Recipients(env),
                              ![i].posted = @ \cup {env.msg_id}]
  BY DEF Post
<1>2. /\ DOMAIN conn' = DOMAIN conn
      /\ \A j \in DOMAIN conn : /\ conn'[j].projects = conn[j].projects
                                /\ conn'[j].link = conn[j].link
                                /\ conn'[j].sent = conn[j].sent
                                /\ conn'[j].todo = conn[j].todo
      /\ \A j \in DOMAIN conn \ {i} : conn'[j] = conn[j]
      /\ conn'[i].pc = "pushing" /\ conn'[i].env = env
      /\ conn'[i].recipients = Recipients(env)
  BY <1>1, StepFacts DEF Connection
<1>3. registered[h] # 0 /\ registered[h] \in DOMAIN conn
  BY <1>1, <1>2, StepFacts
<1>4. CASE m \in messages
  <2>1. MB!Owed(m, h)' => MB!Owed(m, h)
    BY <1>1, <1>4, OwesNothingNew DEF Step, TypeInv
  <2>2. conn[registered[h]].link = "up"
    BY <1>1, <1>2, <1>3, StepFacts
  <2>3. \A j \in DOMAIN conn : conn[j].pc = "pushing" =>
          j \in DOMAIN conn' /\ conn'[j] = conn[j]
    BY <1>1, <1>2
  <2>4. (Waiting(m, h) => Coming(m, h)) /\ Waiting(m, h)'
    BY StepFacts DEF Step
  <2>5. QED
    BY <1>1, <1>2, <1>3, <1>4, <2>1, <2>2, <2>3, <2>4, StillComing
<1>5. CASE m \notin messages
  <2>1. m \in MB!Inserted(env)
    BY <1>1, StepFacts DEF MB!Put, MB!Delete
  <2>2. m = env
    BY <1>5, <2>1, InsertedKeyed DEF Step, TypeInv
  <2>3. m \in MB!EnvelopeType
    BY HubAssumption
  <2>4. MB!Addressed(m, h)
    BY StepFacts DEF MB!Owed, MB!Addressed
  <2>5. m.target_kind = "project" => m.project \in conn[registered[h]].projects
    BY <1>1, <1>2, <1>3 DEF Step, Waiting, MB!PendingFor
  <2>6. registered[h] \in Recipients(env)
    <3>1. CASE m.target_kind = "host"
      BY <1>3, <2>2, <2>4, <3>1 DEF MB!Addressed, Recipients
    <3>2. CASE m.target_kind = "project"
      BY <1>3, <2>2, <2>4, <2>5, <3>2 DEF MB!Addressed, Recipients
    <3>3. QED
      BY <2>3, <3>1, <3>2 DEF MB!EnvelopeType
  <2>7. QED
    BY <1>1, <1>2, <2>2, <2>6 DEF Coming
<1>6. QED
  BY <1>4, <1>5

LEMMA PushNoGap ==
  ASSUME NEW h \in Host, NEW m \in Envelopes, Step(m, h),
         NEW i \in DOMAIN conn, Push(i)
  PROVE  Coming(m, h)'
<1>1. PICK r \in conn[i].recipients :
        conn' = [conn EXCEPT ![i].recipients = @ \ {r},
                             ![r].sent = Carried(r, conn[i].env)]
  BY DEF Push
<1>2. registered' = registered /\ UNCHANGED mailbox
  BY DEF Push
<1>3. ASSUME NEW j \in DOMAIN conn
      PROVE  /\ conn'[j].projects = conn[j].projects
             /\ conn'[j].link = conn[j].link
             /\ conn'[j].todo = conn[j].todo
             /\ conn'[j].pc = conn[j].pc
             /\ conn'[j].env = conn[j].env
             /\ conn'[j].recipients = IF j = i THEN conn[j].recipients \ {r}
                                               ELSE conn[j].recipients
             /\ conn'[j].sent = IF j = r THEN Carried(r, conn[i].env) ELSE conn[j].sent
  <2>1. conn[j] \in Connection
    BY StepFacts
  <2>2. QED
    BY <1>1, <2>1 DEF Connection
<1>4. DOMAIN conn' = DOMAIN conn
  BY <1>1
<1>5. registered[h] \in DOMAIN conn /\ conn[registered[h]].link = "up"
  BY <1>2, <1>3, <1>4, StepFacts
<1>6. m \in messages /\ (MB!Owed(m, h)' => MB!Owed(m, h))
  BY <1>2, StepFacts, OwesNothingNew DEF mailbox, Step, TypeInv
<1>7. /\ conn[registered[h]].sent \subseteq conn'[registered[h]].sent
      /\ r = registered[h] => conn[i].env.msg_id \in conn'[registered[h]].sent
  <2>1. /\ conn'[registered[h]].sent = IF registered[h] = r THEN Carried(r, conn[i].env)
                                                         ELSE conn[registered[h]].sent
    BY <1>3, <1>5
  <2>2. CASE registered[h] = r
    <3>1. Carried(r, conn[i].env) = conn[registered[h]].sent \cup {conn[i].env.msg_id}
      BY <1>5, <2>2 DEF Carried
    <3>2. QED
      BY <2>1, <2>2, <3>1
  <2>3. CASE registered[h] # r
    BY <2>1, <2>3
  <2>4. QED
    BY <2>2, <2>3
<1>8. ASSUME NEW j \in DOMAIN conn, conn[j].pc = "pushing",
             conn[j].env.msg_id = m.msg_id, registered[h] \in conn[j].recipients
      PROVE  \/ /\ j \in DOMAIN conn' /\ conn'[j].pc = "pushing"
                /\ conn'[j].env.msg_id = m.msg_id
                /\ registered[h] \in conn'[j].recipients
             \/ m.msg_id \in conn'[registered[h]].sent
  BY <1>3, <1>4, <1>7, <1>8
<1>9. (Waiting(m, h) => Coming(m, h)) /\ Waiting(m, h)'
  BY StepFacts DEF Step
<1>10. QED
  BY <1>2, <1>3, <1>5, <1>6, <1>7, <1>8, <1>9, StillComing

(***************************************************************************)
(* The other steps of a handler: what leaves a drain has been sent, and     *)
(* nothing that is on its way is lost.                                      *)
(***************************************************************************)
LEMMA HandlerNoGap ==
  ASSUME NEW h \in Host, NEW m \in Envelopes, Step(m, h),
         NEW i \in DOMAIN conn, HandlerStep(i)
  PROVE  Coming(m, h)'
<1>1. UNCHANGED mailbox
  BY DEF HandlerStep, DrainSend, DrainDone, Push, PostDone, Close
<1>2. m \in messages /\ (MB!Owed(m, h)' => MB!Owed(m, h))
  BY <1>1, StepFacts, OwesNothingNew DEF mailbox, Step, TypeInv
<1>3. CASE DrainSend(i)
  <2>1. PICK d \in conn[i].todo :
          conn' = [conn EXCEPT ![i].todo = @ \ {d}, ![i].sent = Carried(i, d)]
    BY <1>3 DEF DrainSend
  <2>2. registered' = registered /\ conn[i] \in Connection
    BY <1>3, StepFacts DEF DrainSend
  <2>3. /\ DOMAIN conn' = DOMAIN conn
        /\ \A j \in DOMAIN conn \ {i} : conn'[j] = conn[j]
        /\ conn'[i].projects = conn[i].projects /\ conn'[i].link = conn[i].link
        /\ conn'[i].pc = conn[i].pc /\ conn'[i].env = conn[i].env
        /\ conn'[i].recipients = conn[i].recipients
        /\ conn'[i].todo = conn[i].todo \ {d}
        /\ conn'[i].sent = Carried(i, d)
    BY <2>1, <2>2 DEF Connection
  <2>4. registered[h] \in DOMAIN conn /\ conn[registered[h]].link = "up"
    BY <2>2, <2>3, StepFacts
  <2>5. registered[h] = i => conn'[i].sent = conn[i].sent \cup {d.msg_id}
    BY <2>3, <2>4 DEF Carried
  <2>6. m \in conn[registered[h]].todo =>
          \/ m \in conn'[registered[h]].todo
          \/ m.msg_id \in conn'[registered[h]].sent
    BY <2>3, <2>4, <2>5
  <2>7. (Waiting(m, h) => Coming(m, h)) /\ Waiting(m, h)'
    BY StepFacts DEF Step
  <2>8. /\ conn[registered[h]].projects = conn'[registered[h]].projects
        /\ conn[registered[h]].sent \subseteq conn'[registered[h]].sent
    BY <2>3, <2>4, <2>5
  <2>9. \A j \in DOMAIN conn :
          conn[j].pc = "pushing" /\ conn[j].env.msg_id = m.msg_id
            /\ registered[h] \in conn[j].recipients =>
          \/ /\ j \in DOMAIN conn' /\ conn'[j].pc = "pushing"
             /\ conn'[j].env.msg_id = m.msg_id
             /\ registered[h] \in conn'[j].recipients
          \/ m.msg_id \in conn'[registered[h]].sent
    BY <2>3
  <2>10. QED
    BY <1>2, <2>2, <2>4, <2>6, <2>7, <2>8, <2>9, StillComing
<1>4. CASE DrainDone(i) \/ PostDone(i)
  <2>1. /\ registered' = registered /\ conn[i] \in Connection
        /\ DOMAIN conn' = DOMAIN conn
        /\ \A j \in DOMAIN conn \ {i} : conn'[j] = conn[j]
    BY <1>4, StepFacts DEF DrainDone, PostDone
  <2>2. /\ conn'[i].projects = conn[i].projects /\ conn'[i].link = conn[i].link
        /\ conn'[i].todo = conn[i].todo /\ conn'[i].sent = conn[i].sent
        /\ conn[i].pc = "pushing" => conn[i].recipients = {}
    BY <1>4, <2>1 DEF DrainDone, PostDone, Connection
  <2>3. registered[h] \in DOMAIN conn /\ conn[registered[h]].link = "up"
    BY <2>1, <2>2, StepFacts
  <2>4. (Waiting(m, h) => Coming(m, h)) /\ Waiting(m, h)'
    BY StepFacts DEF Step
  <2>5. /\ conn[registered[h]].projects = conn'[registered[h]].projects
        /\ conn[registered[h]].sent = conn'[registered[h]].sent
        /\ conn[registered[h]].todo = conn'[registered[h]].todo
    BY <2>1, <2>2, <2>3
  <2>6. \A j \in DOMAIN conn :
          conn[j].pc = "pushing" /\ conn[j].env.msg_id = m.msg_id
            /\ registered[h] \in conn[j].recipients =>
          \/ /\ j \in DOMAIN conn' /\ conn'[j].pc = "pushing"
             /\ conn'[j].env.msg_id = m.msg_id
             /\ registered[h] \in conn'[j].recipients
          \/ m.msg_id \in conn'[registered[h]].sent
    BY <2>1, <2>2
  <2>7. QED
    BY <1>2, <2>1, <2>3, <2>4, <2>5, <2>6, StillComing
<1>5. CASE Push(i)
  BY <1>5, PushNoGap
<1>6. CASE Close(i)
  <2>1. /\ registered' = Unregister(i) /\ conn[i] \in Connection
        /\ DOMAIN conn' = DOMAIN conn
        /\ \A j \in DOMAIN conn \ {i} : conn'[j] = conn[j]
        /\ conn'[i].link = "dropped" /\ conn[i].pc # "pushing"
    BY <1>6, StepFacts DEF Close, Connection
  <2>2. registered'[h] = registered[h] /\ registered[h] # i
    BY <2>1, StepFacts DEF Unregister
  <2>3. registered[h] \in DOMAIN conn /\ conn[registered[h]].link = "up"
    BY <2>1, <2>2, StepFacts
  <2>4. (Waiting(m, h) => Coming(m, h)) /\ Waiting(m, h)'
    BY StepFacts DEF Step
  <2>5. conn'[registered[h]] = conn[registered[h]]
    BY <2>1, <2>2, <2>3
  <2>6. \A j \in DOMAIN conn :
          conn[j].pc = "pushing" /\ conn[j].env.msg_id = m.msg_id
            /\ registered[h] \in conn[j].recipients =>
          \/ /\ j \in DOMAIN conn' /\ conn'[j].pc = "pushing"
             /\ conn'[j].env.msg_id = m.msg_id
             /\ registered[h] \in conn'[j].recipients
          \/ m.msg_id \in conn'[registered[h]].sent
    BY <2>1
  <2>7. QED
    BY <1>2, <2>2, <2>3, <2>4, <2>5, <2>6, StillComing
<1>7. QED
  BY <1>3, <1>4, <1>5, <1>6 DEF HandlerStep

(***************************************************************************)
(* Acknowledgements, lost clients, sweeps and time only take away what a    *)
(* host is owed.                                                            *)
(***************************************************************************)
LEMMA LessNoGap ==
  ASSUME NEW h \in Host, NEW m \in Envelopes, Step(m, h),
         \/ \E i \in DOMAIN conn, mid \in MB!Ids(Envelopes) : Ack(i, mid)
         \/ \E i \in DOMAIN conn : ClientVanishes(i) \/ HubNotices(i)
         \/ Sweep \/ Tick \/ UNCHANGED vars
  PROVE  Coming(m, h)'
<1>1. \/ \E mid \in MB!Ids(Envelopes), k \in Host : MB!Ack(mid, k)
      \/ MB!SweepExpired
      \/ MB!Tick
      \/ UNCHANGED mailbox
  <2>1. \A i \in DOMAIN conn : conn[i].host \in Host
    BY StepFacts DEF Connection
  <2>2. QED
    BY <2>1 DEF Ack, ClientVanishes, HubNotices, Sweep, Tick, vars, mailbox
<1>2. m \in messages
  BY <1>1, StepFacts DEF MB!Ack, MB!SweepExpired, MB!Delete, MB!Tick, mailbox
<1>3. MB!Owed(m, h)' => MB!Owed(m, h)
  BY <1>1, <1>2, OwesNothingNew DEF Step, TypeInv
<1>4. /\ registered' = registered /\ DOMAIN conn' = DOMAIN conn
      /\ \A j \in DOMAIN conn :
           /\ conn'[j].projects = conn[j].projects /\ conn'[j].todo = conn[j].todo
           /\ conn'[j].sent = conn[j].sent /\ conn'[j].pc = conn[j].pc
           /\ conn'[j].env = conn[j].env /\ conn'[j].recipients = conn[j].recipients
           /\ conn'[j].link = "up" => conn[j].link = "up"
  BY StepFacts, SMTT(60) DEF Ack, ClientVanishes, HubNotices, Sweep, Tick, vars, Connection
<1>5. registered[h] \in DOMAIN conn /\ conn[registered[h]].link = "up"
  BY <1>4, StepFacts
<1>6. QED
  BY <1>2, <1>3, <1>4, <1>5, StepFacts, StillComing DEF Step

LEMMA NoGapInductive == TypeInv /\ TypeInv' /\ NoGap /\ [Next]_vars => NoGap'
<1> SUFFICES ASSUME TypeInv, TypeInv', NoGap, [Next]_vars,
                    NEW h \in Host, NEW m \in Envelopes, Waiting(m, h)'
             PROVE  Coming(m, h)'
  BY DEF NoGap, Coming
<1>1. Step(m, h)
  BY DEF Step
<1>2. CASE Restart
  BY <1>1, <1>2, StepFacts DEF Restart
<1>3. CASE \E k \in Host, ps \in SUBSET Project : Hello(k, ps)
  BY <1>1, <1>3, HelloNoGap
<1>4. CASE \E i \in DOMAIN conn : HandlerStep(i)
  BY <1>1, <1>4, HandlerNoGap
<1>5. CASE \E i \in DOMAIN conn, env \in Envelopes : Post(i, env)
  BY <1>1, <1>5, PostNoGap
<1>6. CASE \E i \in DOMAIN conn, ps \in SUBSET Project : Announce(i, ps)
  BY <1>1, <1>6, AnnounceNoGap
<1>7. QED
  BY <1>1, <1>2, <1>3, <1>4, <1>5, <1>6, LessNoGap DEF Next

(***************************************************************************)
(* No message falls between the drain and the live push, for any number of  *)
(* hosts, projects, envelopes and connections.                              *)
(***************************************************************************)
THEOREM NothingInTheGap == Spec => []NoGap
<1>1. Init => NoGap
  BY DEF Init, NoGap, Waiting
<1>2. QED
  BY <1>1, TypeInvInit, TypeInvInductive, NoGapInductive, PTL DEF Spec
----------------------------------------------------------------------------
(* HeldIsKept *)

(***************************************************************************)
(* The instance of Mailbox counts as the library does.                      *)
(***************************************************************************)
LEMMA SameCardinality == \A S : MB!Cardinality(S) = Cardinality(S)
BY DEF Cardinality, MB!Cardinality

(***************************************************************************)
(* A set of naturals that is not empty has a least member.                  *)
(***************************************************************************)
LEMMA LeastNatural ==
  ASSUME NEW T, T \subseteq Nat, T # {}
  PROVE  \E x \in T : \A y \in T : x <= y
<1>1. PICK x \in T : \A y \in T : ~ (<<y, x>> \in OpToRel(<, Nat))
  BY NatLessThanWellFounded, WFMin
<1>2. \A y \in T : ~ (y < x)
  BY <1>1 DEF OpToRel
<1> QED
  BY <1>2
(***************************************************************************)
(* A row that the cap displaces leaves MaxPerProject newer rows of its own   *)
(* project behind: the newest row over the cap has only kept rows after it.  *)
(***************************************************************************)
LEMMA DisplacedByNewer ==
  ASSUME NEW rows \in SUBSET Envelopes, IsFiniteSet(rows), NEW p,
         NEW m \in MB!OverCap(rows, p)
  PROVE  Cardinality(MB!Newer(rows \ MB!OverCap(rows, p), m)) >= MaxPerProject
<1> DEFINE over == MB!OverCap(rows, p)
           kept == rows \ over
           late == {n \in over : n = m \/ MB!Older(m, n)}
           size(n) == Cardinality(MB!Newer(rows, n))
           sizes == {size(n) : n \in late}
<1>0. /\ \A k, n, x \in Envelopes :
           MB!Older(k, n) /\ MB!Older(n, x) => MB!Older(k, x)
      /\ \A n \in Envelopes : ~ MB!Older(n, n)
  BY HubAssumption DEF MB!Older, MB!EnvelopeType
<1>1. over \subseteq rows /\ \A n \in over : n.project = p /\ size(n) >= MaxPerProject
  BY SameCardinality DEF MB!OverCap
<1>2. \A n \in rows : IsFiniteSet(MB!Newer(rows, n)) /\ size(n) \in Nat
  <2>1. \A n \in rows : MB!Newer(rows, n) \subseteq rows
    BY DEF MB!Newer
  <2>2. QED
    BY <2>1, FS_Subset, FS_CardinalityType
<1>3. PICK n \in late : \A k \in late : size(n) <= size(k)
  <2>1. sizes \in SUBSET Nat
    BY <1>1, <1>2
  <2>2. m \in late /\ size(m) \in sizes
    OBVIOUS
  <2> HIDE DEF sizes
  <2>3. PICK c \in sizes : \A d \in sizes : c <= d
    BY <2>1, <2>2, LeastNatural
  <2>4. QED
    BY <2>3 DEF sizes
<1>4. ASSUME NEW x \in MB!Newer(rows, n)
      PROVE  x \in MB!Newer(kept, m)
  <2>1. /\ x \in rows /\ n \in rows /\ m \in rows
        /\ x.project = p /\ n.project = p /\ m.project = p /\ MB!Older(n, x)
    BY <1>1 DEF MB!Newer
  <2>2. MB!Older(m, x)
    BY <1>0, <2>1
  <2>3. MB!Newer(rows, x) \subseteq MB!Newer(rows, n)
    BY <1>0, <2>1 DEF MB!Newer
  <2>4. x \notin MB!Newer(rows, x)
    BY <1>0, <2>1 DEF MB!Newer
  <2>5. size(x) <= size(n) /\ size(x) # size(n)
    BY <1>2, <2>1, <2>3, <2>4, FS_Subset
  <2>6. x \notin over
    BY <1>2, <1>3, <2>1, <2>2, <2>5
  <2>7. QED
    BY <2>1, <2>2, <2>6 DEF MB!Newer
<1>5. IsFiniteSet(MB!Newer(kept, m))
  <2>1. MB!Newer(kept, m) \subseteq rows
    BY DEF MB!Newer
  <2>2. QED
    BY <2>1, FS_Subset
<1>6. /\ Cardinality(MB!Newer(rows, n)) <= Cardinality(MB!Newer(kept, m))
      /\ Cardinality(MB!Newer(kept, m)) \in Nat
  BY <1>4, <1>5, FS_Subset, FS_CardinalityType
<1>7. QED
  BY <1>1, <1>2, <1>6, HubAssumption

\* The envelopes posted so far, those of closed connections included.
Posted == {n \in Envelopes : \E i \in DOMAIN conn : n.msg_id \in conn[i].posted}

\* What was stored for host h is there for it, or has been settled.
Kept(m, h) ==
  \/ MB!Owed(m, h)
  \/ <<m.msg_id, h>> \in acks
  \/ MB!ExpiresAt(m) <= now
  \/ Cardinality(MB!Newer(Posted, m)) >= MaxPerProject

(***************************************************************************)
(* Whoever posts an envelope for a host may rely on it while its handler     *)
(* pushes it: nothing is stored that was not posted, and what is pushed is   *)
(* kept for its target.                                                     *)
(***************************************************************************)
HeldInv ==
  /\ IsFiniteSet(Posted) /\ messages \subseteq Posted
  /\ \A i \in DOMAIN conn :
       conn[i].pc = "pushing" /\ conn[i].env.target_kind = "host" =>
         Kept(conn[i].env, conn[i].env.target_host)

(***************************************************************************)
(* Newer envelopes that are stored have been posted, and what was posted     *)
(* stays so.                                                                *)
(***************************************************************************)
LEMMA MorePosted ==
  ASSUME NEW few, NEW many, few \subseteq many, IsFiniteSet(many), NEW m,
         Cardinality(MB!Newer(few, m)) >= MaxPerProject
  PROVE  Cardinality(MB!Newer(many, m)) >= MaxPerProject
<1>1. MB!Newer(few, m) \subseteq MB!Newer(many, m) /\ MB!Newer(many, m) \subseteq many
  BY DEF MB!Newer
<1>2. /\ IsFiniteSet(MB!Newer(many, m)) /\ IsFiniteSet(MB!Newer(few, m))
      /\ Cardinality(MB!Newer(few, m)) <= Cardinality(MB!Newer(many, m))
  BY <1>1, FS_Subset
<1>3. QED
  BY <1>2, FS_CardinalityType, HubAssumption

(***************************************************************************)
(* What has just been put for its target is kept for it.                    *)
(***************************************************************************)
LEMMA PutKeeps ==
  ASSUME MB!TypeOK, Keyed(Envelopes), NEW env \in Envelopes, MB!Put(env),
         env.target_kind = "host", messages' \subseteq Posted', IsFiniteSet(Posted')
  PROVE  Kept(env, env.target_host)'
<1> DEFINE rows == MB!Inserted(env)
           over == MB!OverCap(rows, env.project)
<1>1. messages' = rows \ over
  BY DEF MB!Put, MB!Delete
<1>2. rows \in SUBSET Envelopes /\ IsFiniteSet(rows) /\ env \in rows
  <2>1. IsFiniteSet(messages \cup {env})
    BY FS_AddElement, SameFinite DEF MB!TypeOK
  <2>2. QED
    BY <2>1, SameFinite DEF MB!Inserted, MB!Ids, MB!TypeOK, Keyed
<1>3. CASE env \in over
  <2>1. Cardinality(MB!Newer(messages', env)) >= MaxPerProject
    BY <1>1, <1>2, <1>3, DisplacedByNewer
  <2>2. QED
    BY <2>1, MorePosted DEF Kept
<1>4. CASE env \notin over
  <2>1. env \in messages' /\ MB!Addressed(env, env.target_host)'
    BY <1>1, <1>2, <1>4 DEF MB!Addressed
  <2>2. now' \in Nat /\ MB!ExpiresAt(env) \in Nat
    BY HubAssumption DEF MB!Put, MB!TypeOK, MB!ExpiresAt, MB!EnvelopeType
  <2>3. MB!ExpiresAt(env) > now' \/ MB!ExpiresAt(env) <= now'
    BY <2>2
  <2>4. QED
    BY <2>1, <2>3 DEF Kept, MB!Owed, MB!ExpiresAt, MB!Addressed
<1>5. QED
  BY <1>3, <1>4

(***************************************************************************)
(* The mailbox under a step: what is kept for h stays kept, when whatever    *)
(* it stores has been posted.                                               *)
(***************************************************************************)
LEMMA KeptStays ==
  ASSUME MB!TypeOK, Keyed(Envelopes), NEW m \in Envelopes, NEW h,
         Kept(m, h), Posted \subseteq Posted', messages' \subseteq Posted',
         IsFiniteSet(Posted'),
         \/ \E env \in Envelopes : MB!Put(env)
         \/ \E mid \in MB!Ids(Envelopes), k \in Host : MB!Ack(mid, k)
         \/ MB!SweepExpired
         \/ MB!Tick
         \/ UNCHANGED mailbox
  PROVE  Kept(m, h)'
<1>0. MB!ExpiresAt(m) \in Nat /\ now \in Nat
  BY HubAssumption DEF MB!ExpiresAt, MB!EnvelopeType, MB!TypeOK
<1>1. CASE Cardinality(MB!Newer(Posted, m)) >= MaxPerProject
  BY <1>1, MorePosted DEF Kept
<1>2. CASE /\ ~ (Cardinality(MB!Newer(Posted, m)) >= MaxPerProject)
           /\ ~ (MB!ExpiresAt(m) <= now)
  <2>0. <<m.msg_id, h>> \in acks \/ MB!Owed(m, h)
    BY <1>2 DEF Kept
  <2>1. ASSUME NEW env \in Envelopes, MB!Put(env)
        PROVE  Kept(m, h)'
    <3> DEFINE rows == MB!Inserted(env)
               over == MB!OverCap(rows, env.project)
    <3>1. /\ messages' = rows \ over /\ now' = now
          /\ acks' = {a \in acks : a[1] \notin MB!Ids(over)}
      BY <2>1 DEF MB!Put, MB!Delete
    <3>2. rows \in SUBSET Envelopes /\ IsFiniteSet(rows)
      <4>1. IsFiniteSet(messages \cup {env})
        BY FS_AddElement, SameFinite DEF MB!TypeOK
      <4>2. QED
        BY <4>1, SameFinite DEF MB!Inserted, MB!TypeOK
    <3>3. CASE m \in over
      <4>1. Cardinality(MB!Newer(messages', m)) >= MaxPerProject
        BY <3>1, <3>2, <3>3, DisplacedByNewer
      <4>2. QED
        BY <4>1, MorePosted DEF Kept
    <3>4. CASE m \notin over
      <4>1. m.msg_id \notin MB!Ids(over)
        <5>1. over \subseteq Envelopes
          BY <3>2 DEF MB!OverCap
        <5>2. QED
          BY <3>4, <5>1 DEF MB!Ids, Keyed
      <4>2. <<m.msg_id, h>> \in acks => <<m.msg_id, h>> \in acks'
        BY <3>1, <4>1
      <4>3. MB!Owed(m, h) => MB!Owed(m, h)'
        BY <3>1, <3>4 DEF MB!Owed, MB!Inserted, MB!ExpiresAt, MB!Addressed
      <4>4. QED
        BY <2>0, <4>2, <4>3 DEF Kept
    <3>5. QED
      BY <3>3, <3>4
  <2>2. ASSUME NEW mid, NEW k, MB!Ack(mid, k)
        PROVE  Kept(m, h)'
    BY <2>0, <2>2 DEF MB!Ack, MB!Owed, MB!ExpiresAt, MB!Addressed, Kept
  <2>3. CASE MB!SweepExpired
    <3> DEFINE swept == {n \in messages : MB!ExpiresAt(n) <= now}
    <3>1. /\ messages' = messages \ swept /\ now' = now
          /\ acks' = {a \in acks : a[1] \notin MB!Ids(swept)}
      BY <2>3 DEF MB!SweepExpired, MB!Delete
    <3>2. m \notin swept /\ m.msg_id \notin MB!Ids(swept)
      BY <1>2 DEF MB!TypeOK, Keyed, MB!Ids
    <3>3. QED
      BY <2>0, <3>1, <3>2 DEF MB!Owed, MB!ExpiresAt, MB!Addressed, Kept
  <2>4. CASE MB!Tick
    <3>1. now' \in Nat /\ messages' = messages /\ acks' = acks
      BY <2>4, HubAssumption DEF MB!Tick
    <3>2. MB!ExpiresAt(m) > now' \/ MB!ExpiresAt(m) <= now'
      BY <1>0, <3>1
    <3>3. QED
      BY <2>0, <3>1, <3>2 DEF MB!Owed, MB!ExpiresAt, MB!Addressed, Kept
  <2>5. CASE UNCHANGED mailbox
    BY <2>0, <2>5 DEF mailbox, MB!Owed, MB!ExpiresAt, MB!Addressed, Kept
  <2>6. QED
    BY <2>1, <2>2, <2>3, <2>4, <2>5
<1>3. CASE MB!ExpiresAt(m) <= now
  <2>1. now' \in Nat /\ now <= now'
    BY <1>0, HubAssumption
       DEF MB!Put, MB!Delete, MB!Ack, MB!SweepExpired, MB!Tick, mailbox
  <2>2. QED
    BY <1>0, <1>3, <2>1 DEF Kept, MB!ExpiresAt
<1>4. QED
  BY <1>1, <1>2, <1>3
(***************************************************************************)
(* No step forgets a connection.                                            *)
(***************************************************************************)
LEMMA ConnectionsStay ==
  ASSUME TypeInv, [Next]_vars
  PROVE  DOMAIN conn \subseteq DOMAIN conn'
<1>1. conn \in Seq(Connection)
  BY DEF TypeInv, ConnOK
<1>2. ASSUME NEW h \in Host, NEW ps \in SUBSET Project, Hello(h, ps)
      PROVE  DOMAIN conn \subseteq DOMAIN conn'
  <2> DEFINE c == Drain(Fresh(h), ps)
  <2>1. conn' = Append(conn, c)
    BY <1>2 DEF Hello
  <2> HIDE DEF c
  <2>2. QED
    BY <1>1, <2>1
<1>3. ASSUME NEW i \in DOMAIN conn, HandlerStep(i)
      PROVE  DOMAIN conn \subseteq DOMAIN conn'
  BY <1>3 DEF HandlerStep, DrainSend, DrainDone, Push, PostDone, Close
<1>4. CASE \E i \in DOMAIN conn :
             \/ \E env \in Envelopes : Post(i, env)
             \/ \E mid \in MB!Ids(Envelopes) : Ack(i, mid)
             \/ \E ps \in SUBSET Project : Announce(i, ps)
             \/ ClientVanishes(i) \/ HubNotices(i)
  BY <1>4 DEF Post, Ack, Announce, ClientVanishes, HubNotices
<1>5. CASE Restart \/ Sweep \/ Tick \/ UNCHANGED vars
  BY <1>5 DEF Restart, Sweep, Tick, vars
<1>6. QED
  BY <1>2, <1>3, <1>4, <1>5 DEF Next

(***************************************************************************)
(* A step other than a post leaves alone what was posted and what is pushed, *)
(* but for a push that ends; a new connection has done neither.             *)
(***************************************************************************)
LEMMA PushesLast ==
  ASSUME TypeInv, [Next]_vars, NEW i \in DOMAIN conn',
         ~ \E j \in DOMAIN conn, env \in Envelopes : Post(j, env)
  PROVE  /\ i \in DOMAIN conn =>
              /\ conn'[i].posted = conn[i].posted
              /\ conn'[i].pc = "pushing" =>
                   conn[i].pc = "pushing" /\ conn'[i].env = conn[i].env
         /\ i \notin DOMAIN conn => conn'[i].posted = {} /\ conn'[i].pc # "pushing"
<1>0. conn \in Seq(Connection) /\ \A j \in DOMAIN conn : conn[j] \in Connection
  BY DEF TypeInv, ConnOK
<1>1. ASSUME NEW h \in Host, NEW ps \in SUBSET Project, Hello(h, ps)
      PROVE  /\ i \in DOMAIN conn => conn'[i] = conn[i]
             /\ i \notin DOMAIN conn => conn'[i].posted = {} /\ conn'[i].pc # "pushing"
  <2> DEFINE c == Drain(Fresh(h), ps)
  <2>1. conn' = Append(conn, c) /\ c.posted = {} /\ c.pc = "draining"
    BY <1>1 DEF Hello, Drain, Fresh
  <2> HIDE DEF c
  <2>2. /\ DOMAIN conn' = DOMAIN conn \cup {Len(conn) + 1}
        /\ conn'[Len(conn) + 1] = c
        /\ \A j \in DOMAIN conn : conn'[j] = conn[j]
    BY <1>0, <2>1
  <2>3. QED
    BY <2>1, <2>2
<1>2. ASSUME NEW j \in DOMAIN conn, HandlerStep(j)
      PROVE  /\ DOMAIN conn' = DOMAIN conn
             /\ conn'[i].posted = conn[i].posted
             /\ conn'[i].pc = "pushing" =>
                  conn[i].pc = "pushing" /\ conn'[i].env = conn[i].env
  <2>1. DOMAIN conn' = DOMAIN conn
    BY <1>2 DEF HandlerStep, DrainSend, DrainDone, Push, PostDone, Close
  <2>2. conn[i] \in Connection
    BY <1>0, <2>1
  <2>3. CASE DrainSend(j) \/ DrainDone(j) \/ PostDone(j) \/ Close(j)
    <3>1. CASE DrainSend(j)
      BY <2>1, <2>2, <3>1 DEF DrainSend, Connection
    <3>2. CASE DrainDone(j) \/ PostDone(j)
      BY <2>1, <2>2, <3>2 DEF DrainDone, PostDone, Connection
    <3>3. CASE Close(j)
      BY <2>1, <2>2, <3>3 DEF Close, Connection
    <3>4. QED
      BY <2>3, <3>1, <3>2, <3>3
  <2>4. CASE Push(j)
    <3>1. PICK r \in conn[j].recipients :
            conn' = [conn EXCEPT ![j].recipients = @ \ {r},
                                 ![r].sent = Carried(r, conn[j].env)]
      BY <2>4 DEF Push
    <3>2. QED
      BY <2>1, <2>2, <3>1 DEF Connection
  <2>5. QED
    BY <1>2, <2>1, <2>3, <2>4 DEF HandlerStep
<1>3. ASSUME NEW j \in DOMAIN conn,
             \/ \E mid \in MB!Ids(Envelopes) : Ack(j, mid)
             \/ \E ps \in SUBSET Project : Announce(j, ps)
             \/ ClientVanishes(j) \/ HubNotices(j)
      PROVE  /\ DOMAIN conn' = DOMAIN conn
             /\ conn'[i].posted = conn[i].posted
             /\ conn'[i].pc = "pushing" =>
                  conn[i].pc = "pushing" /\ conn'[i].env = conn[i].env
  <2>1. DOMAIN conn' = DOMAIN conn
    BY <1>3 DEF Ack, Announce, ClientVanishes, HubNotices
  <2>2. conn[i] \in Connection
    BY <1>0, <2>1
  <2>3. CASE \E mid \in MB!Ids(Envelopes) : Ack(j, mid)
    BY <2>1, <2>3 DEF Ack
  <2>4. CASE \E ps \in SUBSET Project : Announce(j, ps)
    <3>1. PICK ps : conn' = [conn EXCEPT ![j] = Drain(conn[j], ps)]
      BY <2>4 DEF Announce
    <3>2. i = j => /\ conn'[i].posted = conn[i].posted
                   /\ conn'[i].pc = "draining"
      BY <2>1, <2>2, <3>1 DEF Drain, Connection
    <3>3. QED
      BY <2>1, <3>1, <3>2
  <2>5. CASE ClientVanishes(j) \/ HubNotices(j)
    BY <2>1, <2>2, <2>5 DEF ClientVanishes, HubNotices, Connection
  <2>6. QED
    BY <1>3, <2>1, <2>3, <2>4, <2>5
<1>4. CASE Restart
  <2>1. DOMAIN conn' = DOMAIN conn /\ conn[i] \in Connection
    BY <1>0, <1>4 DEF Restart
  <2>2. conn'[i].posted = conn[i].posted /\ conn'[i].pc = "closed"
    BY <1>4, <2>1 DEF Restart, Connection
  <2>3. QED
    BY <2>1, <2>2
<1>5. CASE Sweep \/ Tick \/ UNCHANGED vars
  BY <1>5 DEF Sweep, Tick, vars
<1>6. QED
  <2>1. \A j : HandlerStep(j) => j \in DOMAIN conn
    BY DEF HandlerStep
  <2>2. QED
    BY <1>1, <1>2, <1>3, <1>4, <1>5, <2>1 DEF Next

(***************************************************************************)
(* Every step of the server is a step of its mailbox.                       *)
(***************************************************************************)
LEMMA MailboxSteps ==
  ASSUME TypeInv, [Next]_vars
  PROVE  \/ \E i \in DOMAIN conn, env \in Envelopes : Post(i, env) /\ MB!Put(env)
         \/ \E mid \in MB!Ids(Envelopes), k \in Host : MB!Ack(mid, k)
         \/ MB!SweepExpired
         \/ MB!Tick
         \/ UNCHANGED mailbox
<1>1. \A i \in DOMAIN conn : conn[i].host \in Host
  <2>1. \A i \in DOMAIN conn : conn[i] \in Connection
    BY DEF TypeInv, ConnOK
  <2>2. QED
    BY <2>1 DEF Connection
<1>2. ASSUME NEW i \in DOMAIN conn, HandlerStep(i)
      PROVE  UNCHANGED mailbox
  BY <1>2 DEF HandlerStep, DrainSend, DrainDone, Push, PostDone, Close
<1>3. ASSUME NEW i \in DOMAIN conn, NEW mid \in MB!Ids(Envelopes), Ack(i, mid)
      PROVE  \E k \in Host : MB!Ack(mid, k)
  BY <1>1, <1>3 DEF Ack
<1>4. ASSUME NEW i \in DOMAIN conn, NEW env \in Envelopes, Post(i, env)
      PROVE  Post(i, env) /\ MB!Put(env)
  BY <1>4 DEF Post
<1>5. CASE \/ \E h \in Host, ps \in SUBSET Project : Hello(h, ps)
           \/ \E i \in DOMAIN conn, ps \in SUBSET Project : Announce(i, ps)
           \/ \E i \in DOMAIN conn : ClientVanishes(i) \/ HubNotices(i)
           \/ Restart \/ UNCHANGED vars
  BY <1>5 DEF Hello, Announce, ClientVanishes, HubNotices, Restart, vars, mailbox
<1>6. QED
  BY <1>2, <1>3, <1>4, <1>5 DEF Next, Sweep, Tick
(***************************************************************************)
(* A post adds its envelope to what was posted, and only its own handler    *)
(* begins to push.                                                          *)
(***************************************************************************)
LEMMA PostPushes ==
  ASSUME TypeInv, NEW i \in DOMAIN conn, NEW env \in Envelopes, Post(i, env)
  PROVE  /\ DOMAIN conn' = DOMAIN conn
         /\ conn'[i].posted = conn[i].posted \cup {env.msg_id}
         /\ conn'[i].env = env
         /\ \A j \in DOMAIN conn \ {i} : conn'[j] = conn[j]
<1>1. conn[i] \in Connection
  BY DEF TypeInv, ConnOK
<1>2. QED
  BY <1>1 DEF Post, Connection

(***************************************************************************)
(* What was posted: each step adds at most the envelope it posts.           *)
(***************************************************************************)
LEMMA PostedGrows ==
  ASSUME TypeInv, [Next]_vars, Keyed(Envelopes)
  PROVE  /\ Posted \subseteq Posted'
         /\ \/ Posted' = Posted
            \/ \E env \in Envelopes : Posted' = Posted \cup {env}
         /\ \A i \in DOMAIN conn, env \in Envelopes : Post(i, env) => env \in Posted'
<1>1. ASSUME NEW i \in DOMAIN conn, NEW env \in Envelopes, Post(i, env)
      PROVE  Posted' = Posted \cup {env}
  <2>1. /\ DOMAIN conn' = DOMAIN conn
        /\ conn'[i].posted = conn[i].posted \cup {env.msg_id}
        /\ \A j \in DOMAIN conn \ {i} : conn'[j] = conn[j]
    BY <1>1, PostPushes
  <2>2. \A n \in Envelopes : n \in Posted' => n \in Posted \cup {env}
    BY <2>1 DEF Posted, Keyed
  <2>3. \A n \in Envelopes : n \in Posted \cup {env} => n \in Posted'
    BY <2>1 DEF Posted
  <2>4. Posted \subseteq Envelopes /\ Posted' \subseteq Envelopes
    BY DEF Posted
  <2>5. QED
    BY <2>2, <2>3, <2>4
<1>2. CASE ~ \E i \in DOMAIN conn, env \in Envelopes : Post(i, env)
  <2>1. DOMAIN conn \subseteq DOMAIN conn'
    BY ConnectionsStay
  <2>2. Posted' = Posted
    BY <1>2, <2>1, PushesLast DEF Posted
  <2>3. QED
    BY <1>2, <2>2
<1>3. QED
  BY <1>1, <1>2
(***************************************************************************)
(* HeldInv is inductive, together with the types.                           *)
(***************************************************************************)
LEMMA HeldInductive ==
  ASSUME Keyed(Envelopes), TypeInv, TypeInv', HeldInv, [Next]_vars
  PROVE  HeldInv'
<1>1. /\ IsFiniteSet(Posted') /\ Posted \subseteq Posted'
      /\ \A i \in DOMAIN conn, env \in Envelopes : Post(i, env) => env \in Posted'
  BY PostedGrows, FS_AddElement DEF HeldInv
<1>2. messages' \subseteq Posted'
  <2>1. ASSUME NEW i \in DOMAIN conn, NEW env \in Envelopes, Post(i, env), MB!Put(env)
        PROVE  messages' \subseteq Posted'
    <3>1. messages' \subseteq messages \cup {env}
      BY <2>1 DEF MB!Put, MB!Delete, MB!Inserted
    <3>2. QED
      BY <1>1, <2>1, <3>1 DEF HeldInv
  <2>2. CASE \/ \E mid \in MB!Ids(Envelopes), k \in Host : MB!Ack(mid, k)
             \/ MB!SweepExpired
             \/ MB!Tick
             \/ UNCHANGED mailbox
    <3>1. messages' \subseteq messages
      BY <2>2 DEF MB!Ack, MB!SweepExpired, MB!Delete, MB!Tick, mailbox
    <3>2. QED
      BY <1>1, <3>1 DEF HeldInv
  <2>3. QED
    BY <2>1, <2>2, MailboxSteps
<1>3. ASSUME NEW m \in Envelopes, NEW h, Kept(m, h)
      PROVE  Kept(m, h)'
  <2>1. MB!TypeOK
    BY DEF TypeInv
  <2>2. QED
    BY <1>1, <1>2, <1>3, <2>1, MailboxSteps, KeptStays
<1>4. ASSUME NEW i \in DOMAIN conn', conn'[i].pc = "pushing",
             conn'[i].env.target_kind = "host"
      PROVE  Kept(conn[i].env, conn[i].env.target_host)'
  <2>1. ASSUME NEW m \in Envelopes, conn'[i].env = m, Kept(m, m.target_host)'
        PROVE  Kept(conn[i].env, conn[i].env.target_host)'
    BY <2>1 DEF Kept, MB!Owed, MB!ExpiresAt, MB!Addressed, MB!Newer, MB!Older
  <2>2. ASSUME i \in DOMAIN conn, conn[i].pc = "pushing", conn'[i].env = conn[i].env
        PROVE  Kept(conn[i].env, conn[i].env.target_host)'
    <3> DEFINE m == conn[i].env
    <3>1. m \in Envelopes /\ m.target_kind = "host"
      BY <1>4, <2>2 DEF TypeInv, ConnOK, Sound
    <3>2. Kept(m, m.target_host)
      BY <2>2, <3>1 DEF HeldInv
    <3>3. \A n \in Envelopes : Kept(n, n.target_host) => Kept(n, n.target_host)'
      BY <1>3
    <3>4. QED
      BY <2>1, <2>2, <3>1, <3>2, <3>3
  <2>3. CASE \E j \in DOMAIN conn, env \in Envelopes : Post(j, env)
    <3>1. PICK j \in DOMAIN conn, env \in Envelopes : Post(j, env)
      BY <2>3
    <3>2. /\ DOMAIN conn' = DOMAIN conn /\ conn'[j].env = env
          /\ \A k \in DOMAIN conn \ {j} : conn'[k] = conn[k]
      BY <3>1, PostPushes
    <3>3. CASE i # j
      BY <1>4, <2>2, <3>2, <3>3
    <3>4. CASE i = j
      <4>1. env.target_kind = "host" /\ MB!Put(env)
        BY <1>4, <3>1, <3>2, <3>4 DEF Post
      <4>2. Kept(env, env.target_host)'
        BY <1>1, <1>2, <4>1, PutKeeps DEF TypeInv
      <4>3. QED
        BY <2>1, <3>2, <3>4, <4>2
    <3>5. QED
      BY <3>3, <3>4
  <2>4. CASE ~ \E j \in DOMAIN conn, env \in Envelopes : Post(j, env)
    <3>1. i \in DOMAIN conn /\ conn[i].pc = "pushing" /\ conn'[i].env = conn[i].env
      BY <1>4, <2>4, PushesLast
    <3>2. QED
      BY <2>2, <3>1
  <2>5. QED
    BY <2>3, <2>4
<1>5. QED
  BY <1>1, <1>2, <1>4 DEF HeldInv

(***************************************************************************)
(* A held status is true whenever it is sent, whatever happened to the       *)
(* target and to the mailbox while the message was pushed, if no two        *)
(* envelopes share a msg_id (app.py makes each from a new uuid4).            *)
(***************************************************************************)
THEOREM HeldStaysHeld ==
  ASSUME Keyed(Envelopes)
  PROVE  Spec => HeldIsKept
<1>1. Init => HeldInv
  <2> SUFFICES ASSUME Init PROVE HeldInv
    OBVIOUS
  <2>1. DOMAIN conn = {} /\ messages = {}
    BY DEF Init, MB!Init
  <2>2. Posted = {}
    BY <2>1 DEF Posted
  <2>3. QED
    BY <2>1, <2>2, FS_EmptySet DEF HeldInv
<1>2. TypeInv /\ TypeInv' /\ HeldInv /\ [Next]_vars => HeldInv'
  BY HeldInductive
<1>3. ASSUME TypeInv, HeldInv, NEW i \in DOMAIN conn, PostDone(i),
             HeldStates(conn[i].env) # {}
      PROVE  \/ MB!Owed(conn[i].env, conn[i].env.target_host)
             \/ <<conn[i].env.msg_id, conn[i].env.target_host>> \in acks
             \/ MB!ExpiresAt(conn[i].env) <= now
             \/ Outnumbered(conn[i].env)
  <2>1. conn[i].pc = "pushing" /\ conn[i].env.target_kind = "host"
    BY <1>3 DEF PostDone, HeldStates
  <2>2. Kept(conn[i].env, conn[i].env.target_host)
    BY <1>3, <2>1 DEF HeldInv
  <2>3. QED
    BY <2>2 DEF Kept, Outnumbered, Posted
<1>4. TypeInv /\ HeldInv /\ [Next]_vars =>
        [\A i \in DOMAIN conn :
           LET env == conn[i].env
           IN PostDone(i) /\ HeldStates(env) # {} =>
                \/ MB!Owed(env, env.target_host)
                \/ <<env.msg_id, env.target_host>> \in acks
                \/ MB!ExpiresAt(env) <= now
                \/ Outnumbered(env)]_vars
  BY <1>3
<1>5. QED
  BY <1>1, <1>2, <1>4, TypeInvInit, TypeInvInductive, PTL DEF Spec, HeldIsKept

----------------------------------------------------------------------------
(* The server implements the mailbox *)

(***************************************************************************)
(* Handlers, sweeper and restarts only ever put, acknowledge or sweep: no   *)
(* interleaving of them is seen in the two tables, and what MailboxProofs   *)
(* proves of the mailbox alone is true of it under the server.              *)
(***************************************************************************)
THEOREM HubIsItsMailbox == Spec => KeepsMailbox
<1>1. Init => MB!Init
  BY DEF Init
<1>2. TypeInv /\ [Next]_vars => [MB!Next]_MB!vars
  <2> SUFFICES ASSUME TypeInv, [Next]_vars
               PROVE  [MB!Next]_MB!vars
    OBVIOUS
  <2>1. CASE \E i \in DOMAIN conn, env \in Envelopes : Post(i, env) /\ MB!Put(env)
    BY <2>1 DEF MB!Next
  <2>2. ASSUME NEW mid \in MB!Ids(Envelopes), NEW k \in Host, MB!Ack(mid, k)
        PROVE  MB!Next
    BY <2>2 DEF MB!Ids, MB!Next
  <2>3. CASE MB!SweepExpired \/ MB!Tick
    BY <2>3 DEF MB!Next
  <2>4. CASE UNCHANGED mailbox
    BY <2>4 DEF mailbox, MB!vars
  <2>5. QED
    BY <2>1, <2>2, <2>3, <2>4, MailboxSteps
<1>3. QED
  BY <1>1, <1>2, TypeInvInit, TypeInvInductive, PTL DEF Spec, KeepsMailbox, MB!Spec
=============================================================================
