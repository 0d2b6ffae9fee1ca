----------------------------- MODULE LinkProofs -----------------------------
(***************************************************************************)
(* Types of Link for any hosts, messages and room: with the lock of _flush  *)
(* a connection holds one frame more than it has room for at most, and the  *)
(* hub stores nothing that was not said and has nothing acknowledged that   *)
(* it did not store.                                                        *)
(*                                                                          *)
(* TypeOK is not inductive.  Where a message is stored or acknowledged only *)
(* its frame is at hand, so whatever is on its way must have been said, or  *)
(* stored, before; and a flush that waits still has the operation to pop,   *)
(* and is the only one that may have filled its connection.                 *)
(***************************************************************************)
EXTENDS Link, SequenceTheorems, WellFoundedInduction, TLAPS

\* What a ferry may have to tell the hub, and the hub to a ferry.
Backed == {Post(m) : m \in said} \cup {AckOf(m) : m \in stored} \cup {Announce}
Told == {Deliver(m) : m \in stored} \cup {Status(m) : m \in stored}

MailInv ==
  /\ said \subseteq Message /\ stored \subseteq said /\ acked \subseteq stored
  /\ breaks \in 0 .. MaxBreaks /\ announces \in 0 .. MaxAnnounces

FerryInv ==
  /\ outbox \in [Host -> Seq(Backed)]
  /\ sending \in [Host -> BOOLEAN]
  /\ client \in [Host -> {"down", "flushing", "listening"}]

WireInv ==
  /\ up \in [Host -> Seq(Backed)]
  /\ down \in [Host -> Seq(Told)]

HandlerInv ==
  /\ todo \in [Host -> SUBSET Told]
  /\ waits \in [Host -> Host \cup {NoHost}]
  /\ left \subseteq Told

\* A flush that waits has an operation to pop; no other fills its connection.
FlushInv ==
  \A h \in Host : /\ sending[h] => outbox[h] # <<>>
                  /\ Len(up[h]) <= IF sending[h] THEN Room + 1 ELSE Room

IInv == MailInv /\ FerryInv /\ WireInv /\ HandlerInv /\ FlushInv

----------------------------------------------------------------------------

(***************************************************************************)
(* What is sent concerns messages, and goes to a host.                      *)
(***************************************************************************)
LEMMA BackedTyped ==
  ASSUME MailInv
  PROVE  /\ Backed \subseteq Operation /\ Told \subseteq Frame
         /\ \A f \in Told : f.to \in Host /\ f.env \in stored
BY LinkAssumption DEF MailInv, Backed, Told, Operation, Frame, Post, AckOf, Announce,
                      Deliver, Status

LEMMA IInvTyped == IInv => TypeOK
<1> SUFFICES ASSUME IInv PROVE TypeOK
  OBVIOUS
<1>1. MailInv /\ FerryInv /\ WireInv /\ HandlerInv /\ FlushInv
  BY DEF IInv
<1>2. Backed \subseteq Operation /\ Told \subseteq Frame
  BY <1>1, BackedTyped
<1>3. Seq(Backed) \subseteq Seq(Operation) /\ Seq(Told) \subseteq Seq(Frame)
  BY <1>2
<1>4. \A h \in Host : Len(up[h]) <= Room + 1
  BY <1>1, LinkAssumption, LenProperties DEF FlushInv, WireInv
<1>5. QED
  BY <1>1, <1>2, <1>3, <1>4 DEF TypeOK, MailInv, FerryInv, WireInv, HandlerInv

LEMMA InitIInv == Init => IInv
<1> SUFFICES ASSUME Init PROVE IInv
  OBVIOUS
<1>1. MailInv
  BY LinkAssumption DEF Init, MailInv
<1>2. FerryInv /\ WireInv /\ HandlerInv
  BY DEF Init, FerryInv, WireInv, HandlerInv
<1>3. FlushInv
  BY LinkAssumption DEF Init, FlushInv
<1>4. QED
  BY <1>1, <1>2, <1>3 DEF IInv
----------------------------------------------------------------------------
(* Steps *)

(***************************************************************************)
(* A frame stays in order while messages are said and stored.               *)
(***************************************************************************)
LEMMA StaysBacked ==
  ASSUME said \subseteq said', stored \subseteq stored'
  PROVE  /\ Backed \subseteq Backed' /\ Told \subseteq Told'
         /\ Seq(Backed) \subseteq Seq(Backed') /\ Seq(Told) \subseteq Seq(Told')
<1>1. Backed \subseteq Backed' /\ Told \subseteq Told'
  BY DEF Backed, Told
<1>2. QED
  BY <1>1

LEMMA DrainTold ==
  ASSUME NEW h
  PROVE  Drain(h) \subseteq Told
BY DEF Drain, Pending, Told

LEMMA HeadTail ==
  ASSUME NEW S, NEW s \in Seq(S), s # <<>>
  PROVE  /\ Head(s) \in S /\ Tail(s) \in Seq(S)
         /\ Len(Tail(s)) = Len(s) - 1 /\ Len(s) \in Nat \ {0}
BY HeadTailProperties, EmptySeq, LenProperties

(***************************************************************************)
(* Something is queued for host h and nothing is written.                   *)
(***************************************************************************)
LEMMA Queues ==
  ASSUME IInv, NEW h \in Host, NEW more \in Seq(Backed'), MailInv',
         said \subseteq said', stored \subseteq stored',
         outbox' = [outbox EXCEPT ![h] = @ \o more],
         UNCHANGED <<sending, client, up, handlers>>,
         down' = down \/ \E k \in Host : down[k] # <<>> /\ down' = [down EXCEPT ![k] = Tail(@)]
  PROVE  IInv'
<1>1. /\ Seq(Backed) \subseteq Seq(Backed') /\ Seq(Told) \subseteq Seq(Told')
      /\ Told \subseteq Told'
  BY StaysBacked
<1>2. /\ outbox \in [Host -> Seq(Backed)] /\ down \in [Host -> Seq(Told)]
      /\ up \in [Host -> Seq(Backed)] /\ MailInv /\ FerryInv /\ HandlerInv /\ FlushInv
  BY DEF IInv, FerryInv, WireInv
<1>3. \A k \in Host : outbox[k] \in Seq(Backed')
  BY <1>1, <1>2
<1>4. outbox[h] \o more \in Seq(Backed') /\ (outbox[h] # <<>> => outbox[h] \o more # <<>>)
  <2>1. outbox[h] \in Seq(Backed')
    BY <1>3
  <2>2. /\ outbox[h] \o more \in Seq(Backed')
        /\ Len(outbox[h] \o more) = Len(outbox[h]) + Len(more)
    BY <2>1, ConcatProperties
  <2>3. QED
    BY <2>1, <2>2, EmptySeq, LenProperties
<1>5. outbox' \in [Host -> Seq(Backed')] /\ up' \in [Host -> Seq(Backed')]
  BY <1>1, <1>2, <1>3, <1>4
<1>6. down' \in [Host -> Seq(Told')]
  <2>1. ASSUME NEW k \in Host, down[k] # <<>>, down' = [down EXCEPT ![k] = Tail(@)]
        PROVE  down' \in [Host -> Seq(Told')]
    <3>1. Tail(down[k]) \in Seq(Told)
      BY <1>2, <2>1, HeadTail
    <3>2. QED
      BY <1>1, <1>2, <2>1, <3>1
  <2>2. QED
    BY <1>1, <1>2, <2>1
<1>7. FerryInv' /\ WireInv'
  BY <1>2, <1>5, <1>6 DEF FerryInv, WireInv
<1>8. HandlerInv'
  BY <1>1, <1>2 DEF HandlerInv, handlers
<1>9. FlushInv'
  BY <1>2, <1>4 DEF FlushInv
<1>10. QED
  BY <1>7, <1>8, <1>9 DEF IInv

(***************************************************************************)
(* What a session says, an announce and a received frame queue.             *)
(***************************************************************************)
LEMMA QueuesStep ==
  ASSUME IInv,
         \/ \E m \in Message : Say(m)
         \/ \E h \in Host : Announces(h)
         \/ \E h \in Host : Receive(h)
  PROVE  IInv'
<1>0. MailInv /\ outbox \in [Host -> Seq(Backed)] /\ down \in [Host -> Seq(Told)]
  BY DEF IInv, FerryInv, WireInv
<1>1. ASSUME NEW m \in Message, Say(m)
      PROVE  IInv'
  <2>1. /\ said' = said \cup {m} /\ stored' = stored
        /\ outbox' = [outbox EXCEPT ![m.from] = Append(@, Post(m))]
        /\ UNCHANGED <<sending, client, up, down, handlers>>
    BY <1>1 DEF Say, mailbox
  <2>2. MailInv' /\ m.from \in Host
    BY <1>0, <1>1, LinkAssumption DEF MailInv, Say, mailbox
  <2>3. Post(m) \in Backed' /\ <<Post(m)>> \in Seq(Backed')
    <3>1. Post(m) \in Backed'
      BY <2>1 DEF Backed
    <3>2. QED
      BY <3>1
  <2>4. outbox' = [outbox EXCEPT ![m.from] = @ \o <<Post(m)>>]
    <3>1. outbox[m.from] \in Seq(Backed')
      BY <1>0, <2>1, <2>2, StaysBacked
    <3>2. Append(outbox[m.from], Post(m)) = outbox[m.from] \o <<Post(m)>>
      BY <2>3, <3>1, AppendIsConcat
    <3>3. QED
      BY <2>1, <3>2
  <2>5. QED
    BY <2>1, <2>2, <2>3, <2>4, Queues
<1>2. ASSUME NEW h \in Host, Announces(h)
      PROVE  IInv'
  <2>1. /\ said' = said /\ stored' = stored
        /\ outbox' = [outbox EXCEPT ![h] = Append(@, Announce)]
        /\ UNCHANGED <<sending, client, up, down, handlers>>
    BY <1>2 DEF Announces, mailbox
  <2>2. MailInv'
    BY <1>0, <1>2, LinkAssumption DEF MailInv, Announces, mailbox
  <2>3. Announce \in Backed' /\ <<Announce>> \in Seq(Backed')
    <3>1. Announce \in Backed'
      BY DEF Backed
    <3>2. QED
      BY <3>1
  <2>4. outbox' = [outbox EXCEPT ![h] = @ \o <<Announce>>]
    <3>1. outbox[h] \in Seq(Backed')
      BY <1>0, <2>1, StaysBacked
    <3>2. Append(outbox[h], Announce) = outbox[h] \o <<Announce>>
      BY <2>3, <3>1, AppendIsConcat
    <3>3. QED
      BY <2>1, <3>2
  <2>5. QED
    BY <2>1, <2>2, <2>3, <2>4, Queues
<1>3. ASSUME NEW h \in Host, Receive(h)
      PROVE  IInv'
  <2>1. /\ UNCHANGED <<said, sending, client, up, handlers, mailbox, breaks, announces>>
        /\ down[h] # <<>> /\ down' = [down EXCEPT ![h] = Tail(@)]
        /\ outbox' = [outbox EXCEPT ![h] = @ \o Acks(Head(down[h]))]
    BY <1>3 DEF Receive, MayReceive
  <2>2. MailInv' /\ said' = said /\ stored' = stored
    BY <1>0, <2>1 DEF MailInv, mailbox
  <2>3. Head(down[h]) \in Told
    BY <1>0, <2>1, HeadTail
  <2>4. Acks(Head(down[h])) \in Seq(Backed')
    <3>1. AckOf(Head(down[h]).env) \in Backed'
      BY <1>0, <2>2, <2>3, BackedTyped DEF Backed
    <3>2. QED
      BY <3>1 DEF Acks
  <2>5. QED
    BY <2>1, <2>2, <2>4, Queues
<1>4. QED
  BY <1>1, <1>2, <1>3
(***************************************************************************)
(* The flush of a host: it fills its connection only by waiting, and pops    *)
(* what it wrote.                                                           *)
(***************************************************************************)
LEMMA FlushStep ==
  ASSUME IInv, NEW h \in Host, Connect(h) \/ Write(h) \/ SendReturns(h) \/ Listens(h)
  PROVE  IInv'
<1>0. /\ MailInv /\ FerryInv /\ WireInv /\ HandlerInv /\ FlushInv /\ Room \in Nat
      /\ outbox \in [Host -> Seq(Backed)] /\ up \in [Host -> Seq(Backed)]
  BY LinkAssumption DEF IInv, FerryInv, WireInv
<1>1. UNCHANGED <<said, mailbox, breaks, announces, down, left, waits>>
  BY DEF Connect, Write, SendReturns, Listens, handlers
<1>2. Backed' = Backed /\ Told' = Told
  BY <1>1 DEF Backed, Told, mailbox
<1>3. MailInv'
  BY <1>0, <1>1 DEF MailInv, mailbox
<1>4. CASE Connect(h)
  <2>1. client' \in [Host -> {"down", "flushing", "listening"}]
    BY <1>0, <1>4 DEF Connect, FerryInv
  <2>2. todo' \in [Host -> SUBSET Told]
    BY <1>0, <1>4, DrainTold DEF Connect, HandlerInv
  <2>3. QED
    BY <1>0, <1>1, <1>2, <1>3, <1>4, <2>1, <2>2
       DEF Connect, IInv, FerryInv, WireInv, HandlerInv, FlushInv
<1>5. CASE Write(h)
  <2> DEFINE op == Head(outbox[h])
  <2>1. /\ ~ sending[h] /\ outbox[h] # <<>> /\ up' = [up EXCEPT ![h] = Append(@, op)]
        /\ IF Full(up'[h])
           THEN sending' = [sending EXCEPT ![h] = TRUE] /\ outbox' = outbox
           ELSE outbox' = [outbox EXCEPT ![h] = Tail(@)] /\ sending' = sending
        /\ UNCHANGED <<client, handlers>>
    BY <1>5 DEF Write, MayWrite
  <2>2. op \in Backed /\ Tail(outbox[h]) \in Seq(Backed)
    BY <1>0, <2>1, HeadTail
  <2>3. Append(up[h], op) \in Seq(Backed) /\ Len(Append(up[h], op)) = Len(up[h]) + 1
    BY <1>0, <2>2, AppendProperties
  <2>4. Len(up[h]) \in Nat /\ Len(up[h]) <= Room
    BY <1>0, <2>1, LenProperties DEF FlushInv
  <2>5. up' \in [Host -> Seq(Backed)] /\ Len(up'[h]) = Len(up[h]) + 1
    BY <1>0, <2>1, <2>3
  <2>6. outbox' \in [Host -> Seq(Backed)] /\ sending' \in [Host -> BOOLEAN]
    BY <1>0, <2>1, <2>2 DEF FerryInv
  <2>7. FlushInv'
    <3> SUFFICES ASSUME NEW k \in Host
                 PROVE  /\ sending'[k] => outbox'[k] # <<>>
                        /\ Len(up'[k]) <= IF sending'[k] THEN Room + 1 ELSE Room
      BY DEF FlushInv
    <3>1. CASE k # h
      BY <1>0, <2>1, <3>1 DEF FlushInv, FerryInv
    <3>2. CASE k = h /\ Full(up'[h])
      BY <1>0, <2>1, <2>4, <2>5, <3>2 DEF FerryInv
    <3>3. CASE k = h /\ ~ Full(up'[h])
      BY <1>0, <2>1, <2>4, <2>5, <3>3 DEF FerryInv, Full
    <3>4. QED
      BY <3>1, <3>2, <3>3
  <2>8. QED
    BY <1>0, <1>1, <1>2, <1>3, <2>1, <2>5, <2>6, <2>7
       DEF IInv, FerryInv, WireInv, HandlerInv, handlers
<1>6. CASE SendReturns(h)
  <2>1. /\ sending[h] /\ ~ Full(up[h])
        /\ sending' = [sending EXCEPT ![h] = FALSE]
        /\ outbox' = [outbox EXCEPT ![h] = Tail(@)]
        /\ UNCHANGED <<client, up, handlers>>
    BY <1>6 DEF SendReturns, MayReturn
  <2>2. outbox[h] # <<>>
    BY <1>0, <2>1 DEF FlushInv
  <2>3. Tail(outbox[h]) \in Seq(Backed)
    BY <1>0, <2>2, HeadTail
  <2>4. outbox' \in [Host -> Seq(Backed)] /\ sending' \in [Host -> BOOLEAN]
    BY <1>0, <2>1, <2>3 DEF FerryInv
  <2>5. FlushInv'
    <3>1. Len(up[h]) \in Nat /\ Len(up[h]) <= Room
      BY <1>0, <2>1, LenProperties DEF Full
    <3>2. QED
      BY <1>0, <2>1, <3>1 DEF FlushInv, FerryInv
  <2>6. QED
    BY <1>0, <1>1, <1>2, <1>3, <2>1, <2>4, <2>5
       DEF IInv, FerryInv, WireInv, HandlerInv, handlers
<1>7. CASE Listens(h)
  BY <1>0, <1>1, <1>2, <1>3, <1>7
     DEF Listens, IInv, FerryInv, WireInv, HandlerInv, FlushInv, handlers
<1>8. QED
  BY <1>4, <1>5, <1>6, <1>7

(***************************************************************************)
(* A connection that is lost takes its frames and its flush with it.        *)
(***************************************************************************)
LEMMA LostStep ==
  ASSUME IInv, NEW h \in Host, Lost(h), breaks' \in 0 .. MaxBreaks
  PROVE  IInv'
<1>0. MailInv /\ FerryInv /\ WireInv /\ HandlerInv /\ FlushInv /\ Room \in Nat
  BY LinkAssumption DEF IInv
<1>1. Backed' = Backed /\ Told' = Told
  BY DEF Backed, Told, Lost, mailbox
<1>2. MailInv'
  BY <1>0 DEF MailInv, Lost, mailbox
<1>3. FerryInv' /\ WireInv'
  BY <1>0, <1>1 DEF Lost, FerryInv, WireInv
<1>4. HandlerInv'
  <2>1. left' \subseteq Told /\ todo' \in [Host -> SUBSET Told]
    BY <1>0 DEF Lost, HandlerInv
  <2>2. QED
    BY <1>0, <1>1, <2>1 DEF Lost, HandlerInv
<1>5. FlushInv'
  BY <1>0 DEF Lost, FlushInv, FerryInv, WireInv
<1>6. QED
  BY <1>2, <1>3, <1>4, <1>5 DEF IInv
(***************************************************************************)
(* The operation a handler reads was backed, and reading it only makes room. *)
(***************************************************************************)
LEMMA ReadsBacked ==
  ASSUME IInv, NEW h \in Host, NEW op, Reads(h, op)
  PROVE  /\ op \in Backed /\ up' \in [Host -> Seq(Backed)] /\ FlushInv'
         /\ UNCHANGED <<said, outbox, sending, client, down, waits, left, breaks, announces>>
<1>0. /\ FlushInv /\ up \in [Host -> Seq(Backed)] /\ sending \in [Host -> BOOLEAN]
      /\ Room \in Nat
  BY LinkAssumption DEF IInv, WireInv, FerryInv
<1>1. /\ up[h] # <<>> /\ op = Head(up[h]) /\ up' = [up EXCEPT ![h] = Tail(@)]
      /\ UNCHANGED <<said, outbox, sending, client, down, waits, left, breaks, announces>>
  BY DEF Reads, MayRead, ends
<1>2. /\ Head(up[h]) \in Backed /\ Tail(up[h]) \in Seq(Backed)
      /\ Len(Tail(up[h])) = Len(up[h]) - 1 /\ Len(up[h]) \in Nat
  BY <1>0, <1>1, HeadTail
<1>3. up' \in [Host -> Seq(Backed)]
  BY <1>0, <1>1, <1>2
<1>4. FlushInv'
  BY <1>0, <1>1, <1>2 DEF FlushInv
<1>5. QED
  BY <1>1, <1>2, <1>3, <1>4

(***************************************************************************)
(* A handler stores what was said, acknowledges what is stored, and tells    *)
(* of nothing else.                                                         *)
(***************************************************************************)
LEMMA ReadStep ==
  ASSUME IInv, NEW h \in Host,
         \/ \E m \in Message : HubPost(h, m) \/ HubAck(h, m)
         \/ HubAnnounce(h)
  PROVE  IInv'
<1>0. MailInv /\ FerryInv /\ WireInv /\ HandlerInv
  BY DEF IInv
<1>1. ASSUME NEW op, Reads(h, op), stored \subseteq stored', stored' \subseteq said,
             acked' \subseteq stored', todo' \in [Host -> SUBSET Told']
      PROVE  IInv'
  <2>1. /\ up' \in [Host -> Seq(Backed)] /\ FlushInv'
        /\ UNCHANGED <<said, outbox, sending, client, down, waits, left, breaks, announces>>
    BY <1>1, ReadsBacked
  <2>2. /\ Seq(Backed) \subseteq Seq(Backed') /\ Seq(Told) \subseteq Seq(Told')
        /\ Told \subseteq Told'
    BY <1>1, <2>1, StaysBacked
  <2>3. MailInv'
    BY <1>0, <1>1, <2>1 DEF MailInv
  <2>4. FerryInv' /\ WireInv'
    BY <1>0, <2>1, <2>2 DEF FerryInv, WireInv
  <2>5. HandlerInv'
    BY <1>0, <1>1, <2>1, <2>2 DEF HandlerInv
  <2>6. QED
    BY <2>1, <2>3, <2>4, <2>5 DEF IInv
<1>2. ASSUME NEW m \in Message, HubPost(h, m)
      PROVE  IInv'
  <2>1. /\ Reads(h, Post(m)) /\ stored' = stored \cup {m} /\ acked' = acked
    BY <1>2 DEF HubPost
  <2>2. m \in said
    <3>1. Post(m) \in Backed
      BY <2>1, ReadsBacked
    <3>2. QED
      BY <3>1 DEF Backed, Post, AckOf, Announce
  <2>3. Deliver(m) \in Told' /\ Status(m) \in Told' /\ Told \subseteq Told'
    BY <2>1 DEF Told
  <2>4. \E frames \in SUBSET {Deliver(m), Status(m)} : todo' = [todo EXCEPT ![h] = frames]
    BY <1>2 DEF HubPost
  <2>5. todo' \in [Host -> SUBSET Told']
    BY <1>0, <2>3, <2>4 DEF HandlerInv
  <2>6. stored' \subseteq said /\ acked' \subseteq stored' /\ stored \subseteq stored'
    BY <1>0, <2>1, <2>2 DEF MailInv
  <2>7. QED
    BY <1>1, <2>1, <2>5, <2>6
<1>3. ASSUME NEW m \in Message, HubAck(h, m)
      PROVE  IInv'
  <2>1. /\ Reads(h, AckOf(m)) /\ acked' = acked \cup {m} /\ UNCHANGED <<stored, todo>>
    BY <1>3 DEF HubAck
  <2>2. m \in stored
    <3>1. AckOf(m) \in Backed
      BY <2>1, ReadsBacked
    <3>2. QED
      BY <3>1 DEF Backed, Post, AckOf, Announce
  <2>3. todo' \in [Host -> SUBSET Told']
    BY <1>0, <2>1 DEF HandlerInv, Told
  <2>4. QED
    BY <1>0, <1>1, <2>1, <2>2, <2>3 DEF MailInv
<1>4. CASE HubAnnounce(h)
  <2>1. /\ Reads(h, Announce) /\ UNCHANGED mailbox
        /\ todo' = [todo EXCEPT ![h] = Drain(h)]
    BY <1>4 DEF HubAnnounce
  <2>2. todo' \in [Host -> SUBSET Told']
    BY <1>0, <2>1, DrainTold DEF HandlerInv, Told, mailbox
  <2>3. QED
    BY <1>0, <1>1, <2>1, <2>2 DEF MailInv, mailbox
<1>5. QED
  BY <1>2, <1>3, <1>4

(***************************************************************************)
(* A frame that is sent is added to those on their way to its host.          *)
(***************************************************************************)
LEMMA SentTold ==
  ASSUME IInv, NEW f \in Told
  PROVE  Sent(f) \in [Host -> Seq(Told)] /\ f.to \in Host
<1>1. f.to \in Host /\ down \in [Host -> Seq(Told)]
  BY BackedTyped DEF IInv, WireInv
<1>2. Append(down[f.to], f) \in Seq(Told)
  BY <1>1, AppendProperties
<1>3. QED
  BY <1>1, <1>2 DEF Sent

LEMMA SendStep ==
  ASSUME IInv, (\E h \in Host : HubSends(h) \/ HubSent(h)) \/ LeftSends
  PROVE  IInv'
<1>0. MailInv /\ FerryInv /\ WireInv /\ HandlerInv /\ FlushInv
  BY DEF IInv
<1>1. UNCHANGED <<said, ends, up, mailbox, breaks, announces>>
  BY DEF HubSends, HubSent, LeftSends
<1>2. Backed' = Backed /\ Told' = Told
  BY <1>1 DEF Backed, Told, mailbox
<1>3. MailInv' /\ FerryInv' /\ FlushInv'
  BY <1>0, <1>1, <1>2 DEF MailInv, FerryInv, FlushInv, ends, mailbox
<1>4. ASSUME down' \in [Host -> Seq(Told)], todo' \in [Host -> SUBSET Told],
             waits' \in [Host -> Host \cup {NoHost}], left' \subseteq Told
      PROVE  IInv'
  BY <1>0, <1>1, <1>2, <1>3, <1>4 DEF IInv, WireInv, HandlerInv
<1>5. ASSUME NEW h \in Host, HubSends(h)
      PROVE  IInv'
  <2>1. PICK f \in Oldest(h) :
          /\ todo' = [todo EXCEPT ![h] = @ \ {f}] /\ down' = Sent(f) /\ left' = left
          /\ waits' = [waits EXCEPT ![h] = IF Full(down'[f.to]) THEN f.to ELSE NoHost]
    BY <1>5 DEF HubSends
  <2>2. f \in Told
    BY <1>0 DEF Oldest, HandlerInv
  <2>3. down' \in [Host -> Seq(Told)] /\ f.to \in Host
    BY <2>1, <2>2, SentTold
  <2>4. QED
    BY <1>0, <1>4, <2>1, <2>3 DEF HandlerInv
<1>6. ASSUME NEW h \in Host, HubSent(h)
      PROVE  IInv'
  BY <1>0, <1>4, <1>6 DEF HubSent, HandlerInv, WireInv
<1>7. CASE LeftSends
  <2>1. PICK f \in left : left' = left \ {f} /\ down' = Sent(f)
    BY <1>7 DEF LeftSends
  <2>2. f \in Told /\ UNCHANGED <<todo, waits>>
    BY <1>0, <1>7 DEF HandlerInv, LeftSends
  <2>3. down' \in [Host -> Seq(Told)]
    BY <2>1, <2>2, SentTold
  <2>4. QED
    BY <1>0, <1>4, <2>1, <2>2, <2>3 DEF HandlerInv
<1>8. QED
  BY <1>5, <1>6, <1>7

LEMMA NextIInv == IInv /\ [Next]_vars => IInv'
<1> SUFFICES ASSUME IInv, [Next]_vars PROVE IInv'
  OBVIOUS
<1>1. CASE \E m \in Message : Say(m)
  BY <1>1, QueuesStep
<1>2. CASE \E h \in Host : Announces(h) \/ ReaderStep(h)
  BY <1>2, QueuesStep DEF ReaderStep
<1>3. CASE \E h \in Host : FerryStep(h)
  BY <1>3, FlushStep DEF FerryStep
<1>4. CASE (\E h \in Host : HandlerStep(h)) \/ LeftSends
  BY <1>4, ReadStep, SendStep DEF HandlerStep
<1>5. CASE \E h \in Host : Break(h) \/ TimesOut(h)
  <2>1. PICK h \in Host : Break(h) \/ TimesOut(h)
    BY <1>5
  <2>2. Lost(h)
    BY <2>1 DEF Break, TimesOut
  <2>3. breaks' \in 0 .. MaxBreaks
    BY <2>1, LinkAssumption DEF Break, TimesOut, IInv, MailInv
  <2>4. QED
    BY <2>2, <2>3, LostStep
<1>6. CASE UNCHANGED vars
  <2>1. Backed' = Backed /\ Told' = Told
    BY <1>6 DEF vars, mailbox, Backed, Told
  <2>2. QED
    BY <1>6, <2>1 DEF vars, mailbox, ends, handlers, IInv, MailInv, FerryInv, WireInv,
                      HandlerInv, FlushInv
<1>7. QED
  BY <1>1, <1>2, <1>3, <1>4, <1>5, <1>6 DEF Next, Work

(***************************************************************************)
(* No connection ever holds more than one frame beyond its room, the hub     *)
(* stores only what a session said, and only what is stored is              *)
(* acknowledged, whoever waits for whom and whatever connections are lost.  *)
(***************************************************************************)
THEOREM LinkTypeCorrect == Spec => []TypeOK
<1>1. QED
  BY InitIInv, NextIInv, IInvTyped, PTL DEF Spec
----------------------------------------------------------------------------
(* Who waits for whom *)

LEMMA LeastNatural ==
  ASSUME NEW T, T \subseteq Nat, T # {}
  PROVE  \E x \in T : \A y \in T : x <= y
<1>1. PICK x \in T : \A y \in T : ~ (<<y, x>> \in OpToRel(<, Nat))
  BY NatLessThanWellFounded, WFMin
<1>2. \A y \in T : ~ (y < x)
  BY <1>1 DEF OpToRel
<1> QED
  BY <1>2

(***************************************************************************)
(* A handler that has something to send has something to send first: of the *)
(* least id among the messages concerned, the push, if there is one.        *)
(***************************************************************************)
LEMMA SomethingOldest ==
  ASSUME TypeOK, NEW h \in Host, todo[h] # {}
  PROVE  Oldest(h) # {}
<1> DEFINE ids == {f.env.id : f \in todo[h]}
<1>1. todo[h] \subseteq Frame
  BY DEF TypeOK
<1>2. \A f \in todo[h] : /\ f.env.id \in Nat
                         /\ f.op \in {"deliver", "status"}
  BY <1>1, LinkAssumption DEF Frame, Deliver, Status
<1>3. PICK least \in ids : \A n \in ids : least <= n
  <2>1. ids \subseteq Nat /\ ids # {}
    BY <1>2
  <2>2. QED
    BY <2>1, LeastNatural
<1>4. PICK f \in todo[h] : f.env.id = least
  BY <1>3
<1>5. \A g \in todo[h] : ~ (g.env.id < f.env.id)
  <2>1. TAKE g \in todo[h]
  <2>2. least <= g.env.id /\ g.env.id \in Nat /\ least \in Nat
    BY <1>2, <1>3, <1>4
  <2>3. QED
    BY <1>4, <2>2
<1>6. CASE \E g \in todo[h] : g.env = f.env /\ g.op = "deliver"
  <2>1. PICK g \in todo[h] : g.env = f.env /\ g.op = "deliver"
    BY <1>6
  <2>2. \A e \in todo[h] : ~ Before(e, g)
    BY <1>5, <2>1 DEF Before
  <2>3. QED
    BY <2>1, <2>2 DEF Oldest
<1>7. CASE ~ \E g \in todo[h] : g.env = f.env /\ g.op = "deliver"
  <2>1. \A e \in todo[h] : ~ Before(e, f)
    BY <1>5, <1>7 DEF Before
  <2>2. QED
    BY <1>4, <2>1 DEF Oldest
<1>8. QED
  BY <1>6, <1>7

(***************************************************************************)
(* Unless a ferry that has just connected is still flushing, nobody waits   *)
(* for somebody who waits in turn, for any hosts and any room.  If nobody   *)
(* can move, every ferry listens and has read all there is; so no handler   *)
(* waits, and each has sent and read all there is; so no flush waits.       *)
(***************************************************************************)
LEMMA NobodyStuck == TypeOK => JamsOnlyAtConnect
<1> SUFFICES ASSUME TypeOK, Jammed, ~ \E h \in Host : client[h] = "flushing" /\ sending[h]
             PROVE  FALSE
  BY DEF JamsOnlyAtConnect
<1>1. ~ SomebodyMoves
  BY DEF Jammed
<1>2. \A h \in Host : client[h] = "listening"
  <2>1. TAKE h \in Host
  <2>2. client[h] # "down"
    BY <1>1 DEF SomebodyMoves, MayConnect, Up
  <2>3. client[h] # "flushing"
    BY <1>1 DEF SomebodyMoves, MayWrite, MayListen, Up, TypeOK
  <2>4. QED
    BY <2>2, <2>3 DEF TypeOK
<1>3. \A h \in Host : down[h] = <<>>
  BY <1>1, <1>2 DEF SomebodyMoves, MayReceive
<1>4. \A h \in Host : waits[h] = NoHost
  <2>1. ASSUME NEW h \in Host, waits[h] # NoHost
        PROVE  FALSE
    <3>1. waits[h] \in Host
      BY <2>1 DEF TypeOK
    <3>2. ~ Full(down[waits[h]])
      BY <1>3, <3>1, LinkAssumption DEF Full
    <3>3. QED
      BY <1>1, <2>1, <3>2 DEF SomebodyMoves, MayGoOn
  <2>2. QED
    BY <2>1
<1>5. \A h \in Host : todo[h] = {}
  BY <1>1, <1>2, <1>4, SomethingOldest DEF SomebodyMoves, MaySend, Up
<1>6. \A h \in Host : up[h] = <<>>
  BY <1>1, <1>2, <1>4, <1>5 DEF SomebodyMoves, MayRead, Up
<1>7. \A h \in Host : ~ sending[h]
  <2>1. ASSUME NEW h \in Host, sending[h]
        PROVE  FALSE
    <3>1. ~ Full(up[h])
      BY <1>6, LinkAssumption DEF Full
    <3>2. QED
      BY <1>1, <2>1, <3>1 DEF SomebodyMoves, MayReturn
  <2>2. QED
    BY <2>1
<1>8. QED
  BY <1>4, <1>7 DEF Jammed

(***************************************************************************)
(* Once every ferry listens, posts, statuses, pushes, drains and            *)
(* acknowledgements pass each other: hubs and ferries never wait in a       *)
(* circle, whatever the number of hosts and the room of a connection.       *)
(***************************************************************************)
THEOREM JamsAtConnectOnly == Spec => []JamsOnlyAtConnect
<1>1. QED
  BY LinkTypeCorrect, NobodyStuck, PTL
=============================================================================
