----------------------------- MODULE C2CProofs -----------------------------
(***************************************************************************)
(* Proofs about c2c as a whole, for any hosts, sessions, messages, bounds   *)
(* and number of faults: its state keeps its types, and the whole           *)
(* implements Relay.                                                        *)
(***************************************************************************)
EXTENDS C2C, FiniteSetTheorems, SequenceTheorems, TLAPS

----------------------------------------------------------------------------
(* Sequences and the elements they hold *)

(***************************************************************************)
(* What an operation appended to a queue, taken from its front, or sent     *)
(* behind it as a batch does to the elements of the queue.                  *)
(***************************************************************************)
LEMMA RangeAppend ==
  ASSUME NEW S, NEW s \in Seq(S), NEW e \in S
  PROVE  /\ Append(s, e) \in Seq(S)
         /\ Len(Append(s, e)) = Len(s) + 1
         /\ Range(Append(s, e)) = Range(s) \cup {e}
<1> DEFINE one == <<e>>
<1>1. /\ Append(s, e) \in Seq(S) /\ Len(Append(s, e)) = Len(s) + 1
      /\ Append(s, e) = s \o one
  BY AppendProperties, AppendIsConcat
<1>2. one \in Seq(S) /\ Range(one) = {e}
  BY DEF Range
<1> HIDE DEF one
<1>3. Range(s \o one) = Range(s) \cup Range(one)
  BY <1>2, RangeConcatenation
<1>4. QED
  BY <1>1, <1>2, <1>3, Zenon

LEMMA RangeHeadTail ==
  ASSUME NEW S, NEW s \in Seq(S), s # <<>>
  PROVE  /\ Head(s) \in S /\ Tail(s) \in Seq(S)
         /\ Len(s) \in Nat \ {0} /\ Len(Tail(s)) = Len(s) - 1
         /\ Range(s) = Range(Tail(s)) \cup {Head(s)}
<1>1. /\ Head(s) \in S /\ Tail(s) \in Seq(S)
      /\ Len(s) \in Nat \ {0} /\ Len(Tail(s)) = Len(s) - 1
      /\ \A i \in 1 .. Len(Tail(s)) : Tail(s)[i] = s[i + 1]
  BY HeadTailProperties, EmptySeq
<1>2. Range(s) = {s[i] : i \in 1 .. Len(s)}
  BY RangeEquality
<1>3. Range(Tail(s)) = {Tail(s)[i] : i \in 1 .. Len(Tail(s))}
  BY <1>1, RangeEquality
<1>4. Head(s) = s[1]
  OBVIOUS
<1>5. ASSUME NEW i \in 1 .. Len(s), i # 1
      PROVE  i - 1 \in 1 .. Len(Tail(s)) /\ s[i] = Tail(s)[i - 1]
  BY <1>1, <1>5
<1>6. ASSUME NEW i \in 1 .. Len(Tail(s))
      PROVE  i + 1 \in 1 .. Len(s) /\ s[i + 1] = Tail(s)[i]
  BY <1>1, <1>6
<1>7. Range(s) \subseteq Range(Tail(s)) \cup {Head(s)}
  <2> SUFFICES ASSUME NEW x \in Range(s), x # Head(s)
               PROVE  x \in Range(Tail(s))
    OBVIOUS
  <2>1. PICK i \in 1 .. Len(s) : x = s[i]
    BY <1>2
  <2>2. i # 1
    BY <1>4, <2>1
  <2>3. i - 1 \in 1 .. Len(Tail(s)) /\ x = Tail(s)[i - 1]
    BY <1>5, <2>1, <2>2
  <2> QED
    BY <1>3, <2>3
<1>8. Range(Tail(s)) \subseteq Range(s)
  BY <1>2, <1>3, <1>6
<1>9. Head(s) \in Range(s)
  BY <1>1, <1>2, <1>4
<1>10. QED
  BY <1>1, <1>7, <1>8, <1>9

----------------------------------------------------------------------------
(* The mailbox *)

(***************************************************************************)
(* The instance of Mailbox has its own IsFiniteSet and Cardinality; they    *)
(* are the library's.                                                       *)
(***************************************************************************)
LEMMA SameFinite == \A S : MB!IsFiniteSet(S) <=> IsFiniteSet(S)
BY DEF IsFiniteSet, MB!IsFiniteSet

(***************************************************************************)
(* Every envelope is a well-formed record with its own id, aimed at a host. *)
(***************************************************************************)
LEMMA EnvelopeShape ==
  ASSUME NEW m \in Envelopes
  PROVE  /\ m.msg_id \in Int /\ m.created_at \in Nat /\ m.ttl_s \in Nat
         /\ m.target_kind = "host" /\ m.target_host \in Host
         /\ m.origin_host \in Host
         /\ \A n \in Envelopes : m.msg_id = n.msg_id => m = n
BY C2CAssumption DEF MB!EnvelopeType

(***************************************************************************)
(* Deleting rows, and what the hub does to its tables, keeps their types.   *)
(***************************************************************************)
LEMMA DeleteTyped ==
  ASSUME NEW rows, NEW victims, rows \subseteq Envelopes, IsFiniteSet(rows),
         acks \subseteq MB!Ids(Envelopes) \X Host, now' \in Clock,
         MB!Delete(rows, victims)
  PROVE  MB!TypeOK'
<1>1. IsFiniteSet(rows \ victims)
  BY FS_Subset
<1>2. \A m, n \in rows : m.msg_id = n.msg_id => m = n
  BY EnvelopeShape
<1>3. QED
  BY <1>1, <1>2, SameFinite DEF MB!Delete, MB!TypeOK

LEMMA PutTyped ==
  ASSUME MB!TypeOK, NEW m \in Envelopes, MB!Put(m)
  PROVE  MB!TypeOK'
<1>1. IsFiniteSet(messages) /\ IsFiniteSet(messages \cup {m})
  BY FS_AddElement, SameFinite DEF MB!TypeOK
<1>2. MB!Inserted(m) \subseteq Envelopes /\ IsFiniteSet(MB!Inserted(m))
  BY <1>1 DEF MB!Inserted, MB!TypeOK
<1>3. QED
  BY <1>2, DeleteTyped DEF MB!Put, MB!TypeOK

LEMMA AckTyped ==
  ASSUME MB!TypeOK, NEW m \in Envelopes, NEW h \in Host, MB!Ack(m.msg_id, h)
  PROVE  MB!TypeOK'
BY DEF MB!TypeOK, MB!Ack, MB!Ids

LEMMA SweepTyped ==
  ASSUME MB!TypeOK, MB!SweepExpired
  PROVE  MB!TypeOK'
BY DeleteTyped, SameFinite DEF MB!TypeOK, MB!SweepExpired

LEMMA TickTyped ==
  ASSUME MB!TypeOK, MB!Tick
  PROVE  MB!TypeOK'
BY DEF MB!TypeOK, MB!Tick

(***************************************************************************)
(* A drain sends stored rows.                                               *)
(***************************************************************************)
LEMMA DrainsTyped ==
  ASSUME MB!TypeOK, NEW h \in Host, NEW order \in Drains(h)
  PROVE  order \in Seq(Envelopes) /\ Range(order) \subseteq messages
<1>1. MB!PendingFor(h, {}) \subseteq messages /\ messages \subseteq Envelopes
  BY DEF MB!PendingFor, MB!TypeOK
<1>2. Cardinality(MB!PendingFor(h, {})) \in Nat
  BY <1>1, FS_Subset, FS_CardinalityType, SameFinite DEF MB!TypeOK
<1>3. order \in [1 .. Cardinality(MB!PendingFor(h, {})) -> MB!PendingFor(h, {})]
  BY DEF Drains, SetToSeqs
<1>4. order \in Seq(messages) /\ order \in Seq(Envelopes)
  BY <1>1, <1>2, <1>3
<1>5. QED
  BY <1>4, RangeOfSeq

----------------------------------------------------------------------------
(* The outbox *)

(***************************************************************************)
(* An operation that is queued is in the outbox; the others stay, unless    *)
(* the outbox was full and one was dropped, which counts as a fault.        *)
(***************************************************************************)
LEMMA Enqueued ==
  ASSUME TypeOK, NEW h \in Host, NEW op \in Operation, Enqueue(h, op)
  PROVE  /\ outbox' \in [Host -> Seq(Operation)]
         /\ \A g \in Host : Len(outbox'[g]) <= OutboxMax
         /\ \A g \in Host : g # h => outbox'[g] = outbox[g]
         /\ Range(outbox'[h]) \subseteq Range(outbox[h]) \cup {op}
         /\ \/ faults' = faults /\ Range(outbox'[h]) = Range(outbox[h]) \cup {op}
            \/ faults' = faults + 1
         /\ faults' \in Nat
<1>1. /\ outbox \in [Host -> Seq(Operation)] /\ outbox[h] \in Seq(Operation)
      /\ \A g \in Host : Len(outbox[g]) <= OutboxMax
      /\ faults \in Nat /\ OutboxMax \in Nat \ {0} /\ Len(outbox[h]) \in Nat
  BY C2CAssumption DEF TypeOK
<1>2. CASE Len(outbox[h]) < OutboxMax
  <2> DEFINE s == Append(outbox[h], op)
  <2>1. /\ s \in Seq(Operation) /\ Len(s) = Len(outbox[h]) + 1
        /\ Range(s) = Range(outbox[h]) \cup {op}
    BY <1>1, RangeAppend
  <2>2. outbox' = [outbox EXCEPT ![h] = s] /\ faults' = faults
    BY <1>2 DEF Enqueue
  <2> HIDE DEF s
  <2>3. /\ outbox' \in [Host -> Seq(Operation)] /\ outbox'[h] = s
        /\ \A g \in Host : g # h => outbox'[g] = outbox[g]
    BY <1>1, <2>1, <2>2
  <2>4. \A g \in Host : Len(outbox'[g]) <= OutboxMax
    <3>1. Len(s) <= OutboxMax
      BY <1>1, <1>2, <2>1
    <3>2. QED
      BY <1>1, <2>3, <3>1
  <2>5. QED
    BY <1>1, <2>1, <2>2, <2>3, <2>4
<1>3. CASE ~ (Len(outbox[h]) < OutboxMax)
  <2> DEFINE rest == Tail(outbox[h])
             s == Append(rest, op)
  <2>1. outbox[h] # <<>>
    BY <1>1, <1>3, EmptySeq
  <2>2. /\ rest \in Seq(Operation) /\ Len(rest) = Len(outbox[h]) - 1
        /\ Range(rest) \subseteq Range(outbox[h])
    BY <1>1, <2>1, RangeHeadTail
  <2>3. outbox' = [outbox EXCEPT ![h] = s] /\ faults' = faults + 1
    BY <1>3 DEF Enqueue
  <2> HIDE DEF rest
  <2>4. /\ s \in Seq(Operation) /\ Len(s) = Len(rest) + 1
        /\ Range(s) = Range(rest) \cup {op}
    BY <2>2, RangeAppend
  <2> HIDE DEF s
  <2>5. /\ outbox' \in [Host -> Seq(Operation)] /\ outbox'[h] = s
        /\ \A g \in Host : g # h => outbox'[g] = outbox[g]
    BY <1>1, <2>3, <2>4
  <2>6. \A g \in Host : Len(outbox'[g]) <= OutboxMax
    <3>1. Len(outbox[h]) <= OutboxMax
      BY <1>1
    <3>2. Len(s) <= OutboxMax
      BY <1>1, <2>2, <2>4, <3>1
    <3>3. QED
      BY <1>1, <2>5, <3>2
  <2>7. Range(outbox'[h]) \subseteq Range(outbox[h]) \cup {op}
    BY <2>2, <2>4, <2>5
  <2>8. QED
    BY <1>1, <2>3, <2>5, <2>6, <2>7
<1>4. QED
  BY <1>2, <1>3

----------------------------------------------------------------------------
(* Types *)

LEMMA TablesUnchanged ==
  ASSUME MB!TypeOK, UNCHANGED mailbox
  PROVE  MB!TypeOK'
BY DEF MB!TypeOK, mailbox

LEMMA OperationTyped ==
  /\ \A m \in Envelopes : Post(m) \in Operation /\ AckOf(m) \in Operation
  /\ Announce \in Operation
BY DEF Operation

(***************************************************************************)
(* What the hub reads from host h leaves the rest on its way.               *)
(***************************************************************************)
LEMMA ReadsTyped ==
  ASSUME TypeOK, NEW h \in Host, NEW op, Reads(h, op)
  PROVE  /\ up' \in [Host -> Seq(Operation)]
         /\ \A g \in Host : g # h => up'[g] = up[g]
         /\ Range(up[h]) = Range(up'[h]) \cup {op}
<1>1. up \in [Host -> Seq(Operation)] /\ up[h] \in Seq(Operation) /\ up[h] # <<>>
  BY DEF TypeOK, Reads
<1>2. /\ Tail(up[h]) \in Seq(Operation)
      /\ Range(up[h]) = Range(Tail(up[h])) \cup {Head(up[h])}
  BY <1>1, RangeHeadTail
<1>3. up' = [up EXCEPT ![h] = Tail(up[h])] /\ op = Head(up[h])
  BY DEF Reads
<1>4. QED
  BY <1>1, <1>2, <1>3

(***************************************************************************)
(* A ferry receives what was sent to it first.                              *)
(***************************************************************************)
LEMMA ReceivesTyped ==
  ASSUME TypeOK, NEW h \in Host, NEW m, Receives(h, m)
  PROVE  /\ down' \in [Host -> Seq(Envelopes)]
         /\ m \in Range(down[h])
         /\ \A g \in Host : Range(down'[g]) \subseteq Range(down[g])
<1>1. down \in [Host -> Seq(Envelopes)] /\ down[h] \in Seq(Envelopes) /\ down[h] # <<>>
  BY DEF TypeOK, Receives
<1>2. /\ Tail(down[h]) \in Seq(Envelopes)
      /\ Range(down[h]) = Range(Tail(down[h])) \cup {Head(down[h])}
  BY <1>1, RangeHeadTail
<1>3. down' = [down EXCEPT ![h] = Tail(down[h])] /\ m = Head(down[h])
  BY DEF Receives
<1>4. QED
  BY <1>1, <1>2, <1>3

(***************************************************************************)
(* A post is pushed to its target behind what was sent there before.        *)
(***************************************************************************)
LEMMA PushTyped ==
  ASSUME TypeOK, NEW h \in Host, NEW m \in Envelopes, HubPost(h, m)
  PROVE  /\ down' \in [Host -> Seq(Envelopes)]
         /\ \A g \in Host : Range(down'[g]) \subseteq Range(down[g]) \cup {m}
<1> DEFINE t == m.target_host
<1>1. t \in Host /\ down \in [Host -> Seq(Envelopes)] /\ down[t] \in Seq(Envelopes)
  BY EnvelopeShape DEF TypeOK
<1>2. /\ Append(down[t], m) \in Seq(Envelopes)
      /\ Range(Append(down[t], m)) = Range(down[t]) \cup {m}
  BY <1>1, RangeAppend
<1>3. down' = [down EXCEPT ![t] = Append(down[t], m)] \/ down' = down
  BY DEF HubPost
<1> HIDE DEF t
<1>4. QED
  BY <1>1, <1>2, <1>3

(***************************************************************************)
(* What connecting and announcing make the hub send is stored.              *)
(***************************************************************************)
LEMMA DrainTyped ==
  ASSUME TypeOK, NEW h \in Host, Connect(h) \/ HubAnnounce(h)
  PROVE  /\ down' \in [Host -> Seq(Envelopes)]
         /\ \A g \in Host : Range(down'[g]) \subseteq Range(down[g]) \cup messages
<1>1. down \in [Host -> Seq(Envelopes)] /\ down[h] \in Seq(Envelopes) /\ MB!TypeOK
  BY DEF TypeOK
<1>2. PICK order \in Drains(h) :
        down' = [down EXCEPT ![h] = order] \/ down' = [down EXCEPT ![h] = down[h] \o order]
  BY DEF Connect, HubAnnounce
<1>3. order \in Seq(Envelopes) /\ Range(order) \subseteq messages
  BY <1>1, DrainsTyped
<1>4. /\ down[h] \o order \in Seq(Envelopes)
      /\ Range(down[h] \o order) = Range(down[h]) \cup Range(order)
  BY <1>1, <1>3, ConcatProperties, RangeConcatenation
<1>5. CASE down' = [down EXCEPT ![h] = order]
  BY <1>1, <1>3, <1>5
<1>6. CASE down' = [down EXCEPT ![h] = down[h] \o order]
  BY <1>1, <1>3, <1>4, <1>6
<1>7. QED
  BY <1>2, <1>5, <1>6

(***************************************************************************)
(* Flushing moves the oldest operation of an outbox to the hub.             *)
(***************************************************************************)
LEMMA WriteTyped ==
  ASSUME TypeOK, NEW h \in Host, Write(h)
  PROVE  /\ up' \in [Host -> Seq(Operation)] /\ sending' \in [Host -> Operation \cup {NoOp}]
         /\ sending'[h] \in Range(outbox[h])
         /\ Range(up'[h]) = Range(up[h]) \cup {sending'[h]}
         /\ \A g \in Host : g # h => up'[g] = up[g] /\ sending'[g] = sending[g]
<1>1. /\ outbox[h] \in Seq(Operation) /\ outbox[h] # <<>>
      /\ up \in [Host -> Seq(Operation)] /\ up[h] \in Seq(Operation)
      /\ sending \in [Host -> Operation \cup {NoOp}]
  BY DEF TypeOK, Write
<1>2. PICK op : op = Head(outbox[h])
  OBVIOUS
<1>3. op \in Operation /\ op \in Range(outbox[h])
  BY <1>1, <1>2, RangeHeadTail
<1>4. Append(up[h], op) \in Seq(Operation) /\ Range(Append(up[h], op)) = Range(up[h]) \cup {op}
  BY <1>1, <1>3, RangeAppend
<1>5. up' = [up EXCEPT ![h] = Append(up[h], op)] /\ sending' = [sending EXCEPT ![h] = op]
  BY <1>2 DEF Write
<1>6. sending'[h] = op
  BY <1>1, <1>5
<1>7. QED
  BY <1>1, <1>3, <1>4, <1>5, <1>6

LEMMA PopTyped ==
  ASSUME TypeOK, NEW h \in Host, Pop(h)
  PROVE  /\ outbox' \in [Host -> Seq(Operation)]
         /\ \A g \in Host : Len(outbox'[g]) <= OutboxMax
         /\ \A g \in Host : g # h => outbox'[g] = outbox[g]
         /\ Range(outbox[h]) = Range(outbox'[h]) \cup {Head(outbox[h])}
         /\ faults' \in Nat
<1>1. /\ outbox \in [Host -> Seq(Operation)] /\ outbox[h] \in Seq(Operation)
      /\ outbox[h] # <<>> /\ OutboxMax \in Nat
      /\ \A g \in Host : Len(outbox[g]) <= OutboxMax
  BY C2CAssumption DEF TypeOK, Pop
<1>2. PICK rest : rest = Tail(outbox[h])
  OBVIOUS
<1>3. /\ rest \in Seq(Operation) /\ Len(rest) = Len(outbox[h]) - 1 /\ Len(outbox[h]) \in Nat
      /\ Range(outbox[h]) = Range(rest) \cup {Head(outbox[h])}
  BY <1>1, <1>2, RangeHeadTail
<1>4. outbox' = [outbox EXCEPT ![h] = rest]
  BY <1>2 DEF Pop
<1>5. /\ outbox' \in [Host -> Seq(Operation)] /\ outbox'[h] = rest
      /\ \A g \in Host : g # h => outbox'[g] = outbox[g]
  BY <1>1, <1>3, <1>4
<1>6. Len(rest) <= OutboxMax
  <2>1. Len(outbox[h]) <= OutboxMax
    BY <1>1
  <2>2. QED
    BY <1>1, <1>3, <2>1
<1>7. \A g \in Host : Len(outbox'[g]) <= OutboxMax
  BY <1>1, <1>5, <1>6
<1>8. faults' \in Nat
  BY DEF Pop, TypeOK
<1>9. QED
  BY <1>3, <1>5, <1>7, <1>8

(***************************************************************************)
(* Every step keeps the types.                                              *)
(***************************************************************************)
LEMMA TypeStep ==
  ASSUME TypeOK, [Next]_vars
  PROVE  TypeOK'
<1>1. ASSUME NEW m \in Envelopes, Say(m)
      PROVE  TypeOK'
  <2>1. MB!TypeOK' /\ m.origin_host \in Host /\ Enqueue(m.origin_host, Post(m))
        /\ Post(m) \in Operation
    BY <1>1, TablesUnchanged, EnvelopeShape, OperationTyped DEF TypeOK, Say
  <2>2. /\ outbox' \in [Host -> Seq(Operation)] /\ faults' \in Nat
        /\ \A g \in Host : Len(outbox'[g]) <= OutboxMax
    BY <2>1, Enqueued
  <2>3. QED
    BY <1>1, <2>1, <2>2 DEF TypeOK, Say, wires
<1>2. ASSUME NEW h \in Host, Write(h)
      PROVE  TypeOK'
  BY <1>2, TablesUnchanged, WriteTyped DEF TypeOK, Write, history
<1>3. ASSUME NEW h \in Host, Pop(h)
      PROVE  TypeOK'
  <2>1. sending' \in [Host -> Operation \cup {NoOp}]
    BY <1>3 DEF TypeOK, Pop
  <2>2. QED
    BY <1>3, <2>1, TablesUnchanged, PopTyped DEF TypeOK, Pop, wires, history
<1>4. ASSUME NEW h \in Host, Connect(h)
      PROVE  TypeOK'
  <2>1. link' \in [Host -> BOOLEAN]
    BY <1>4 DEF TypeOK, Connect
  <2>2. QED
    BY <1>4, <2>1, TablesUnchanged, DrainTyped DEF TypeOK, Connect, ferry, history
<1>5. ASSUME NEW h \in Host, NEW m \in Envelopes, HubPost(h, m)
      PROVE  TypeOK'
  <2>1. Reads(h, Post(m)) /\ MB!TypeOK'
    BY <1>5, PutTyped DEF HubPost, TypeOK
  <2>2. QED
    BY <1>5, <2>1, ReadsTyped, PushTyped DEF TypeOK, HubPost, Reads, ferry
<1>6. ASSUME NEW h \in Host, NEW m \in Envelopes, HubAck(h, m)
      PROVE  TypeOK'
  <2>1. Reads(h, AckOf(m)) /\ MB!TypeOK'
    BY <1>6, AckTyped DEF HubAck, TypeOK
  <2>2. QED
    BY <1>6, <2>1, ReadsTyped DEF TypeOK, HubAck, Reads, ferry
<1>7. ASSUME NEW h \in Host, HubAnnounce(h)
      PROVE  TypeOK'
  <2>1. Reads(h, Announce) /\ MB!TypeOK'
    BY <1>7, TablesUnchanged DEF HubAnnounce, TypeOK
  <2>2. QED
    BY <1>7, <2>1, ReadsTyped, DrainTyped DEF TypeOK, HubAnnounce, Reads, ferry
<1>8. CASE Sweep \/ Tick
  <2>1. MB!TypeOK'
    BY <1>8, SweepTyped, TickTyped DEF Sweep, Tick, TypeOK
  <2>2. QED
    BY <1>8, <2>1 DEF TypeOK, Sweep, Tick, ferry, wires, history
<1>9. ASSUME NEW h \in Host, NEW m \in Envelopes, DeliverDuplicate(h, m)
      PROVE  TypeOK'
  <2>1. /\ MB!TypeOK' /\ Receives(h, m) /\ Enqueue(h, AckOf(m))
        /\ AckOf(m) \in Operation
    BY <1>9, TablesUnchanged, OperationTyped DEF TypeOK, DeliverDuplicate, Receives
  <2>2. /\ outbox' \in [Host -> Seq(Operation)] /\ faults' \in Nat
        /\ \A g \in Host : Len(outbox'[g]) <= OutboxMax
        /\ down' \in [Host -> Seq(Envelopes)]
    BY <2>1, Enqueued, ReceivesTyped
  <2>3. QED
    BY <1>9, <2>1, <2>2 DEF TypeOK, DeliverDuplicate, Receives
<1>10. ASSUME NEW h \in Host, NEW m \in Envelopes, Hold(h, m)
       PROVE  TypeOK'
  <2>1. MB!TypeOK' /\ down' \in [Host -> Seq(Envelopes)]
    BY <1>10, TablesUnchanged, ReceivesTyped DEF TypeOK, Hold, Receives
  <2>2. QED
    BY <1>10, <2>1 DEF TypeOK, Hold, Receives
<1>11. ASSUME NEW h \in Host, NEW m \in Envelopes, Inject(h, m)
       PROVE  TypeOK'
  <2>1. MB!TypeOK' /\ down' \in [Host -> Seq(Envelopes)]
    BY <1>11, TablesUnchanged, ReceivesTyped DEF TypeOK, Inject, Receives
  <2>2. reader' \in [Host -> Envelopes \cup {NoEnvelope}] /\ taken' \subseteq Envelopes
    BY <1>11 DEF TypeOK, Inject
  <2>3. QED
    BY <1>11, <2>1, <2>2 DEF TypeOK, Inject, Receives
<1>12. ASSUME NEW h \in Host, NEW m \in Envelopes, Delivered(h, m)
       PROVE  TypeOK'
  <2>1. MB!TypeOK' /\ Enqueue(h, AckOf(m)) /\ AckOf(m) \in Operation
    BY <1>12, TablesUnchanged, OperationTyped DEF TypeOK, Delivered
  <2>2. /\ outbox' \in [Host -> Seq(Operation)] /\ faults' \in Nat
        /\ \A g \in Host : Len(outbox'[g]) <= OutboxMax
    BY <2>1, Enqueued
  <2>3. /\ reader' \in [Host -> Envelopes \cup {NoEnvelope}]
        /\ seen' \in [Host -> SUBSET Envelopes]
    BY <1>12 DEF TypeOK, Delivered
  <2>4. QED
    BY <1>12, <2>1, <2>2, <2>3 DEF TypeOK, Delivered, wires, history
<1>13. ASSUME NEW h \in Host, WindowEnds(h)
       PROVE  TypeOK'
  <2>1. seen' \in [Host -> SUBSET Envelopes]
    BY <1>13 DEF TypeOK, WindowEnds
  <2>2. QED
    BY <1>13, <2>1, TablesUnchanged DEF TypeOK, WindowEnds, wires, history
<1>14. ASSUME NEW h \in Host, AnnouncerTick(h)
       PROVE  TypeOK'
  <2>1. MB!TypeOK' /\ Enqueue(h, Announce) /\ Announce \in Operation
    BY <1>14, TablesUnchanged, OperationTyped DEF TypeOK, AnnouncerTick
  <2>2. /\ outbox' \in [Host -> Seq(Operation)] /\ faults' \in Nat
        /\ \A g \in Host : Len(outbox'[g]) <= OutboxMax
    BY <2>1, Enqueued
  <2>3. LiveProjects(h) \subseteq Project
    BY C2CAssumption DEF TypeOK, LiveProjects
  <2>4. last' \in [Host -> SUBSET Project]
    BY <1>14, <2>3 DEF TypeOK, AnnouncerTick
  <2>5. QED
    BY <1>14, <2>1, <2>2, <2>4 DEF TypeOK, AnnouncerTick, wires, history
<1>15. ASSUME NEW s \in Session, SessionStarts(s) \/ SessionEnds(s)
       PROVE  TypeOK'
  <2>1. live' \subseteq Session /\ moves' \in 0 .. MaxMoves
    BY <1>15, C2CAssumption DEF TypeOK, SessionStarts, SessionEnds
  <2>2. QED
    BY <1>15, <2>1, TablesUnchanged
    DEF TypeOK, SessionStarts, SessionEnds, ferry, wires, history
<1>16. ASSUME NEW h \in Host, Unlinked(h)
       PROVE  /\ link' \in [Host -> BOOLEAN] /\ sending' \in [Host -> Operation \cup {NoOp}]
              /\ up' \in [Host -> Seq(Operation)] /\ down' \in [Host -> Seq(Envelopes)]
              /\ faults' \in Nat
  BY <1>16 DEF TypeOK, Unlinked
<1>17. ASSUME NEW h \in Host, Break(h)
       PROVE  TypeOK'
  BY <1>16, <1>17, TablesUnchanged DEF TypeOK, Break, history
<1>18. ASSUME NEW h \in Host, KillFerry(h)
       PROVE  TypeOK'
  <2>1. /\ outbox' \in [Host -> Seq(Operation)]
        /\ \A g \in Host : outbox'[g] = outbox[g] \/ outbox'[g] = <<>>
    BY <1>18 DEF TypeOK, KillFerry
  <2>2. \A g \in Host : Len(outbox'[g]) <= OutboxMax
    BY <2>1, C2CAssumption, EmptySeq DEF TypeOK
  <2>3. /\ last' \in [Host -> SUBSET Project] /\ seen' \in [Host -> SUBSET Envelopes]
        /\ reader' \in [Host -> Envelopes \cup {NoEnvelope}]
    BY <1>18 DEF TypeOK, KillFerry
  <2>4. QED
    BY <1>16, <1>18, <2>1, <2>2, <2>3, TablesUnchanged DEF TypeOK, KillFerry, history
<1>19. CASE KillHub
  <2>1. /\ link' \in [Host -> BOOLEAN] /\ sending' \in [Host -> Operation \cup {NoOp}]
        /\ up' \in [Host -> Seq(Operation)] /\ down' \in [Host -> Seq(Envelopes)]
        /\ faults' \in Nat
    BY <1>19 DEF TypeOK, KillHub
  <2>2. QED
    BY <1>19, <2>1, TablesUnchanged DEF TypeOK, KillHub, history
<1>20. CASE UNCHANGED vars
  BY <1>20, TablesUnchanged DEF TypeOK, vars, ferry, wires, history
<1>21. QED
  BY <1>1, <1>2, <1>3, <1>4, <1>5, <1>6, <1>7, <1>8, <1>9, <1>10, <1>11, <1>12,
     <1>13, <1>14, <1>15, <1>17, <1>18, <1>19, <1>20
  DEF Next, FlushStep, HubStep, ReaderStep

LEMMA InitTyped == Init => TypeOK
<1> SUFFICES ASSUME Init
             PROVE  TypeOK
  OBVIOUS
<1>1. MB!TypeOK
  BY FS_EmptySet, SameFinite DEF Init, MB!Init, MB!TypeOK
<1>2. \A h \in Host : outbox[h] = <<>>
  BY DEF Init
<1>3. \A h \in Host : Len(outbox[h]) <= OutboxMax
  BY <1>2, EmptySeq, C2CAssumption
<1>4. QED
  BY <1>1, <1>3, C2CAssumption DEF Init, TypeOK

(***************************************************************************)
(* The state has its types, msg_id is a key of the hub's table, and no      *)
(* outbox exceeds OUTBOX_MAX (_enqueue), in every run of the whole.         *)
(***************************************************************************)
THEOREM WholeTypeCorrect == Spec => []TypeOK
BY InitTyped, TypeStep, PTL DEF Spec

----------------------------------------------------------------------------
(* What the refinement rests on *)

\* What is sent to a ferry was stored.
StoredFirst ==
  /\ IsFiniteSet(stored) /\ messages \subseteq stored
  /\ \A h \in Host : Range(down[h]) \subseteq stored

\* What a ferry remembers, acknowledges, or has acknowledged was taken.
Remembered ==
  \A h \in Host : reader[h] \in taken \cup {NoEnvelope} /\ seen[h] \subseteq taken

AcksOnTheWay ==
  \A h \in Host, m \in Envelopes :
    AckOf(m) \in Range(outbox[h]) \cup Range(up[h]) => m \in taken

AcksStored ==
  \A h \in Host, m \in Envelopes : <<m.msg_id, h>> \in acks => m \in taken

\* A post that _flush believes it has sent is on its way or has arrived.
SentOnward ==
  \A h \in Host, m \in Envelopes :
    sending[h] = Post(m) => Post(m) \in Range(up[h]) \/ m \in stored

LEMMA OperationsDiffer ==
  ASSUME NEW m, NEW n
  PROVE  /\ Post(m) = Post(n) => m = n
         /\ AckOf(m) = AckOf(n) => m = n
         /\ Post(m) # AckOf(n) /\ Post(m) # Announce /\ AckOf(m) # Announce
         /\ Post(m) # NoOp
BY DEF Post, AckOf, Announce, NoOp

LEMMA NothingInNothing == Range(<<>>) = {}
BY DEF Range

(***************************************************************************)
(* The hub's tables only ever gain the envelope that is put.                *)
(***************************************************************************)
LEMMA PutAdds ==
  ASSUME MB!TypeOK, NEW m \in Envelopes, MB!Put(m)
  PROVE  /\ messages' \subseteq messages \cup {m} /\ acks' \subseteq acks
         /\ now' = now
BY DEF MB!Put, MB!Delete, MB!Inserted

LEMMA StoredStep ==
  ASSUME TypeOK, StoredFirst, [Next]_vars
  PROVE  StoredFirst'
<1>1. ASSUME NEW h \in Host, NEW m \in Envelopes, HubPost(h, m)
      PROVE  StoredFirst'
  <2>1. IsFiniteSet(stored \cup {m})
    BY FS_AddElement DEF StoredFirst
  <2>2. messages' \subseteq messages \cup {m} /\ stored' = stored \cup {m}
    BY <1>1, PutAdds DEF HubPost, TypeOK
  <2>3. \A g \in Host : Range(down'[g]) \subseteq Range(down[g]) \cup {m}
    BY <1>1, PushTyped
  <2>4. QED
    BY <2>1, <2>2, <2>3 DEF StoredFirst
<1>2. ASSUME NEW h \in Host, Connect(h) \/ HubAnnounce(h)
      PROVE  StoredFirst'
  BY <1>2, DrainTyped DEF StoredFirst, Connect, HubAnnounce, Reads, mailbox, history
<1>3. ASSUME NEW h \in Host, NEW m \in Envelopes,
             DeliverDuplicate(h, m) \/ Hold(h, m) \/ Inject(h, m)
      PROVE  StoredFirst'
  <2>1. Receives(h, m)
    BY <1>3 DEF DeliverDuplicate, Hold, Inject
  <2>2. QED
    BY <2>1, ReceivesTyped DEF StoredFirst, Receives, mailbox
<1>4. ASSUME NEW h \in Host, Unlinked(h), UNCHANGED <<mailbox, stored>>
      PROVE  StoredFirst'
  <2>1. \A g \in Host : down'[g] = down[g] \/ down'[g] = <<>>
    BY <1>4 DEF Unlinked, TypeOK
  <2>2. QED
    BY <1>4, <2>1, NothingInNothing DEF StoredFirst, mailbox
<1>5. CASE KillHub
  <2>1. \A g \in Host : down'[g] = <<>>
    BY <1>5 DEF KillHub
  <2>2. QED
    BY <1>5, <2>1, NothingInNothing DEF KillHub, StoredFirst, mailbox, history
<1>6. CASE Sweep
  <2>1. messages' \subseteq messages
    BY <1>6 DEF Sweep, MB!SweepExpired, MB!Delete
  <2>2. QED
    BY <1>6, <2>1 DEF Sweep, StoredFirst, wires, history
<1>7. CASE Tick
  BY <1>7 DEF Tick, MB!Tick, StoredFirst, wires, history
<1>8. CASE UNCHANGED <<messages, down, stored>>
  BY <1>8 DEF StoredFirst
<1>9. QED
  BY <1>1, <1>2, <1>3, <1>4, <1>5, <1>6, <1>7, <1>8
  DEF Next, FlushStep, HubStep, ReaderStep, HubAck, Reads, MB!Ack, Say, Write, Pop,
      Delivered, WindowEnds, AnnouncerTick, SessionStarts, SessionEnds, Break,
      KillFerry, vars, mailbox, ferry, wires, history

LEMMA RememberedStep ==
  ASSUME TypeOK, Remembered, [Next]_vars
  PROVE  Remembered'
<1>1. ASSUME NEW h \in Host, NEW m \in Envelopes, Inject(h, m)
      PROVE  Remembered'
  BY <1>1 DEF TypeOK, Remembered, Inject
<1>2. ASSUME NEW h \in Host, NEW m \in Envelopes, Delivered(h, m)
      PROVE  Remembered'
  BY <1>2 DEF TypeOK, Remembered, Delivered, history
<1>3. ASSUME NEW h \in Host, WindowEnds(h) \/ KillFerry(h)
      PROVE  Remembered'
  BY <1>3 DEF TypeOK, Remembered, WindowEnds, KillFerry, history
<1>4. CASE UNCHANGED <<reader, seen, taken>>
  BY <1>4 DEF Remembered
<1>5. QED
  BY <1>1, <1>2, <1>3, <1>4
  DEF Next, FlushStep, HubStep, ReaderStep, HubPost, HubAck, HubAnnounce, Reads, Say,
      Write, Pop, Connect, DeliverDuplicate, Hold, Receives, AnnouncerTick,
      SessionStarts, SessionEnds, Break, KillHub, Sweep, Tick, vars, ferry, history

(***************************************************************************)
(* Queueing what is no acknowledgement, or one of a message that was taken. *)
(***************************************************************************)
LEMMA AcksQueued ==
  ASSUME TypeOK, AcksOnTheWay, NEW h \in Host, NEW op \in Operation, Enqueue(h, op),
         up' = up, taken' = taken, \A m \in Envelopes : op = AckOf(m) => m \in taken
  PROVE  AcksOnTheWay'
<1>1. /\ \A g \in Host : g # h => outbox'[g] = outbox[g]
      /\ Range(outbox'[h]) \subseteq Range(outbox[h]) \cup {op}
  BY Enqueued
<1>2. QED
  BY <1>1 DEF AcksOnTheWay

(***************************************************************************)
(* Queues that only lose operations, or pass them on.                       *)
(***************************************************************************)
LEMMA AcksMoved ==
  ASSUME AcksOnTheWay, taken \subseteq taken',
         \A h \in Host : Range(outbox'[h]) \cup Range(up'[h])
                           \subseteq Range(outbox[h]) \cup Range(up[h])
  PROVE  AcksOnTheWay'
BY DEF AcksOnTheWay

LEMMA AcksOnTheWayStep ==
  ASSUME TypeOK, Remembered, AcksOnTheWay, [Next]_vars
  PROVE  AcksOnTheWay'
<1>1. ASSUME NEW m \in Envelopes, Say(m)
      PROVE  AcksOnTheWay'
  BY <1>1, AcksQueued, EnvelopeShape, OperationTyped, OperationsDiffer DEF Say, wires
<1>2. ASSUME NEW h \in Host, AnnouncerTick(h)
      PROVE  AcksOnTheWay'
  BY <1>2, AcksQueued, OperationTyped, OperationsDiffer DEF AnnouncerTick, wires, history
<1>3. ASSUME NEW h \in Host, NEW m \in Envelopes, DeliverDuplicate(h, m) \/ Delivered(h, m)
      PROVE  AcksOnTheWay'
  <2>1. m \in taken
    BY <1>3 DEF Remembered, DeliverDuplicate, Delivered
  <2>2. QED
    BY <1>3, <2>1, AcksQueued, OperationTyped, OperationsDiffer
    DEF DeliverDuplicate, Receives, Delivered, wires, history
<1>4. ASSUME NEW h \in Host, Write(h)
      PROVE  AcksOnTheWay'
  <2>1. outbox' = outbox /\ taken' = taken
    BY <1>4 DEF Write, history
  <2>2. /\ Range(up'[h]) \subseteq Range(up[h]) \cup Range(outbox[h])
        /\ \A g \in Host : g # h => up'[g] = up[g]
    BY <1>4, WriteTyped
  <2>3. \A g \in Host : Range(outbox'[g]) \cup Range(up'[g])
                           \subseteq Range(outbox[g]) \cup Range(up[g])
    BY <2>1, <2>2
  <2> QED
    BY <2>1, <2>3, AcksMoved
<1>5. ASSUME NEW h \in Host, Pop(h)
      PROVE  AcksOnTheWay'
  BY <1>5, PopTyped, AcksMoved DEF Pop, wires, history
<1>6. ASSUME NEW h \in Host, NEW op, Reads(h, op)
      PROVE  AcksOnTheWay'
  BY <1>6, ReadsTyped, AcksMoved DEF Reads, ferry
<1>7. ASSUME NEW h \in Host, Break(h) \/ KillFerry(h)
      PROVE  AcksOnTheWay'
  <2>1. \A g \in Host : /\ outbox'[g] = outbox[g] \/ outbox'[g] = <<>>
                        /\ up'[g] = up[g] \/ up'[g] = <<>>
    BY <1>7 DEF Break, KillFerry, Unlinked, TypeOK
  <2>2. QED
    BY <1>7, <2>1, NothingInNothing, AcksMoved DEF Break, KillFerry, history
<1>8. CASE KillHub
  <2>1. \A g \in Host : up'[g] = <<>>
    BY <1>8 DEF KillHub
  <2>2. QED
    BY <1>8, <2>1, NothingInNothing, AcksMoved DEF KillHub, history
<1>9. CASE UNCHANGED <<outbox, up>> /\ taken \subseteq taken'
  BY <1>9, AcksMoved
<1>10. QED
  BY <1>1, <1>2, <1>3, <1>4, <1>5, <1>6, <1>7, <1>8, <1>9
  DEF Next, FlushStep, HubStep, ReaderStep, HubPost, HubAck, HubAnnounce, Connect, Hold,
      Inject, Receives, WindowEnds, SessionStarts, SessionEnds, Sweep, Tick, vars, ferry,
      wires, history

LEMMA AcksStoredStep ==
  ASSUME TypeOK, AcksOnTheWay, AcksStored, [Next]_vars
  PROVE  AcksStored'
<1>1. ASSUME NEW h \in Host, NEW m \in Envelopes, HubAck(h, m)
      PROVE  AcksStored'
  <2>1. Reads(h, AckOf(m))
    BY <1>1 DEF HubAck
  <2>2. AckOf(m) \in Range(up[h])
    BY <2>1, ReadsTyped
  <2>3. m \in taken /\ taken' = taken
    BY <2>1, <2>2 DEF AcksOnTheWay, Reads
  <2>4. acks' = acks \cup {<<m.msg_id, h>>}
    BY <1>1 DEF HubAck, MB!Ack
  <2>5. QED
    BY <2>3, <2>4, EnvelopeShape DEF AcksStored
<1>2. CASE acks' \subseteq acks /\ taken \subseteq taken'
  BY <1>2 DEF AcksStored
<1>3. ASSUME NEW h \in Host, NEW m \in Envelopes, HubPost(h, m)
      PROVE  AcksStored'
  BY <1>2, <1>3, PutAdds DEF HubPost, Reads, TypeOK
<1>4. CASE Sweep \/ Tick
  BY <1>2, <1>4 DEF Sweep, Tick, MB!SweepExpired, MB!Tick, MB!Delete, history
<1>5. QED
  BY <1>1, <1>2, <1>3, <1>4
  DEF Next, FlushStep, HubStep, ReaderStep, HubAnnounce, Reads, Say, Write, Pop, Connect,
      DeliverDuplicate, Hold, Inject, Receives, Delivered, WindowEnds, AnnouncerTick,
      SessionStarts, SessionEnds, Break, KillFerry, KillHub, vars, mailbox, history

LEMMA SentOnwardStep ==
  ASSUME TypeOK, SentOnward, [Next]_vars
  PROVE  SentOnward'
<1>1. ASSUME NEW h \in Host, Write(h)
      PROVE  SentOnward'
  BY <1>1, WriteTyped DEF SentOnward, Write, history
<1>2. ASSUME NEW h \in Host, Pop(h)
      PROVE  SentOnward'
  BY <1>2, OperationsDiffer DEF SentOnward, Pop, TypeOK, wires, history
<1>3. ASSUME NEW h \in Host, NEW op, Reads(h, op),
             \A m \in Envelopes : op = Post(m) => m \in stored', stored \subseteq stored'
      PROVE  SentOnward'
  <2>1. sending' = sending
    BY <1>3 DEF Reads, ferry
  <2>2. /\ \A g \in Host : g # h => up'[g] = up[g]
        /\ Range(up[h]) = Range(up'[h]) \cup {op}
    BY <1>3, ReadsTyped
  <2>3. QED
    BY <1>3, <2>1, <2>2 DEF SentOnward
<1>4. ASSUME NEW h \in Host, NEW m \in Envelopes, HubPost(h, m) \/ HubAck(h, m)
      PROVE  SentOnward'
  BY <1>3, <1>4, OperationsDiffer DEF HubPost, HubAck
<1>5. ASSUME NEW h \in Host, HubAnnounce(h)
      PROVE  SentOnward'
  BY <1>3, <1>5, OperationsDiffer DEF HubAnnounce
<1>6. ASSUME NEW h \in Host, Unlinked(h), stored' = stored
      PROVE  SentOnward'
  BY <1>6, OperationsDiffer DEF SentOnward, Unlinked, TypeOK
<1>7. CASE KillHub
  BY <1>7, OperationsDiffer DEF SentOnward, KillHub
<1>8. CASE UNCHANGED <<sending, up, stored>>
  BY <1>8 DEF SentOnward
<1>9. QED
  BY <1>1, <1>2, <1>4, <1>5, <1>6, <1>7, <1>8
  DEF Next, FlushStep, HubStep, ReaderStep, Say, Connect, DeliverDuplicate, Hold, Inject,
      Receives, Delivered, WindowEnds, AnnouncerTick, SessionStarts, SessionEnds, Break,
      KillFerry, Sweep, Tick, vars, ferry, wires, history

----------------------------------------------------------------------------
(* What the hub keeps *)

LEMMA SameCardinality ==
  \A S : MB!Cardinality(S) = Cardinality(S) /\ Promise!Cardinality(S) = Cardinality(S)
BY DEF Cardinality, MB!Cardinality, Promise!Cardinality, IsFiniteSet, MB!IsFiniteSet,
       Promise!IsFiniteSet

(***************************************************************************)
(* Kept without the cases of Owed that no envelope here has.                *)
(***************************************************************************)
LEMMA KeptIs ==
  /\ Kept = {m \in Envelopes : /\ m \in messages /\ MB!ExpiresAt(m) > now
                               /\ <<m.msg_id, m.target_host>> \notin acks}
  /\ Kept' = {m \in Envelopes : /\ m \in messages' /\ MB!ExpiresAt(m) > now'
                                /\ <<m.msg_id, m.target_host>> \notin acks'}
BY EnvelopeShape DEF Kept, MB!Owed, MB!Addressed, MB!ExpiresAt

LEMMA ExpiryIsInt ==
  ASSUME NEW m \in Envelopes
  PROVE  MB!ExpiresAt(m) \in Int
BY EnvelopeShape DEF MB!ExpiresAt

(***************************************************************************)
(* A deletion that spares an envelope spares its acknowledgements.          *)
(***************************************************************************)
LEMMA SparedKeepsAcks ==
  ASSUME NEW rows, NEW victims, rows \subseteq Envelopes, victims \subseteq rows,
         MB!Delete(rows, victims), NEW m \in rows, NEW h
  PROVE  m \notin victims => (<<m.msg_id, h>> \in acks' <=> <<m.msg_id, h>> \in acks)
<1>1. ASSUME m \notin victims
      PROVE  m.msg_id \notin MB!Ids(victims)
  BY <1>1, EnvelopeShape DEF MB!Ids
<1>2. acks' = {a \in acks : a[1] \notin MB!Ids(victims)}
  BY DEF MB!Delete
<1>3. QED
  BY <1>1, <1>2

(***************************************************************************)
(* A post may drop what was kept, itself included, only for a reason that   *)
(* Relay knows.                                                             *)
(***************************************************************************)
LEMMA PutDisplaces ==
  ASSUME TypeOK, StoredFirst, AcksStored, NEW m \in Envelopes,
         MB!Put(m), stored' = stored \cup {m}
  PROVE  /\ Kept' \subseteq Kept \cup {m}
         /\ \A n \in (Kept \cup {m}) \ Kept' :
              \/ n \in taken \/ Promise!Expired(n, now)
              \/ Promise!Displaced(n, stored')
<1> DEFINE rows == MB!Inserted(m)
           victims == MB!OverCap(rows, m.project)
<1>1. /\ MB!Delete(rows, victims) /\ now' = now
      /\ messages' = rows \ victims /\ acks' \subseteq acks
  BY DEF MB!Put, MB!Delete
<1>2. messages \subseteq Envelopes /\ now \in Nat
  BY C2CAssumption DEF TypeOK, MB!TypeOK
<1>3. /\ rows \subseteq Envelopes /\ messages \subseteq rows
      /\ rows \subseteq messages \cup {m} /\ m \in rows
  BY <1>2, EnvelopeShape DEF MB!Inserted, MB!Ids
<1>4. victims \subseteq rows
  BY DEF MB!OverCap
<1>5. rows \subseteq stored' /\ IsFiniteSet(stored')
  BY <1>3, FS_AddElement DEF StoredFirst
<1>6. ASSUME NEW n \in victims
      PROVE  Promise!Displaced(n, stored')
  <2> DEFINE others == Promise!Successors(n, stored')
  <2>1. n \in Envelopes /\ Cardinality(MB!Newer(rows, n)) >= MaxPerProject
    BY <1>3, <1>4, SameCardinality DEF MB!OverCap
  <2>2. MB!Newer(rows, n) \subseteq others
    BY <1>3, <1>5, <2>1, EnvelopeShape DEF MB!Newer, MB!Older, Promise!Successors
  <2>3. IsFiniteSet(others)
    BY <1>5, FS_Subset DEF Promise!Successors
  <2>4. /\ Cardinality(MB!Newer(rows, n)) <= Cardinality(others)
        /\ Cardinality(MB!Newer(rows, n)) \in Nat /\ Cardinality(others) \in Nat
    BY <2>2, <2>3, FS_Subset, FS_CardinalityType
  <2>5. Cardinality(others) >= MaxPerProject
    BY <2>1, <2>4, C2CAssumption
  <2>6. QED
    BY <2>5, SameCardinality DEF Promise!Displaced
<1> HIDE DEF rows, victims
<1>7. \A n \in rows \ victims : \A g : <<n.msg_id, g>> \in acks' <=> <<n.msg_id, g>> \in acks
  BY <1>1, <1>3, <1>4, SparedKeepsAcks
<1>8. Kept' \subseteq Kept \cup {m}
  BY <1>1, <1>3, <1>7, KeptIs
<1>9. ASSUME NEW n \in (Kept \cup {m}) \ Kept'
      PROVE  n \in taken \/ Promise!Expired(n, now) \/ Promise!Displaced(n, stored')
  <2>1. n \in Envelopes /\ n \in rows
    BY <1>3, KeptIs
  <2>2. CASE n \in victims
    BY <1>6, <2>2
  <2>3. CASE ~ (MB!ExpiresAt(n) > now)
    BY <1>2, <2>1, <2>3, ExpiryIsInt DEF Promise!Expired, MB!ExpiresAt
  <2>4. CASE <<n.msg_id, n.target_host>> \in acks
    BY <2>1, <2>4, EnvelopeShape DEF AcksStored
  <2>5. QED
    BY <1>1, <1>9, <2>1, <2>2, <2>3, <2>4, KeptIs
<1>10. QED
  BY <1>8, <1>9

(***************************************************************************)
(* An acknowledgement settles its message for its target, and for another   *)
(* host nothing.                                                            *)
(***************************************************************************)
LEMMA AckSettles ==
  ASSUME NEW m \in Envelopes, NEW h \in Host, MB!Ack(m.msg_id, h)
  PROVE  Kept' = Kept \/ Kept' = Kept \ {m}
<1>1. messages' = messages /\ now' = now /\ acks' = acks \cup {<<m.msg_id, h>>}
  BY DEF MB!Ack
<1>2. \A n \in Envelopes : n # m => n.msg_id # m.msg_id
  BY EnvelopeShape
<1>3. CASE h = m.target_host
  <2>1. Kept' = Kept \ {m}
    BY <1>1, <1>2, <1>3, KeptIs
  <2>2. QED
    BY <2>1
<1>4. CASE h # m.target_host
  <2>1. Kept' = Kept
    BY <1>1, <1>2, <1>4, KeptIs
  <2>2. QED
    BY <2>1
<1>5. QED
  BY <1>3, <1>4

(***************************************************************************)
(* The sweeper takes nothing that is kept, and time what has expired.       *)
(***************************************************************************)
LEMMA SweepKeeps ==
  ASSUME MB!TypeOK, MB!SweepExpired
  PROVE  Kept' = Kept
<1> DEFINE victims == {m \in messages : MB!ExpiresAt(m) <= now}
<1>1. MB!Delete(messages, victims) /\ messages' = messages \ victims /\ now' = now
  BY DEF MB!SweepExpired, MB!Delete
<1>2. messages \subseteq Envelopes /\ now \in Int
  BY C2CAssumption DEF MB!TypeOK
<1>3. \A m \in messages \ victims : \A g :
        <<m.msg_id, g>> \in acks' <=> <<m.msg_id, g>> \in acks
  BY <1>1, <1>2, SparedKeepsAcks
<1>4. \A m \in Envelopes : MB!ExpiresAt(m) > now => m \notin victims
  BY <1>2, ExpiryIsInt
<1> HIDE DEF victims
<1>5. QED
  BY <1>1, <1>2, <1>3, <1>4, KeptIs

LEMMA TickPasses ==
  ASSUME MB!TypeOK, MB!Tick
  PROVE  /\ now' \in Nat /\ now' > now
         /\ Kept' = {m \in Kept : ~ Promise!Expired(m, now')}
<1>1. now \in Nat /\ now' \in Nat /\ now' > now /\ messages' = messages /\ acks' = acks
  BY C2CAssumption DEF MB!TypeOK, MB!Tick
<1>2. \A m \in Envelopes : MB!ExpiresAt(m) > now' <=>
        MB!ExpiresAt(m) > now /\ ~ Promise!Expired(m, now')
  <2> SUFFICES ASSUME NEW m \in Envelopes
               PROVE  MB!ExpiresAt(m) > now' <=>
                        MB!ExpiresAt(m) > now /\ ~ Promise!Expired(m, now')
    OBVIOUS
  <2>1. Promise!Expired(m, now') <=> MB!ExpiresAt(m) <= now'
    BY DEF Promise!Expired, MB!ExpiresAt
  <2>2. QED
    BY <1>1, <2>1, ExpiryIsInt
<1>3. QED
  BY <1>1, <1>2, KeptIs
----------------------------------------------------------------------------
(* What is on its way to the hub *)

(***************************************************************************)
(* Queueing an operation puts its message, if it is a post, on its way; an  *)
(* outbox that was full loses another, or none that is not repeated, which  *)
(* counts as a fault.                                                       *)
(***************************************************************************)
LEMMA QueuedWaits ==
  ASSUME TypeOK, NEW h \in Host, NEW op \in Operation, Enqueue(h, op), up' = up
  PROVE  Promise!Waits(OnTheWay \cup {m \in Envelopes : op = Post(m)})
<1> DEFINE new == {m \in Envelopes : op = Post(m)}
<1>1. /\ \A g \in Host : g # h => outbox'[g] = outbox[g]
      /\ Range(outbox'[h]) \subseteq Range(outbox[h]) \cup {op}
      /\ \/ faults' = faults /\ Range(outbox'[h]) = Range(outbox[h]) \cup {op}
         \/ faults' = faults + 1
  BY Enqueued
<1>2. OnTheWay' \subseteq OnTheWay \cup new
  BY <1>1 DEF OnTheWay
<1>3. CASE faults' = faults /\ Range(outbox'[h]) = Range(outbox[h]) \cup {op}
  <2>1. OnTheWay' = OnTheWay \cup new
    BY <1>1, <1>3 DEF OnTheWay
  <2>2. QED
    BY <1>3, <2>1 DEF Promise!Waits
<1>4. QED
  BY <1>1, <1>2, <1>3 DEF Promise!Waits

(***************************************************************************)
(* Queues that only lose operations take no message up.                     *)
(***************************************************************************)
LEMMA FewerWait ==
  ASSUME \A h \in Host : Range(outbox'[h]) \cup Range(up'[h])
                           \subseteq Range(outbox[h]) \cup Range(up[h])
  PROVE  OnTheWay' \subseteq OnTheWay
BY DEF OnTheWay

(***************************************************************************)
(* A queue that loses one operation takes at most its message off the way.  *)
(***************************************************************************)
LEMMA OneLeaves ==
  ASSUME NEW h \in Host, NEW op,
         \A g \in Host : g # h => /\ Range(outbox'[g]) = Range(outbox[g])
                                  /\ Range(up'[g]) = Range(up[g]),
         Range(outbox'[h]) \cup Range(up'[h]) \cup {op}
           = Range(outbox[h]) \cup Range(up[h]) \cup {op},
         op \in Range(outbox[h]) \cup Range(up[h])
  PROVE  /\ \A m \in Envelopes : op = Post(m) => OnTheWay' = OnTheWay \/ OnTheWay' = OnTheWay \ {m}
         /\ (\A m \in Envelopes : op # Post(m)) => OnTheWay' = OnTheWay
<1>1. ASSUME NEW m \in Envelopes, op # Post(m)
      PROVE  m \in OnTheWay' <=> m \in OnTheWay
  BY <1>1 DEF OnTheWay
<1>2. OnTheWay \subseteq Envelopes /\ OnTheWay' \subseteq Envelopes
  BY DEF OnTheWay
<1>3. ASSUME NEW m \in Envelopes, op = Post(m)
      PROVE  OnTheWay' = OnTheWay \/ OnTheWay' = OnTheWay \ {m}
  <2>1. m \in OnTheWay
    BY <1>3 DEF OnTheWay
  <2>2. \A n \in Envelopes : n # m => (n \in OnTheWay' <=> n \in OnTheWay)
    BY <1>1, <1>3, OperationsDiffer
  <2>3. QED
    BY <1>2, <2>1, <2>2
<1>4. QED
  BY <1>1, <1>2, <1>3

LEMMA KeptSame ==
  ASSUME UNCHANGED mailbox
  PROVE  now' = now /\ Kept' = Kept
BY KeptIs DEF mailbox

LEMMA WaySame ==
  ASSUME UNCHANGED <<outbox, up>>
  PROVE  OnTheWay' = OnTheWay
BY DEF OnTheWay

----------------------------------------------------------------------------
(* Every step is a step of Relay, or none *)

\* A step that Relay allows, or does not see.
Allowed == Promise!Next \/ UNCHANGED Promise!vars

LEMMA AFault ==
  ASSUME UNCHANGED <<mailbox, history>>, Promise!Waits(OnTheWay)
  PROVE  Allowed
BY KeptSame DEF Allowed, Promise!Next, Promise!Fault, history

LEMMA Unseen ==
  ASSUME UNCHANGED <<mailbox, history, outbox, up, faults>>
  PROVE  Allowed
BY KeptSame, WaySame DEF Allowed, Promise!vars, history

LEMMA SayAllowed ==
  ASSUME TypeOK, NEW m \in Envelopes, Say(m)
  PROVE  Allowed
<1>1. /\ m.origin_host \in Host /\ Post(m) \in Operation
      /\ Enqueue(m.origin_host, Post(m)) /\ up' = up
  BY EnvelopeShape, OperationTyped DEF Say, wires
<1>2. {n \in Envelopes : Post(m) = Post(n)} = {m}
  BY OperationsDiffer
<1>3. Promise!Waits(OnTheWay \cup {m})
  BY <1>1, <1>2, QueuedWaits
<1>4. /\ now' = now /\ Kept' = Kept /\ m \notin said /\ said' = said \cup {m}
      /\ stored' = stored /\ taken' = taken
  BY KeptSame DEF Say
<1>5. QED
  BY <1>3, <1>4 DEF Allowed, Promise!Next, Promise!Send

LEMMA WriteAllowed ==
  ASSUME TypeOK, NEW h \in Host, Write(h)
  PROVE  Allowed
<1>1. /\ outbox' = outbox /\ sending'[h] \in Range(outbox[h])
      /\ Range(up'[h]) = Range(up[h]) \cup {sending'[h]}
      /\ \A g \in Host : g # h => up'[g] = up[g]
  BY WriteTyped DEF Write
<1>2. OnTheWay' = OnTheWay
  BY <1>1 DEF OnTheWay
<1>3. QED
  BY <1>2, KeptSame DEF Allowed, Promise!vars, Write, history

LEMMA PopAllowed ==
  ASSUME TypeOK, SentOnward, NEW h \in Host, Pop(h)
  PROVE  Allowed
<1>1. PICK op : op = Head(outbox[h])
  OBVIOUS
<1>2. /\ outbox[h] \in Seq(Operation) /\ outbox[h] # <<>>
      /\ up' = up /\ UNCHANGED <<mailbox, history>>
      /\ faults' = IF op = sending[h] THEN faults ELSE faults + 1
  BY <1>1 DEF TypeOK, Pop, wires
<1>3. /\ op \in Range(outbox[h])
      /\ \A g \in Host : g # h => outbox'[g] = outbox[g]
      /\ Range(outbox[h]) = Range(outbox'[h]) \cup {op}
  BY <1>1, PopTyped
<1>4. /\ \A m \in Envelopes : op = Post(m) => OnTheWay' = OnTheWay \/ OnTheWay' = OnTheWay \ {m}
      /\ (\A m \in Envelopes : op # Post(m)) => OnTheWay' = OnTheWay
  <2>1. /\ Range(outbox'[h]) \cup Range(up'[h]) \cup {op}
             = Range(outbox[h]) \cup Range(up[h]) \cup {op}
        /\ op \in Range(outbox[h]) \cup Range(up[h])
        /\ \A g \in Host : g # h => /\ Range(outbox'[g]) = Range(outbox[g])
                                    /\ Range(up'[g]) = Range(up[g])
    BY <1>2, <1>3
  <2>2. QED
    BY <2>1, OneLeaves
<1>5. CASE op # sending[h]
  <2>1. OnTheWay' \subseteq OnTheWay
    BY <1>2, <1>3, FewerWait
  <2>2. QED
    BY <1>2, <1>5, <2>1, AFault DEF Promise!Waits
<1>6. CASE op = sending[h] /\ OnTheWay' = OnTheWay
  BY <1>2, <1>6, KeptSame DEF Allowed, Promise!vars, history
<1>7. CASE op = sending[h] /\ OnTheWay' # OnTheWay
  <2>1. PICK m \in Envelopes : op = Post(m) /\ OnTheWay' = OnTheWay \ {m}
    BY <1>4, <1>7
  <2>2. m \notin OnTheWay'
    BY <2>1
  <2>3. Post(m) \notin Range(up[h])
    BY <1>2, <2>2 DEF OnTheWay
  <2>4. m \in stored
    BY <1>7, <2>1, <2>3 DEF SentOnward
  <2>5. faults' = faults
    BY <1>2, <1>7
  <2>6. QED
    BY <1>2, <2>1, <2>4, <2>5, KeptSame
    DEF Allowed, Promise!Next, Promise!Retire, Promise!Waits, history
<1>8. QED
  BY <1>5, <1>6, <1>7

LEMMA HubPostAllowed ==
  ASSUME TypeOK, StoredFirst, AcksStored, NEW h \in Host, NEW m \in Envelopes, HubPost(h, m)
  PROVE  Allowed
<1>1. /\ Reads(h, Post(m)) /\ MB!Put(m) /\ stored' = stored \cup {m}
  BY DEF HubPost
<1>2. /\ \A g \in Host : g # h => up'[g] = up[g]
      /\ Range(up[h]) = Range(up'[h]) \cup {Post(m)}
  BY <1>1, ReadsTyped
<1>3. outbox' = outbox /\ said' = said /\ taken' = taken /\ faults' = faults
  BY <1>1 DEF Reads, ferry
<1>4. OnTheWay' = OnTheWay \/ OnTheWay' = OnTheWay \ {m}
  BY <1>2, <1>3, OneLeaves
<1>5. m \in OnTheWay
  BY <1>2 DEF OnTheWay
<1>6. /\ now' = now /\ Kept' \subseteq Kept \cup {m}
      /\ \A n \in (Kept \cup {m}) \ Kept' :
           \/ n \in taken \/ Promise!Expired(n, now)
           \/ Promise!Displaced(n, stored')
  BY <1>1, PutDisplaces, PutAdds DEF TypeOK
<1>7. QED
  BY <1>1, <1>3, <1>4, <1>5, <1>6
  DEF Allowed, Promise!Next, Promise!Store, Promise!Waits

LEMMA HubAckAllowed ==
  ASSUME TypeOK, AcksOnTheWay, NEW h \in Host, NEW m \in Envelopes, HubAck(h, m)
  PROVE  Allowed
<1>1. Reads(h, AckOf(m)) /\ MB!Ack(m.msg_id, h) /\ stored' = stored
  BY DEF HubAck
<1>2. /\ \A g \in Host : g # h => up'[g] = up[g]
      /\ Range(up[h]) = Range(up'[h]) \cup {AckOf(m)}
  BY <1>1, ReadsTyped
<1>3. outbox' = outbox /\ said' = said /\ taken' = taken /\ faults' = faults
  BY <1>1 DEF Reads, ferry
<1>4. OnTheWay' = OnTheWay
  BY <1>2, <1>3, OneLeaves, OperationsDiffer
<1>5. m \in taken
  BY <1>2 DEF AcksOnTheWay
<1>6. now' = now /\ (Kept' = Kept \/ Kept' = Kept \ {m})
  BY <1>1, AckSettles DEF MB!Ack
<1>7. QED
  BY <1>1, <1>3, <1>4, <1>5, <1>6
  DEF Allowed, Promise!Next, Promise!Settle, Promise!vars

LEMMA HubAnnounceAllowed ==
  ASSUME TypeOK, NEW h \in Host, HubAnnounce(h)
  PROVE  Allowed
<1>1. Reads(h, Announce) /\ UNCHANGED <<mailbox, stored>>
  BY DEF HubAnnounce
<1>2. /\ \A g \in Host : g # h => up'[g] = up[g]
      /\ Range(up[h]) = Range(up'[h]) \cup {Announce}
  BY <1>1, ReadsTyped
<1>3. outbox' = outbox /\ said' = said /\ taken' = taken /\ faults' = faults
  BY <1>1 DEF Reads, ferry
<1>4. OnTheWay' = OnTheWay
  BY <1>2, <1>3, OneLeaves, OperationsDiffer
<1>5. QED
  BY <1>1, <1>3, <1>4, KeptSame DEF Allowed, Promise!vars

LEMMA ReaderAllowed ==
  ASSUME TypeOK, StoredFirst, NEW h \in Host, NEW m \in Envelopes,
         DeliverDuplicate(h, m) \/ Hold(h, m) \/ Inject(h, m) \/ Delivered(h, m)
  PROVE  Allowed
<1>1. CASE DeliverDuplicate(h, m) \/ Delivered(h, m)
  <2>1. /\ Enqueue(h, AckOf(m)) /\ AckOf(m) \in Operation /\ up' = up
        /\ UNCHANGED <<mailbox, history>>
    BY <1>1, OperationTyped
    DEF DeliverDuplicate, Receives, Delivered, wires, history
  <2>2. {n \in Envelopes : AckOf(m) = Post(n)} = {}
    BY OperationsDiffer
  <2>3. OnTheWay \cup {n \in Envelopes : AckOf(m) = Post(n)} = OnTheWay
    BY <2>2
  <2>4. Promise!Waits(OnTheWay)
    BY <2>1, <2>3, QueuedWaits
  <2>5. QED
    BY <2>1, <2>4, AFault
<1>2. CASE Hold(h, m)
  BY <1>2, Unseen DEF Hold, Receives, history
<1>3. CASE Inject(h, m)
  <2>1. m \in stored
    BY <1>3, ReceivesTyped DEF Inject, StoredFirst
  <2>2. UNCHANGED <<mailbox, outbox, up, said, stored, faults>> /\ taken' = taken \cup {m}
    BY <1>3 DEF Inject, Receives
  <2>3. QED
    BY <2>1, <2>2, KeptSame, WaySame DEF Allowed, Promise!Next, Promise!Take
<1>4. QED
  BY <1>1, <1>2, <1>3

LEMMA AnnouncerAllowed ==
  ASSUME TypeOK, NEW h \in Host, AnnouncerTick(h)
  PROVE  Allowed
<1>1. /\ Enqueue(h, Announce) /\ Announce \in Operation /\ up' = up
      /\ UNCHANGED <<mailbox, history>>
  BY OperationTyped DEF AnnouncerTick, wires
<1>2. OnTheWay \cup {n \in Envelopes : Announce = Post(n)} = OnTheWay
  BY OperationsDiffer
<1>3. Promise!Waits(OnTheWay)
  BY <1>1, <1>2, QueuedWaits
<1>4. QED
  BY <1>1, <1>3, AFault

(***************************************************************************)
(* Whatever breaks only takes messages off their way.                       *)
(***************************************************************************)
LEMMA BreakAllowed ==
  ASSUME TypeOK, KillHub \/ \E h \in Host : Break(h) \/ KillFerry(h)
  PROVE  Allowed
<1>1. /\ \A g \in Host : /\ outbox'[g] = outbox[g] \/ outbox'[g] = <<>>
                         /\ up'[g] = up[g] \/ up'[g] = <<>>
      /\ faults' = faults + 1 /\ UNCHANGED <<mailbox, history>>
  BY DEF KillHub, Break, KillFerry, Unlinked, TypeOK
<1>2. OnTheWay' \subseteq OnTheWay
  BY <1>1, NothingInNothing, FewerWait
<1>3. QED
  BY <1>1, <1>2, AFault DEF Promise!Waits

LEMMA TimeAllowed ==
  ASSUME TypeOK, Sweep \/ Tick
  PROVE  Allowed
<1>1. CASE Sweep
  <2>1. now' = now /\ Kept' = Kept
    BY <1>1, SweepKeeps DEF Sweep, TypeOK, MB!SweepExpired
  <2>2. QED
    BY <1>1, <2>1, WaySame DEF Allowed, Promise!vars, Sweep, ferry, wires, history
<1>2. CASE Tick
  <2>1. now' \in Nat /\ now' > now /\ Kept' = {m \in Kept : ~ Promise!Expired(m, now')}
    BY <1>2, TickPasses DEF Tick, TypeOK
  <2>2. OnTheWay' = OnTheWay /\ UNCHANGED <<said, stored, taken, faults>>
    BY <1>2, WaySame DEF Tick, ferry, wires, history
  <2>3. QED
    BY <2>1, <2>2 DEF Allowed, Promise!Next, Promise!Pass
<1>3. QED
  BY <1>1, <1>2

\* The inductive invariant of the refinement.
RelayInv ==
  TypeOK /\ StoredFirst /\ Remembered /\ AcksOnTheWay /\ AcksStored /\ SentOnward

LEMMA EveryStepAllowed ==
  ASSUME RelayInv, [Next]_vars
  PROVE  Allowed
<1>1. CASE \E m \in Envelopes : Say(m)
  BY <1>1, SayAllowed DEF RelayInv
<1>2. ASSUME NEW h \in Host, FlushStep(h)
      PROVE  Allowed
  BY <1>2, WriteAllowed, PopAllowed DEF RelayInv, FlushStep
<1>3. ASSUME NEW h \in Host, HubStep(h)
      PROVE  Allowed
  BY <1>3, HubPostAllowed, HubAckAllowed, HubAnnounceAllowed DEF RelayInv, HubStep
<1>4. ASSUME NEW h \in Host, ReaderStep(h)
      PROVE  Allowed
  BY <1>4, ReaderAllowed DEF RelayInv, ReaderStep
<1>5. ASSUME NEW h \in Host, Connect(h) \/ WindowEnds(h)
      PROVE  Allowed
  BY <1>5, Unseen DEF Connect, WindowEnds, ferry, wires, history
<1>6. ASSUME NEW h \in Host, AnnouncerTick(h)
      PROVE  Allowed
  BY <1>6, AnnouncerAllowed DEF RelayInv
<1>7. CASE KillHub \/ \E h \in Host : Break(h) \/ KillFerry(h)
  BY <1>7, BreakAllowed DEF RelayInv
<1>8. ASSUME NEW s \in Session, SessionStarts(s) \/ SessionEnds(s)
      PROVE  Allowed
  BY <1>8, Unseen DEF SessionStarts, SessionEnds, ferry, wires, history
<1>9. CASE Sweep \/ Tick
  BY <1>9, TimeAllowed DEF RelayInv
<1>10. CASE UNCHANGED vars
  BY <1>10, Unseen DEF vars, ferry, wires, history
<1>11. QED
  BY <1>1, <1>2, <1>3, <1>4, <1>5, <1>6, <1>7, <1>8, <1>9, <1>10 DEF Next

(***************************************************************************)
(* Hub and ferries together keep the promise Relay states: a message that   *)
(* the hub has stored leaves it only because its target took it, it         *)
(* expired, or newer messages of its project displaced it, and no session   *)
(* takes what was not stored, over any number of breaks and kills.          *)
(***************************************************************************)
THEOREM WholeKeepsPromise == Spec => KeepsPromise
<1>1. Init => RelayInv
  <2> SUFFICES ASSUME Init
               PROVE  RelayInv
    OBVIOUS
  <2>1. TypeOK
    BY InitTyped
  <2>2. /\ \A h \in Host : /\ Range(outbox[h]) = {} /\ Range(up[h]) = {} /\ Range(down[h]) = {}
                           /\ sending[h] = NoOp /\ reader[h] = NoEnvelope /\ seen[h] = {}
        /\ messages = {} /\ acks = {}
    BY NothingInNothing DEF Init, MB!Init
  <2>3. StoredFirst
    BY <2>2, FS_EmptySet DEF StoredFirst, Init
  <2>4. QED
    BY <2>1, <2>2, <2>3, OperationsDiffer
    DEF RelayInv, Remembered, AcksOnTheWay, AcksStored, SentOnward
<1>2. RelayInv /\ [Next]_vars => RelayInv'
  BY TypeStep, StoredStep, RememberedStep, AcksOnTheWayStep, AcksStoredStep, SentOnwardStep
  DEF RelayInv
<1>3. Init => Promise!Init
  <2> SUFFICES ASSUME Init
               PROVE  Promise!Init
    OBVIOUS
  <2>1. OnTheWay = {}
    BY NothingInNothing DEF Init, OnTheWay
  <2>2. Kept = {} /\ now \in Nat
    BY KeptIs, C2CAssumption DEF Init, MB!Init
  <2>3. QED
    BY <2>1, <2>2 DEF Init, Promise!Init
<1>4. RelayInv /\ [Next]_vars => [Promise!Next]_(Promise!vars)
  BY EveryStepAllowed DEF Allowed
<1>5. QED
  BY <1>1, <1>2, <1>3, <1>4, PTL DEF Spec, KeepsPromise, Promise!Spec
=============================================================================
