--------------------------- MODULE MailboxProofs ---------------------------
(***************************************************************************)
(* Proofs about the hub's mailbox for every set of hosts, projects and      *)
(* envelopes, every cap and every clock.                                    *)
(*                                                                          *)
(* TypeOK is inductive by itself.  CapHolds rests on one fact about the     *)
(* eviction query, KeptWithinCap: numbering each kept row by how many rows  *)
(* are newer gives different numbers to different rows (Older is a total    *)
(* order on rows with different msg_ids), all below the cap.                *)
(* PendingUntilSettled rests on the converse, DisplacedByNewer: what an     *)
(* eviction takes has a cap of newer rows that stay.                        *)
(***************************************************************************)
EXTENDS Mailbox, FiniteSetTheorems, TLAPS

\* A set of rows in which msg_id is a key.
Keyed(rows) == \A m, n \in rows : m.msg_id = n.msg_id => m = n

(***************************************************************************)
(* Two different rows are ordered by ORDER BY created_at, msg_id, one way    *)
(* and not the other.                                                       *)
(***************************************************************************)
LEMMA OlderIsStrictOrder ==
  /\ \A m \in EnvelopeType : ~ Older(m, m)
  /\ \A m, n \in EnvelopeType : m.msg_id # n.msg_id => Older(m, n) \/ Older(n, m)
  /\ \A k, m, n \in EnvelopeType : Older(k, m) /\ Older(m, n) => Older(k, n)
BY DEF Older, EnvelopeType

(***************************************************************************)
(* Of two rows of one project, the older has strictly more newer rows: the   *)
(* OFFSET of the eviction query counts rows in a strict order.              *)
(***************************************************************************)
LEMMA OlderHasMoreNewer ==
  ASSUME NEW rows \in SUBSET EnvelopeType, IsFiniteSet(rows),
         NEW m \in rows, NEW n \in rows, m.project = n.project, Older(m, n)
  PROVE  /\ Cardinality(Newer(rows, m)) \in Nat
         /\ Cardinality(Newer(rows, n)) \in Nat
         /\ Cardinality(Newer(rows, n)) < Cardinality(Newer(rows, m))
<1>1. Newer(rows, m) \subseteq rows /\ Newer(rows, n) \subseteq rows
  BY DEF Newer
<1>2. IsFiniteSet(Newer(rows, m)) /\ IsFiniteSet(Newer(rows, n))
  BY <1>1, FS_Subset
<1>3. Newer(rows, n) \subseteq Newer(rows, m)
  BY OlderIsStrictOrder DEF Newer
<1>4. n \in Newer(rows, m) /\ n \notin Newer(rows, n)
  BY OlderIsStrictOrder DEF Newer
<1>5. Cardinality(Newer(rows, n)) <= Cardinality(Newer(rows, m))
  BY <1>2, <1>3, FS_Subset
<1>6. Cardinality(Newer(rows, n)) # Cardinality(Newer(rows, m))
  BY <1>2, <1>3, <1>4, FS_Subset
<1>7. QED
  BY <1>2, <1>5, <1>6, FS_CardinalityType

(***************************************************************************)
(* What _evict_over_cap leaves of a project fits the cap, whatever rows it   *)
(* started from.                                                            *)
(***************************************************************************)
LEMMA KeptWithinCap ==
  ASSUME NEW rows \in SUBSET EnvelopeType, IsFiniteSet(rows), Keyed(rows),
         NEW p
  PROVE  LET kept == {m \in rows \ OverCap(rows, p) : m.project = p}
         IN  IsFiniteSet(kept) /\ Cardinality(kept) <= MaxPerProject
<1> DEFINE kept == {m \in rows \ OverCap(rows, p) : m.project = p}
           rank == [m \in kept |-> Cardinality(Newer(rows, m))]
           places == 0 .. (MaxPerProject - 1)
<1>1. ASSUME NEW m \in kept
      PROVE  rank[m] \in places
  <2>1. m \in rows /\ ~ (Cardinality(Newer(rows, m)) >= MaxPerProject)
    BY DEF OverCap
  <2>2. Newer(rows, m) \subseteq rows
    BY DEF Newer
  <2>3. Cardinality(Newer(rows, m)) \in Nat
    BY <2>2, FS_Subset, FS_CardinalityType
  <2>4. QED
    BY <2>1, <2>3, MailboxAssumption
<1>2. ASSUME NEW m \in kept, NEW n \in kept, m # n
      PROVE  rank[m] # rank[n]
  <2>1. m \in rows /\ n \in rows /\ m.project = n.project
    OBVIOUS
  <2>2. m.msg_id # n.msg_id
    BY <1>2, <2>1 DEF Keyed
  <2>3. Older(m, n) \/ Older(n, m)
    BY <2>1, <2>2, OlderIsStrictOrder
  <2>4. Cardinality(Newer(rows, m)) # Cardinality(Newer(rows, n))
    BY <2>1, <2>3, OlderHasMoreNewer
  <2>5. QED
    BY <2>4
<1>3. rank \in Injection(kept, places)
  BY <1>1, <1>2 DEF Injection, IsInjective
<1>4. IsFiniteSet(places) /\ Cardinality(places) = MaxPerProject
  BY MailboxAssumption, FS_Interval
<1>5. IsFiniteSet(kept) /\ Cardinality(kept) <= Cardinality(places)
  BY <1>3, <1>4, FS_Injection
<1>6. QED
  BY <1>4, <1>5

----------------------------------------------------------------------------

(***************************************************************************)
(* What put inserts keeps the table finite, well typed and keyed.           *)
(***************************************************************************)
LEMMA InsertedIsTable ==
  ASSUME TypeOK, NEW env \in Envelopes
  PROVE  /\ Inserted(env) \subseteq Envelopes
         /\ IsFiniteSet(Inserted(env))
         /\ Keyed(Inserted(env))
         /\ \A m \in Inserted(env) : m \in messages \/ m = env
<1>1. IsFiniteSet(messages \cup {env})
  BY FS_AddElement DEF TypeOK
<1>2. QED
  BY <1>1 DEF Inserted, TypeOK, Keyed, Ids

(***************************************************************************)
(* Deleting rows of a table leaves a table.                                 *)
(***************************************************************************)
LEMMA DeleteKeepsTable ==
  ASSUME NEW rows, NEW victims, rows \subseteq Envelopes, IsFiniteSet(rows),
         Keyed(rows), acks \subseteq Ids(Envelopes) \X Host, now' \in Clock,
         Delete(rows, victims)
  PROVE  TypeOK'
<1>1. IsFiniteSet(rows \ victims)
  BY FS_Subset
<1>2. QED
  BY <1>1 DEF Delete, TypeOK, Keyed

(***************************************************************************)
(* The tables stay well typed and msg_id stays a key of messages.           *)
(***************************************************************************)
THEOREM TypeCorrect == Spec => []TypeOK
<1>1. Init => TypeOK
  BY FS_EmptySet DEF Init, TypeOK
<1>2. TypeOK /\ [Next]_vars => TypeOK'
  <2> SUFFICES ASSUME TypeOK, [Next]_vars
               PROVE  TypeOK'
    OBVIOUS
  <2>1. ASSUME NEW env \in Envelopes, Put(env)
        PROVE  TypeOK'
    BY <2>1, InsertedIsTable, DeleteKeepsTable DEF Put, TypeOK
  <2>2. ASSUME NEW env \in Envelopes, NEW h \in Host, Ack(env.msg_id, h)
        PROVE  TypeOK'
    BY <2>2 DEF Ack, TypeOK, Ids
  <2>3. CASE SweepExpired
    BY <2>3, DeleteKeepsTable DEF SweepExpired, TypeOK, Keyed
  <2>4. CASE Tick
    BY <2>4 DEF Tick, TypeOK
  <2>5. CASE UNCHANGED vars
    BY <2>5 DEF vars, TypeOK
  <2>6. QED
    BY <2>1, <2>2, <2>3, <2>4, <2>5 DEF Next
<1>3. QED
  BY <1>1, <1>2, PTL DEF Spec

(***************************************************************************)
(* A table with fewer rows of every project still fits the cap.             *)
(***************************************************************************)
LEMMA FewerRowsFit ==
  ASSUME TypeOK, CapHolds, messages' \subseteq messages
  PROVE  CapHolds'
<1> SUFFICES ASSUME NEW p \in Project
             PROVE  Cardinality(OfProject(p)') <= MaxPerProject
  BY DEF CapHolds
<1>1. OfProject(p) \subseteq messages /\ OfProject(p)' \subseteq OfProject(p)
  BY DEF OfProject
<1>2. IsFiniteSet(OfProject(p)) /\ IsFiniteSet(OfProject(p)')
  BY <1>1, FS_Subset DEF TypeOK
<1>3. Cardinality(OfProject(p)') <= Cardinality(OfProject(p))
  BY <1>1, <1>2, FS_Subset
<1>4. /\ Cardinality(OfProject(p)) \in Int
      /\ Cardinality(OfProject(p)') \in Int
      /\ MaxPerProject \in Int
  BY <1>2, FS_CardinalityType, MailboxAssumption
<1>5. Cardinality(OfProject(p)) <= MaxPerProject
  BY DEF CapHolds
<1>6. QED
  BY <1>3, <1>4, <1>5

(***************************************************************************)
(* No project ever exceeds its cap: put may only touch the project it        *)
(* inserts into, and leaves at most MaxPerProject rows of that one.          *)
(***************************************************************************)
THEOREM CapAlwaysHolds == Spec => []CapHolds
<1>1. Init => CapHolds
  <2>1. ASSUME Init, NEW p \in Project
        PROVE  OfProject(p) = {}
    BY <2>1 DEF Init, OfProject
  <2>2. QED
    BY <2>1, FS_EmptySet, MailboxAssumption DEF CapHolds
<1>2. TypeOK /\ CapHolds /\ [Next]_vars => CapHolds'
  <2> SUFFICES ASSUME TypeOK, CapHolds, [Next]_vars
               PROVE  CapHolds'
    OBVIOUS
  <2>1. ASSUME NEW env \in Envelopes, Put(env)
        PROVE  CapHolds'
    <3> DEFINE rows == Inserted(env)
               q == env.project
    <3> SUFFICES ASSUME NEW p \in Project
                 PROVE  Cardinality(OfProject(p)') <= MaxPerProject
      BY DEF CapHolds
    <3>1. messages' = rows \ OverCap(rows, q)
      BY <2>1 DEF Put, Delete
    <3>2. rows \in SUBSET EnvelopeType /\ IsFiniteSet(rows) /\ Keyed(rows)
      BY InsertedIsTable, MailboxAssumption
    <3>3. CASE p = q
      <4>1. OfProject(p)' = {m \in rows \ OverCap(rows, q) : m.project = q}
        BY <3>1, <3>3 DEF OfProject
      <4>2. QED
        BY <4>1, <3>2, KeptWithinCap
    <3>4. CASE p # q
      <4>1. OfProject(p)' = OfProject(p)
        BY <3>1, <3>4 DEF OfProject, OverCap, Inserted
      <4>2. QED
        BY <4>1 DEF CapHolds
    <3>5. QED
      BY <3>3, <3>4
  <2>2. ASSUME NEW env \in Envelopes, NEW h \in Host, Ack(env.msg_id, h)
        PROVE  CapHolds'
    BY <2>2, FewerRowsFit DEF Ack
  <2>3. CASE SweepExpired
    BY <2>3, FewerRowsFit DEF SweepExpired, Delete
  <2>4. CASE Tick
    BY <2>4, FewerRowsFit DEF Tick
  <2>5. CASE UNCHANGED vars
    BY <2>5, FewerRowsFit DEF vars
  <2>6. QED
    BY <2>1, <2>2, <2>3, <2>4, <2>5 DEF Next
<1>3. QED
  BY <1>1, <1>2, TypeCorrect, PTL DEF Spec

----------------------------------------------------------------------------

(***************************************************************************)
(* The sweep and the pending query agree on the boundary instant: what a     *)
(* sweep deletes was owed to nobody, and, msg_id being a key, no            *)
(* acknowledgement of a row it keeps goes with it.                          *)
(***************************************************************************)
THEOREM SweepNeverShows == Spec => SweepIsInvisible
<1>1. ASSUME TypeOK, SweepExpired,
             NEW h \in Host, NEW ps \in SUBSET Project
      PROVE  PendingFor(h, ps)' = PendingFor(h, ps)
  <2> DEFINE swept == {m \in messages : ExpiresAt(m) <= now}
  <2>1. /\ messages' = messages \ swept
        /\ acks' = {a \in acks : a[1] \notin Ids(swept)}
        /\ now' = now
    BY <1>1 DEF SweepExpired, Delete
  <2>2. ASSUME NEW m \in messages
        PROVE  Owed(m, h)' <=> Owed(m, h)
    <3>1. ExpiresAt(m) \in Nat /\ now \in Nat
      BY <1>1, MailboxAssumption DEF TypeOK, EnvelopeType, ExpiresAt
    <3>2. CASE ExpiresAt(m) <= now
      BY <3>1, <3>2, <2>1 DEF Owed
    <3>3. CASE ~ (ExpiresAt(m) <= now)
      <4>1. m \in messages' /\ m.msg_id \notin Ids(swept)
        BY <3>3, <2>1, <1>1 DEF TypeOK, Ids
      <4>2. <<m.msg_id, h>> \in acks' <=> <<m.msg_id, h>> \in acks
        BY <4>1, <2>1
      <4>3. QED
        BY <4>1, <4>2, <2>1 DEF Owed
    <3>4. QED
      BY <3>2, <3>3
  <2>3. QED
    BY <2>1, <2>2 DEF PendingFor, Owed
<1>2. TypeOK /\ [Next]_vars =>
        [SweepExpired => \A h \in Host, ps \in SUBSET Project :
           PendingFor(h, ps)' = PendingFor(h, ps)]_vars
  BY <1>1
<1>3. QED
  BY <1>2, TypeCorrect, PTL DEF Spec, SweepIsInvisible

(***************************************************************************)
(* put and the sweep forget acknowledgements only of envelopes they delete.  *)
(***************************************************************************)
THEOREM AcksStayWithEnvelopes == Spec => AcksOutliveNothing
<1>1. ASSUME TypeOK, Next, NEW a \in acks \ acks'
      PROVE  a[1] \notin Ids(messages')
  <2>1. ASSUME NEW rows, NEW victims, Keyed(rows), Delete(rows, victims),
               victims \subseteq rows
        PROVE  a[1] \notin Ids(messages')
    BY <2>1 DEF Delete, Ids, Keyed
  <2>2. ASSUME NEW env \in Envelopes, Put(env)
        PROVE  a[1] \notin Ids(messages')
    <3>1. OverCap(Inserted(env), env.project) \subseteq Inserted(env)
      BY DEF OverCap
    <3>2. QED
      BY <2>1, <2>2, <3>1, <1>1, InsertedIsTable DEF Put
  <2>3. CASE SweepExpired
    <3>1. Keyed(messages)
      BY <1>1 DEF TypeOK, Keyed
    <3>2. QED
      BY <2>1, <2>3, <3>1 DEF SweepExpired
  <2>4. CASE \E env \in Envelopes, h \in Host : Ack(env.msg_id, h)
    BY <2>4 DEF Ack
  <2>5. CASE Tick
    BY <2>5 DEF Tick
  <2>6. QED
    BY <1>1, <2>2, <2>3, <2>4, <2>5 DEF Next
<1>2. TypeOK /\ [Next]_vars =>
        [\A a \in acks \ acks' : a[1] \notin Ids(messages')]_vars
  BY <1>1
<1>3. QED
  BY <1>2, TypeCorrect, PTL DEF Spec, AcksOutliveNothing
----------------------------------------------------------------------------

(***************************************************************************)
(* A set of naturals that is not empty has a least member.                  *)
(***************************************************************************)
LEMMA LeastNatural ==
  ASSUME NEW T, T \subseteq Nat, T # {}
  PROVE  \E x \in T : \A y \in T : x <= y
<1>1. PICK x \in T : \A y \in T : ~ (<<y, x>> \in OpToRel(<, Nat))
  BY NatLessThanWellFounded, WFMin
<1>2. \A y \in T : ~ (y < x)
  BY <1>1 DEF OpToRel
<1> QED
  BY <1>2

(***************************************************************************)
(* A row that the cap displaces leaves MaxPerProject newer rows of its own   *)
(* project behind.  The rows newer than it may be over the cap themselves;   *)
(* but the newest row over the cap has only kept rows after it, and they     *)
(* are newer than every older one.                                          *)
(***************************************************************************)
LEMMA DisplacedByNewer ==
  ASSUME NEW rows \in SUBSET EnvelopeType, IsFiniteSet(rows), NEW p,
         NEW m \in OverCap(rows, p)
  PROVE  Cardinality(Newer(rows \ OverCap(rows, p), m)) >= MaxPerProject
<1> DEFINE over == OverCap(rows, p)
           kept == rows \ over
           late == {n \in over : n = m \/ Older(m, n)}
           size(n) == Cardinality(Newer(rows, n))
           sizes == {size(n) : n \in late}
<1>1. over \subseteq rows /\ \A n \in over : n.project = p /\ size(n) >= MaxPerProject
  BY DEF OverCap
<1>2. \A n \in rows : IsFiniteSet(Newer(rows, n)) /\ size(n) \in Nat
  <2>1. \A n \in rows : Newer(rows, n) \subseteq rows
    BY DEF Newer
  <2>2. QED
    BY <2>1, FS_Subset, FS_CardinalityType
<1>3. PICK n \in late : \A k \in late : size(n) <= size(k)
  <2>1. sizes \in SUBSET Nat
    BY <1>1, <1>2
  <2>2. m \in late /\ size(m) \in sizes
    OBVIOUS
  <2> HIDE DEF sizes
  <2>3. PICK c \in sizes : \A d \in sizes : c <= d
    BY <2>1, <2>2, LeastNatural
  <2>4. QED
    BY <2>3 DEF sizes
<1>4. Newer(rows, n) \subseteq Newer(kept, m)
  <2> SUFFICES ASSUME NEW x \in Newer(rows, n)
               PROVE  x \in Newer(kept, m)
    OBVIOUS
  <2>1. /\ x \in rows /\ n \in rows /\ m \in rows
        /\ x.project = p /\ n.project = p /\ m.project = p /\ Older(n, x)
    BY <1>1 DEF Newer
  <2>2. Older(m, x)
    BY <2>1, OlderIsStrictOrder
  <2>3. size(x) < size(n) /\ size(x) \in Nat /\ size(n) \in Nat
    BY <2>1, OlderHasMoreNewer
  <2>4. x \notin over
    BY <1>3, <2>2, <2>3
  <2>5. QED
    BY <2>1, <2>2, <2>4 DEF Newer
<1>5. IsFiniteSet(Newer(kept, m))
  <2>1. Newer(kept, m) \subseteq rows
    BY DEF Newer
  <2>2. QED
    BY <2>1, FS_Subset
<1>6. /\ Cardinality(Newer(rows, n)) <= Cardinality(Newer(kept, m))
      /\ Cardinality(Newer(kept, m)) \in Nat
  BY <1>4, <1>5, FS_Subset, FS_CardinalityType
<1>7. QED
  BY <1>1, <1>2, <1>6, MailboxAssumption

(***************************************************************************)
(* Store and forward: what a host is owed stays owed to it until that host   *)
(* acknowledges it, it expires, or a cap's worth of newer envelopes of its   *)
(* project is stored.                                                       *)
(***************************************************************************)
THEOREM OwedUntilSettled == Spec => PendingUntilSettled
<1> DEFINE Settled(m, h) ==
             \/ Owed(m, h)'
             \/ <<m.msg_id, h>> \in acks'
             \/ ExpiresAt(m) <= now'
             \/ Cardinality(Newer(messages', m)) >= MaxPerProject
<1>1. ASSUME TypeOK, Next, NEW h \in Host, NEW m \in messages, Owed(m, h)
      PROVE  Settled(m, h)
  <2>1. ExpiresAt(m) \in Nat /\ now \in Nat /\ m \in Envelopes
    BY <1>1, MailboxAssumption DEF TypeOK, EnvelopeType, ExpiresAt
  <2>2. ASSUME NEW env \in Envelopes, Put(env)
        PROVE  Settled(m, h)
    <3> DEFINE rows == Inserted(env)
               over == OverCap(rows, env.project)
    <3>1. /\ messages' = rows \ over
          /\ acks' \subseteq acks
          /\ now' = now
      BY <2>2 DEF Put, Delete
    <3>2. rows \in SUBSET EnvelopeType /\ IsFiniteSet(rows) /\ m \in rows
      BY <1>1, InsertedIsTable, MailboxAssumption DEF Inserted
    <3>3. CASE m \in over
      BY <3>1, <3>2, <3>3, DisplacedByNewer
    <3>4. CASE m \notin over
      BY <3>1, <3>2, <3>4, <1>1 DEF Owed
    <3>5. QED
      BY <3>3, <3>4
  <2>3. ASSUME NEW env \in Envelopes, NEW g \in Host, Ack(env.msg_id, g)
        PROVE  Settled(m, h)
    BY <2>3, <1>1 DEF Ack, Owed
  <2>4. CASE SweepExpired
    BY <2>4, <2>1, <1>1 DEF SweepExpired, Delete, Owed
  <2>5. CASE Tick
    <3>1. now' \in Nat /\ messages' = messages /\ acks' = acks
      BY <2>5, MailboxAssumption DEF Tick
    <3>2. CASE ExpiresAt(m) <= now'
      BY <3>2
    <3>3. CASE ~ (ExpiresAt(m) <= now')
      BY <3>1, <3>3, <2>1, <1>1 DEF Owed
    <3>4. QED
      BY <3>2, <3>3
  <2>6. QED
    BY <1>1, <2>2, <2>3, <2>4, <2>5 DEF Next
<1>2. TypeOK /\ [Next]_vars =>
        [\A h \in Host, m \in messages : Owed(m, h) => Settled(m, h)]_vars
  BY <1>1
<1>3. QED
  BY <1>2, TypeCorrect, PTL DEF Spec, PendingUntilSettled
=============================================================================
