-------------------------- MODULE HubClientProofs --------------------------
(***************************************************************************)
(* Proofs about the ferry's outbox for any limit and any number of          *)
(* operations: types, that no flush overtakes another, what may leave the   *)
(* outbox, and that all flushes together act as the single sender of        *)
(* Outbox.                                                                  *)
(*                                                                          *)
(* InOrder is not inductive.  While a connection lasts, what is in the      *)
(* outbox has not been written, but for the operation a flush waits for,    *)
(* which is the last one written and no younger than anything queued; once  *)
(* the connection has broken, nothing more is written on it.                *)
(***************************************************************************)
EXTENDS HubClient, SequenceTheorems, TLAPS

Increasing(s) == \A i, j \in DOMAIN s : i < j => s[i] < s[j]

----------------------------------------------------------------------------
(* Queues of operations *)

LEMMA Queued ==
  ASSUME NEW S, NEW s \in Seq(S), NEW e \in S
  PROVE  /\ Append(s, e) \in Seq(S) /\ Append(s, e) # <<>>
         /\ Len(Append(s, e)) = Len(s) + 1
         /\ Range(Append(s, e)) = Range(s) \cup {e}
<1> DEFINE one == <<e>>
<1>1. /\ Append(s, e) \in Seq(S) /\ Len(Append(s, e)) = Len(s) + 1
      /\ Append(s, e) = s \o one /\ Append(s, e) # <<>>
  BY AppendProperties, AppendIsConcat
<1>2. one \in Seq(S) /\ Range(one) = {e}
  BY DEF Range
<1> HIDE DEF one
<1>3. Range(s \o one) = Range(s) \cup Range(one)
  BY <1>2, RangeConcatenation
<1>4. QED
  BY <1>1, <1>2, <1>3, Zenon

(***************************************************************************)
(* The head of an increasing queue is older than its tail, which increases. *)
(***************************************************************************)
LEMMA Dequeued ==
  ASSUME NEW s \in Seq(Nat), s # <<>>, Increasing(s)
  PROVE  /\ Head(s) \in Range(s)
         /\ Len(Tail(s)) = Len(s) - 1 /\ Len(s) \in Nat \ {0}
         /\ Range(s) = Range(Tail(s)) \cup {Head(s)}
         /\ Increasing(Tail(s))
         /\ \A op \in Range(Tail(s)) : Head(s) < op
<1>1. /\ Tail(s) \in Seq(Nat) /\ Len(s) \in Nat \ {0} /\ Len(Tail(s)) = Len(s) - 1
      /\ \A i \in 1 .. Len(Tail(s)) : Tail(s)[i] = s[i + 1]
      /\ Head(s) = s[1] /\ DOMAIN s = 1 .. Len(s) /\ DOMAIN Tail(s) = 1 .. Len(Tail(s))
  BY HeadTailProperties, EmptySeq
<1>2. /\ Range(s) = {s[i] : i \in 1 .. Len(s)}
      /\ Range(Tail(s)) = {Tail(s)[i] : i \in 1 .. Len(Tail(s))}
  BY <1>1, RangeEquality
<1>3. \A i \in 1 .. Len(Tail(s)) : i + 1 \in 1 .. Len(s) /\ 1 < i + 1
  BY <1>1
<1>4. ASSUME NEW i \in 1 .. Len(s), i # 1
      PROVE  i - 1 \in 1 .. Len(Tail(s)) /\ s[i] = Tail(s)[i - 1]
  BY <1>1, <1>4
<1>5. Range(s) = Range(Tail(s)) \cup {Head(s)}
  <2>1. Range(s) \subseteq Range(Tail(s)) \cup {Head(s)}
    <3> SUFFICES ASSUME NEW x \in Range(s), x # Head(s)
                 PROVE  x \in Range(Tail(s))
      OBVIOUS
    <3>1. PICK i \in 1 .. Len(s) : x = s[i]
      BY <1>2
    <3>2. i # 1
      BY <1>1, <3>1
    <3>3. i - 1 \in 1 .. Len(Tail(s)) /\ x = Tail(s)[i - 1]
      BY <1>4, <3>1, <3>2
    <3> QED
      BY <1>2, <3>3
  <2>2. Range(Tail(s)) \subseteq Range(s)
    BY <1>1, <1>2, <1>3
  <2>3. Head(s) \in Range(s)
    BY <1>1, <1>2
  <2>4. QED
    BY <2>1, <2>2, <2>3
<1>6. \A op \in Range(Tail(s)) : Head(s) < op
  BY <1>1, <1>2, <1>3 DEF Increasing
<1>7. Increasing(Tail(s))
  <2> SUFFICES ASSUME NEW i \in 1 .. Len(Tail(s)), NEW j \in 1 .. Len(Tail(s)), i < j
               PROVE  Tail(s)[i] < Tail(s)[j]
    BY <1>1 DEF Increasing
  <2>1. i + 1 < j + 1
    OBVIOUS
  <2>2. QED
    BY <1>1, <1>3, <2>1 DEF Increasing
<1>8. QED
  BY <1>1, <1>5, <1>6, <1>7

(***************************************************************************)
(* An operation younger than all before it goes behind them.                *)
(***************************************************************************)
LEMMA StillIncreasing ==
  ASSUME NEW s \in Seq(Nat), NEW e \in Nat, Increasing(s), \A op \in Range(s) : op < e
  PROVE  Increasing(Append(s, e))
<1>1. /\ Len(s) \in Nat /\ Append(s, e) \in Seq(Nat)
      /\ DOMAIN Append(s, e) = 1 .. Len(s) + 1 /\ DOMAIN s = 1 .. Len(s)
      /\ \A i \in 1 .. Len(s) : Append(s, e)[i] = s[i]
      /\ Append(s, e)[Len(s) + 1] = e
  BY AppendProperties
<1>2. \A i \in 1 .. Len(s) : s[i] \in Range(s)
  BY <1>1 DEF Range
<1> SUFFICES ASSUME NEW i \in 1 .. Len(s) + 1, NEW j \in 1 .. Len(s) + 1, i < j
             PROVE  Append(s, e)[i] < Append(s, e)[j]
  BY <1>1 DEF Increasing
<1>3. CASE j = Len(s) + 1
  <2>1. i \in 1 .. Len(s)
    BY <1>1, <1>3
  <2>2. QED
    BY <1>1, <1>2, <1>3, <2>1
<1>4. CASE j # Len(s) + 1
  <2>1. i \in 1 .. Len(s) /\ j \in 1 .. Len(s)
    BY <1>1, <1>4
  <2>2. s[i] < s[j]
    BY <1>1, <2>1 DEF Increasing
  <2>3. QED
    BY <1>1, <2>1, <2>2
<1>5. QED
  BY <1>3, <1>4

----------------------------------------------------------------------------
(* Types *)

\* A flush that waits for its send has something to pop.
Busy == holder # "nobody" => outbox # <<>>

(***************************************************************************)
(* What a turn of _flush on outbox box does to the types: it writes the     *)
(* head of box, or ends.                                                    *)
(***************************************************************************)
LEMMA ProceedTyped ==
  ASSUME TypeOK, NEW who \in {"task", "reader"}, NEW box \in Seq(1 .. MaxOps),
         Proceed(who, box), outbox' = box
  PROVE  /\ phase' \in Phases /\ holder' \in {"nobody", "task", "reader"}
         /\ sending' \in 0 .. MaxOps /\ (holder' = "nobody" <=> sending' = 0)
         /\ wire' \in Seq(1 .. MaxOps) /\ Busy'
<1>0. MaxOps \in Nat
  BY ClientAssumption
<1>1. CASE box # <<>> /\ ws /\ up
  <2>1. /\ holder' = who /\ sending' = Head(box) /\ phase' = phase
        /\ wire' = Append(wire, Head(box))
    BY <1>1 DEF Proceed
  <2>2. Head(box) \in 1 .. MaxOps
    BY <1>1, HeadTailProperties
  <2>3. wire' \in Seq(1 .. MaxOps)
    BY <2>1, <2>2, AppendProperties DEF TypeOK
  <2>4. Head(box) # 0 /\ Head(box) \in 0 .. MaxOps
    BY <1>0, <2>2
  <2>5. QED
    BY <1>1, <2>1, <2>3, <2>4 DEF TypeOK, Busy
<1>2. CASE ~ (box # <<>> /\ ws /\ up)
  BY <1>0, <1>2 DEF Proceed, Release, TypeOK, Phases, Busy
<1>3. QED
  BY <1>1, <1>2

(***************************************************************************)
(* Whatever the outbox drops, a new operation fits, behind what is left.    *)
(***************************************************************************)
LEMMA PushedFits ==
  ASSUME TypeOK, NEW op \in 1 .. MaxOps
  PROVE  \E box \in {outbox, Tail(outbox)} :
           /\ Pushed(op) = Append(box, op)
           /\ outbox = <<>> => box = outbox
           /\ box \in Seq(1 .. MaxOps) /\ Len(box) < OutboxMax
<1>1. OutboxMax \in Nat \ {0} /\ Len(outbox) \in Nat
  BY ClientAssumption, LenProperties DEF TypeOK
<1>2. CASE Len(outbox) = OutboxMax
  <2>1. outbox # <<>>
    BY <1>1, <1>2, EmptySeq
  <2>2. Tail(outbox) \in Seq(1 .. MaxOps) /\ Len(Tail(outbox)) = Len(outbox) - 1
    BY <2>1, HeadTailProperties DEF TypeOK
  <2>3. QED
    BY <1>1, <1>2, <2>1, <2>2 DEF Pushed
<1>3. CASE Len(outbox) # OutboxMax
  BY <1>1, <1>3 DEF Pushed, TypeOK
<1>4. QED
  BY <1>2, <1>3

TypeInv == TypeOK /\ Busy

LEMMA TypeStep ==
  ASSUME TypeInv, [Next]_vars
  PROVE  TypeInv'
<1>0. MaxOps \in Nat /\ OutboxMax \in Nat \ {0} /\ TypeOK /\ Busy
  BY ClientAssumption DEF TypeInv
<1>1. CASE FlushTurn
  <2>1. waiting # <<>> /\ waiting \in Seq({"task", "reader"})
    BY <1>0, <1>1 DEF FlushTurn, TypeOK
  <2>2. Head(waiting) \in {"task", "reader"} /\ waiting' \in Seq({"task", "reader"})
    BY <1>1, <2>1, HeadTailProperties DEF FlushTurn
  <2>3. /\ Proceed(Head(waiting), outbox) /\ outbox' = outbox
        /\ outbox \in Seq(1 .. MaxOps)
        /\ UNCHANGED <<enqueued, ws, up, connected>>
    BY <1>0, <1>1 DEF FlushTurn, TypeOK
  <2>4. /\ phase' \in Phases /\ holder' \in {"nobody", "task", "reader"}
        /\ sending' \in 0 .. MaxOps /\ (holder' = "nobody" <=> sending' = 0)
        /\ wire' \in Seq(1 .. MaxOps) /\ Busy'
    BY <1>0, <2>2, <2>3, ProceedTyped
  <2>5. QED
    BY <1>0, <2>2, <2>3, <2>4 DEF TypeInv, TypeOK
<1>2. CASE SendReturns
  <2>1. outbox # <<>> /\ holder \in {"task", "reader"}
    BY <1>0, <1>2 DEF SendReturns, Busy, TypeOK
  <2>2. /\ Tail(outbox) \in Seq(1 .. MaxOps) /\ Len(Tail(outbox)) = Len(outbox) - 1
        /\ Len(outbox) \in Nat
    BY <1>0, <2>1, HeadTailProperties, LenProperties DEF TypeOK
  <2>3. /\ Proceed(holder, Tail(outbox)) /\ outbox' = Tail(outbox)
        /\ UNCHANGED <<enqueued, ws, up, connected, waiting>>
    BY <1>2 DEF SendReturns
  <2>4. /\ phase' \in Phases /\ holder' \in {"nobody", "task", "reader"}
        /\ sending' \in 0 .. MaxOps /\ (holder' = "nobody" <=> sending' = 0)
        /\ wire' \in Seq(1 .. MaxOps) /\ Busy'
    BY <1>0, <2>1, <2>2, <2>3, ProceedTyped
  <2>5. Len(outbox') <= OutboxMax
    BY <1>0, <2>2, <2>3 DEF TypeOK
  <2>6. QED
    BY <1>0, <2>2, <2>3, <2>4, <2>5 DEF TypeInv, TypeOK
<1>3. CASE SendRaises
  BY <1>0, <1>3 DEF SendRaises, Release, TypeInv, TypeOK, Busy, Phases
<1>4. CASE Enqueue
  <2>1. enqueued + 1 \in 1 .. MaxOps /\ enqueued' \in 0 .. MaxOps
    BY <1>0, <1>4 DEF Enqueue, TypeOK
  <2>2. PICK box \in {outbox, Tail(outbox)} :
          /\ outbox' = Append(box, enqueued + 1)
          /\ box \in Seq(1 .. MaxOps) /\ Len(box) < OutboxMax
    BY <1>0, <1>4, <2>1, PushedFits DEF Enqueue
  <2>3. outbox' \in Seq(1 .. MaxOps) /\ outbox' # <<>> /\ Len(outbox') = Len(box) + 1
    BY <2>1, <2>2, Queued
  <2>4. Len(outbox') <= OutboxMax
    BY <1>0, <2>2, <2>3, LenProperties
  <2>5. waiting' \in Seq({"task", "reader"})
    BY <1>0, <1>4, AppendProperties DEF Enqueue, TypeOK
  <2>6. QED
    BY <1>0, <1>4, <2>1, <2>3, <2>4, <2>5 DEF Enqueue, TypeInv, TypeOK, Busy
<1>5. CASE Connect
  BY <1>0, <1>5 DEF Connect, TypeInv, TypeOK, Busy, Phases
<1>6. CASE Welcome
  <2>1. waiting' \in Seq({"task", "reader"})
    BY <1>0, <1>6, AppendProperties DEF Welcome, TypeOK
  <2>2. QED
    BY <1>0, <1>6, <2>1 DEF Welcome, TypeInv, TypeOK, Busy, Phases
<1>7. CASE Refused \/ HelloFails \/ Breaks \/ ListenEnds
  BY <1>0, <1>7 DEF Refused, HelloFails, Breaks, ListenEnds, TypeInv, TypeOK, Busy,
                    Phases
<1>8. CASE UNCHANGED vars
  BY <1>0, <1>8 DEF vars, TypeInv, TypeOK, Busy
<1>9. QED
  BY <1>1, <1>2, <1>3, <1>4, <1>5, <1>6, <1>7, <1>8 DEF Next, FlushStep

LEMMA InitTyped == Init => TypeInv
<1> SUFFICES ASSUME Init PROVE TypeInv
  OBVIOUS
<1>1. {ws, up, connected} \subseteq BOOLEAN
  BY DEF Init
<1>2. MaxOps \in Nat /\ OutboxMax \in Nat \ {0}
  BY ClientAssumption
<1>3. Len(outbox) = 0
  BY DEF Init
<1>4. outbox \in Seq(1 .. MaxOps) /\ wire \in Seq(1 .. MaxOps)
  BY DEF Init
<1>5. QED
  BY <1>1, <1>2, <1>3, <1>4 DEF Init, TypeInv, TypeOK, Busy, Phases

(***************************************************************************)
(* The outbox keeps to its limit and one write is under way while the lock  *)
(* is held (TypeOK), for any limit and any number of operations.            *)
(***************************************************************************)
THEOREM ClientTypeCorrect == Spec => []TypeOK
<1>1. Init => TypeInv
  BY InitTyped
<1>2. TypeInv /\ [Next]_vars => TypeInv'
  BY TypeStep
<1>3. TypeInv => TypeOK
  BY DEF TypeInv
<1>4. QED
  BY <1>1, <1>2, <1>3, PTL DEF Spec

----------------------------------------------------------------------------
(* Order *)

\* Operations are numbered as they are queued.
Numbered ==
  /\ Increasing(outbox) /\ Increasing(wire)
  /\ \A op \in Range(outbox) \cup Range(wire) : op <= enqueued

\* The flush that waits for its send has written the last operation, and
\* nothing queued is older.
SendsLast ==
  holder # "nobody" =>
    /\ sending \in Range(wire)
    /\ \A w \in Range(wire) : w <= sending
    /\ \A op \in Range(outbox) : sending <= op

\* On an open connection nothing queued was written, but for that operation.
Unwritten ==
  up => \A op \in Range(outbox) :
          \/ \A w \in Range(wire) : w < op
          \/ holder # "nobody" /\ op = sending

NoneOvertaken ==
  \A op \in Range(outbox) \ Range(wire) : \A w \in Range(wire) : w < op

OrderInv == TypeInv /\ Numbered /\ SendsLast /\ Unwritten /\ NoneOvertaken

LEMMA InIncreasing ==
  ASSUME TypeOK
  PROVE  /\ outbox \in Seq(Nat) /\ wire \in Seq(Nat) /\ enqueued \in Nat
         /\ Range(outbox) \subseteq Nat /\ Range(wire) \subseteq Nat
<1>1. /\ outbox \in Seq(Nat) /\ wire \in Seq(Nat) /\ enqueued \in Nat
  BY ClientAssumption DEF TypeOK
<1>2. QED
  BY <1>1, RangeOfSeq

(***************************************************************************)
(* A turn of _flush on an outbox of which nothing was written leaves the    *)
(* order as it should be, whether it writes an operation or ends.           *)
(***************************************************************************)
LEMMA ProceedInOrder ==
  ASSUME NEW who \in {"task", "reader"}, NEW box \in Seq(Nat), wire \in Seq(Nat),
         Proceed(who, box), outbox' = box, enqueued' = enqueued, up' = up,
         Increasing(box), Increasing(wire), enqueued \in Nat,
         \A op \in Range(box) \cup Range(wire) : op <= enqueued,
         \/ \A op \in Range(box), w \in Range(wire) : w < op
         \/ ~ up /\ NoneOvertaken /\ box = outbox
  PROVE  Numbered' /\ SendsLast' /\ Unwritten' /\ NoneOvertaken'
<1>1. Range(box) \subseteq Nat /\ Range(wire) \subseteq Nat
  BY RangeOfSeq
<1>2. CASE box # <<>> /\ ws /\ up
  <2> DEFINE head == Head(box)
  <2>1. holder' = who /\ sending' = head /\ wire' = Append(wire, head)
    BY <1>2 DEF Proceed
  <2>2. /\ head \in Range(box) /\ head \in Nat
        /\ Range(box) = Range(Tail(box)) \cup {head}
        /\ \A op \in Range(Tail(box)) : head < op
    BY <1>1, <1>2, Dequeued
  <2>3. \A op \in Range(box), w \in Range(wire) : w < op
    BY <1>2
  <2>4. wire' \in Seq(Nat) /\ Range(wire') = Range(wire) \cup {head} /\ Increasing(wire')
    <3>1. Range(Append(wire, head)) = Range(wire) \cup {head} /\ Append(wire, head) \in Seq(Nat)
      BY <2>2, Queued
    <3>2. Increasing(Append(wire, head))
      BY <2>2, <2>3, StillIncreasing
    <3>3. QED
      BY <2>1, <3>1, <3>2
  <2>5. Numbered'
    BY <2>2, <2>4 DEF Numbered
  <2>6. SendsLast'
    <3>1. \A w \in Range(wire') : w <= head
      <4> SUFFICES ASSUME NEW w \in Range(wire) \cup {head} PROVE w <= head
        BY <2>4
      <4>1. w \in Range(wire) => w \in Nat /\ w < head
        BY <1>1, <2>2, <2>3
      <4>2. QED
        BY <2>2, <4>1
    <3>2. \A op \in Range(outbox') : head <= op
      BY <1>1, <2>2
    <3>3. QED
      BY <2>1, <2>4, <3>1, <3>2 DEF SendsLast
  <2>7. ASSUME NEW op \in Range(outbox'), op # head
        PROVE  \A w \in Range(wire') : w < op
    BY <2>2, <2>3, <2>4, <2>7
  <2>8. Unwritten' /\ NoneOvertaken'
    BY <2>1, <2>2, <2>4, <2>7 DEF Unwritten, NoneOvertaken
  <2>9. QED
    BY <2>5, <2>6, <2>8
<1>3. CASE ~ (box # <<>> /\ ws /\ up)
  <2>1. holder' = "nobody" /\ wire' = wire
    BY <1>3 DEF Proceed, Release
  <2>2. Numbered' /\ SendsLast'
    BY <2>1 DEF Numbered, SendsLast
  <2>3. Unwritten' /\ NoneOvertaken'
    BY <2>1 DEF Unwritten, NoneOvertaken
  <2>4. QED
    BY <2>2, <2>3
<1>4. QED
  BY <1>2, <1>3

(***************************************************************************)
(* A new operation is younger than all others.                              *)
(***************************************************************************)
LEMMA EnqueueInOrder ==
  ASSUME OrderInv, Enqueue
  PROVE  Numbered' /\ SendsLast' /\ Unwritten' /\ NoneOvertaken'
<1> DEFINE new == enqueued + 1
<1>0. TypeOK /\ Numbered /\ SendsLast /\ Unwritten /\ NoneOvertaken
  BY DEF OrderInv, TypeInv
<1>1. /\ outbox \in Seq(Nat) /\ wire \in Seq(Nat) /\ enqueued \in Nat
      /\ Range(outbox) \subseteq Nat /\ Range(wire) \subseteq Nat
  BY <1>0, InIncreasing
<1>2. new \in 1 .. MaxOps /\ new \in Nat
  BY <1>1, ClientAssumption DEF Enqueue
<1>3. /\ enqueued' = new /\ outbox' = Pushed(new)
      /\ UNCHANGED <<up, holder, sending, wire>>
  BY DEF Enqueue
<1>4. PICK box \in {outbox, Tail(outbox)} :
        /\ outbox' = Append(box, new) /\ (outbox = <<>> => box = outbox)
        /\ box \in Seq(1 .. MaxOps)
  BY <1>0, <1>2, <1>3, PushedFits
<1>5. box \in Seq(Nat) /\ Increasing(box) /\ Range(box) \subseteq Range(outbox)
  <2>1. CASE box = outbox
    BY <1>0, <1>1, <2>1 DEF Numbered
  <2>2. CASE box # outbox
    <3>1. box = Tail(outbox) /\ outbox # <<>>
      BY <1>4, <2>2
    <3>2. Increasing(Tail(outbox)) /\ Range(Tail(outbox)) \subseteq Range(outbox)
      BY <1>0, <1>1, <3>1, Dequeued DEF Numbered
    <3>3. QED
      BY <1>1, <3>1, <3>2, HeadTailProperties
  <2>3. QED
    BY <2>1, <2>2
<1>6. \A op \in Range(outbox) \cup Range(wire) : op < new
  BY <1>0, <1>1 DEF Numbered
<1>7. Range(outbox') = Range(box) \cup {new} /\ Increasing(outbox')
  BY <1>2, <1>4, <1>5, <1>6, Queued, StillIncreasing
<1>8. Numbered'
  <2>1. \A op \in Range(outbox) \cup Range(wire) : op <= new
    BY <1>1, <1>2, <1>6
  <2>2. \A op \in Range(outbox') \cup Range(wire') : op <= new
    BY <1>2, <1>3, <1>5, <1>7, <2>1
  <2>3. QED
    BY <1>0, <1>3, <1>7, <2>2 DEF Numbered
<1>9. SendsLast'
  BY <1>0, <1>1, <1>2, <1>3, <1>5, <1>6, <1>7 DEF SendsLast
<1>10. Unwritten' /\ NoneOvertaken'
  BY <1>0, <1>3, <1>5, <1>6, <1>7 DEF Unwritten, NoneOvertaken
<1>11. QED
  BY <1>8, <1>9, <1>10

LEMMA OrderStep ==
  ASSUME OrderInv, [Next]_vars
  PROVE  OrderInv'
<1>0. TypeInv /\ TypeOK /\ Busy /\ Numbered /\ SendsLast /\ Unwritten /\ NoneOvertaken
  BY DEF OrderInv, TypeInv
<1>a. TypeInv'
  BY <1>0, TypeStep
<1>b. /\ outbox \in Seq(Nat) /\ wire \in Seq(Nat) /\ enqueued \in Nat
      /\ Range(outbox) \subseteq Nat /\ Range(wire) \subseteq Nat
  BY <1>0, InIncreasing
<1> SUFFICES Numbered' /\ SendsLast' /\ Unwritten' /\ NoneOvertaken'
  BY <1>a DEF OrderInv
<1>1. CASE FlushTurn
  <2>1. holder = "nobody" /\ waiting # <<>> /\ waiting \in Seq({"task", "reader"})
    BY <1>0, <1>1 DEF FlushTurn, TypeOK
  <2>2. Head(waiting) \in {"task", "reader"}
    BY <2>1, HeadTailProperties
  <2>3. Proceed(Head(waiting), outbox) /\ UNCHANGED <<enqueued, outbox, up>>
    BY <1>1 DEF FlushTurn
  <2>4. up => \A op \in Range(outbox), w \in Range(wire) : w < op
    BY <1>0, <2>1 DEF Unwritten
  <2>5. QED
    BY <1>0, <1>b, <2>2, <2>3, <2>4, ProceedInOrder DEF Numbered, TypeOK
<1>2. CASE SendReturns
  <2>1. holder # "nobody" /\ holder \in {"task", "reader"} /\ outbox # <<>>
    BY <1>0, <1>2 DEF SendReturns, Busy, TypeOK
  <2>2. /\ Proceed(holder, Tail(outbox)) /\ outbox' = Tail(outbox)
        /\ enqueued' = enqueued /\ up' = up
    BY <1>2 DEF SendReturns
  <2>3. /\ Tail(outbox) \in Seq(Nat) /\ Increasing(Tail(outbox))
        /\ Head(outbox) \in Range(outbox) /\ Range(Tail(outbox)) \subseteq Range(outbox)
        /\ \A op \in Range(Tail(outbox)) : Head(outbox) < op
    BY <1>0, <1>b, <2>1, Dequeued, HeadTailProperties DEF Numbered
  <2>4. /\ \A w \in Range(wire) : w <= sending
        /\ sending <= Head(outbox) /\ sending \in Nat
    BY <1>0, <1>b, <2>1, <2>3 DEF SendsLast
  <2>5. \A op \in Range(Tail(outbox)), w \in Range(wire) : w < op
    <3> SUFFICES ASSUME NEW op \in Range(Tail(outbox)), NEW w \in Range(wire)
                 PROVE  w < op
      OBVIOUS
    <3>1. w \in Nat /\ op \in Nat /\ Head(outbox) \in Nat
      BY <1>b, <2>3
    <3>2. w <= sending /\ sending <= Head(outbox) /\ Head(outbox) < op
      BY <2>3, <2>4
    <3>3. QED
      BY <2>4, <3>1, <3>2
  <2>6. \A op \in Range(Tail(outbox)) \cup Range(wire) : op <= enqueued
    BY <1>0, <2>3 DEF Numbered
  <2>7. QED
    BY <1>0, <1>b, <2>1, <2>2, <2>3, <2>5, <2>6, ProceedInOrder DEF Numbered
<1>3. CASE SendRaises
  BY <1>0, <1>3 DEF SendRaises, Release, Numbered, SendsLast, Unwritten, NoneOvertaken
<1>4. CASE Enqueue
  BY <1>4, EnqueueInOrder
<1>5. CASE Connect
  <2>1. Range(wire') = {} /\ Increasing(wire')
    BY <1>5 DEF Connect, Range, Increasing
  <2>2. QED
    BY <1>0, <1>5, <2>1 DEF Connect, Numbered, SendsLast, Unwritten, NoneOvertaken
<1>6. CASE Welcome \/ Refused \/ HelloFails \/ Breaks \/ ListenEnds \/ UNCHANGED vars
  <2>1. UNCHANGED <<enqueued, outbox, holder, sending, wire>> /\ (up' => up)
    BY <1>6 DEF Welcome, Refused, HelloFails, Breaks, ListenEnds, vars
  <2>2. QED
    BY <1>0, <2>1 DEF Numbered, SendsLast, Unwritten, NoneOvertaken
<1>7. QED
  BY <1>1, <1>2, <1>3, <1>4, <1>5, <1>6 DEF Next, FlushStep

LEMMA InitOrdered == Init => OrderInv
<1> SUFFICES ASSUME Init PROVE OrderInv
  OBVIOUS
<1>1. TypeInv
  BY InitTyped
<1>2. Range(outbox) = {} /\ Range(wire) = {} /\ Increasing(outbox) /\ Increasing(wire)
  BY DEF Init, Range, Increasing
<1>3. QED
  BY <1>1, <1>2 DEF Init, OrderInv, Numbered, SendsLast, Unwritten, NoneOvertaken

(***************************************************************************)
(* Whichever flush takes which operation, those of one connection go out in *)
(* the order they were queued, each once, and overtake none that still      *)
(* waits (InOrder), for any limit of the outbox, also when it overflows     *)
(* during a send.                                                           *)
(***************************************************************************)
THEOREM SentInOrder == Spec => []InOrder
<1>1. Init => OrderInv
  BY InitOrdered
<1>2. OrderInv /\ [Next]_vars => OrderInv'
  BY OrderStep
<1>3. OrderInv => InOrder
  BY DEF OrderInv, Numbered, NoneOvertaken, Increasing, InOrder
<1>4. QED
  BY <1>1, <1>2, <1>3, PTL DEF Spec

----------------------------------------------------------------------------
(* What leaves the outbox *)

(***************************************************************************)
(* Only a send that returned, a full outbox, or the pop of the operation     *)
(* behind a dropped one takes an operation out of the outbox: a send that    *)
(* raised, a refusal, a reconnection never cost one.                        *)
(***************************************************************************)
THEOREM OutboxKeeps == Spec => NothingElseSkipped
<1> DEFINE Excused(op) ==
             \/ Sent(op)
             \/ DroppedWhenFull(op)
             \/ SendReturns /\ Head(outbox) # sending
<1>1. Init => OrderInv
  BY InitOrdered
<1>2. OrderInv /\ [Next]_vars => OrderInv'
  BY OrderStep
<1>3. ASSUME OrderInv, Next, NEW op \in Range(outbox) \ Range(outbox')
      PROVE  Excused(op)
  <2>1. /\ TypeOK /\ Busy /\ Increasing(outbox) /\ outbox \in Seq(Nat)
    BY <1>3, InIncreasing DEF OrderInv, TypeInv, Numbered
  <2>2. CASE SendReturns
    <3>1. outbox # <<>> /\ outbox' = Tail(outbox)
      BY <2>1, <2>2 DEF SendReturns, Busy
    <3>2. op = Head(outbox)
      BY <1>3, <2>1, <3>1, Dequeued
    <3>3. QED
      BY <2>2, <3>2 DEF Sent
  <2>3. CASE Enqueue
    <3> DEFINE new == enqueued + 1
    <3>1. outbox' = Pushed(new) /\ new \in Nat
      BY <2>1, <2>3 DEF Enqueue, TypeOK
    <3>2. Len(outbox) = OutboxMax
      <4> SUFFICES ASSUME Len(outbox) # OutboxMax PROVE FALSE
        OBVIOUS
      <4>1. outbox' = Append(outbox, new)
        BY <3>1 DEF Pushed
      <4>2. QED
        BY <1>3, <2>1, <3>1, <4>1, Queued
    <3>3. outbox # <<>>
      BY <2>1, <3>2, ClientAssumption, EmptySeq
    <3>4. Tail(outbox) \in Seq(Nat) /\ outbox' = Append(Tail(outbox), new)
      BY <2>1, <3>1, <3>2, <3>3, HeadTailProperties DEF Pushed
    <3>5. Range(outbox') = Range(Tail(outbox)) \cup {new}
      BY <3>1, <3>4, Queued
    <3>6. op = Head(outbox)
      BY <1>3, <2>1, <3>3, <3>5, Dequeued
    <3>7. QED
      BY <2>3, <3>2, <3>6 DEF DroppedWhenFull
  <2>4. CASE ~ SendReturns /\ ~ Enqueue
    BY <1>3, <2>4 DEF Next, FlushStep, FlushTurn, SendRaises, Connect, Welcome,
                      Refused, HelloFails, Breaks, ListenEnds
  <2>5. QED
    BY <2>2, <2>3, <2>4
<1>4. OrderInv /\ [Next]_vars =>
        [\A op \in Range(outbox) \ Range(outbox') : Excused(op)]_vars
  BY <1>3
<1>5. QED
  BY <1>1, <1>2, <1>4, PTL DEF Spec, NothingElseSkipped

----------------------------------------------------------------------------
(* One sender *)

Allowed == Single!Next \/ UNCHANGED Single!vars

(***************************************************************************)
(* A turn of _flush on outbox box writes what is in front, or nothing.      *)
(***************************************************************************)
LEMMA ProceedGoes ==
  ASSUME NEW who, NEW box, Proceed(who, box)
  PROVE  Single!Goes(box)
BY DEF Proceed, Release, Single!Goes

LEMMA StepAllowed ==
  ASSUME TypeInv, [Next]_vars
  PROVE  Allowed
<1>1. CASE FlushTurn
  <2>1. /\ Proceed(Head(waiting), outbox) /\ outbox' = outbox /\ holder = "nobody"
    BY <1>1 DEF FlushTurn
  <2>2. sending = 0 /\ Single!Goes(outbox)
    BY <2>1, ProceedGoes DEF TypeInv, TypeOK
  <2> QED
    BY <2>1, <2>2 DEF Allowed, Single!Next, Single!Write
<1>2. CASE SendReturns
  <2>1. Proceed(holder, Tail(outbox)) /\ outbox' = Tail(outbox) /\ holder # "nobody"
    BY <1>2 DEF SendReturns
  <2>2. sending # 0 /\ outbox # <<>> /\ Single!Goes(Tail(outbox))
    BY <2>1, ProceedGoes DEF TypeInv, TypeOK, Busy
  <2> QED
    BY <2>1, <2>2 DEF Allowed, Single!Next, Single!Pop
<1>3. CASE SendRaises
  BY <1>3 DEF SendRaises, Release, Allowed, Single!Next, Single!Raise
<1>4. CASE Enqueue
  <2>1. /\ outbox' = Pushed(enqueued + 1) /\ sending' = sending /\ wire' = wire
        /\ enqueued + 1 \in 1 .. MaxOps
    BY <1>4, ClientAssumption DEF Enqueue, TypeInv, TypeOK
  <2>2. Len(outbox) = OutboxMax <=> ~ (Len(outbox) < OutboxMax)
    BY LenProperties, ClientAssumption DEF TypeInv, TypeOK
  <2>3. Single!Enqueue(enqueued + 1)
    BY <2>1, <2>2 DEF Pushed, Single!Enqueue
  <2> QED
    BY <2>1, <2>3 DEF Allowed, Single!Next
<1>5. CASE Connect
  <2>1. sending = 0
    BY <1>5 DEF Connect, TypeInv, TypeOK
  <2> QED
    BY <1>5, <2>1 DEF Connect, Allowed, Single!Next, Single!Reset
<1>6. CASE UNCHANGED <<outbox, sending, wire>>
  BY <1>6 DEF Allowed, Single!vars
<1> QED
  BY <1>1, <1>2, <1>3, <1>4, <1>5, <1>6 DEF Next, FlushStep, Welcome, Refused, HelloFails,
     Breaks, ListenEnds, vars

(***************************************************************************)
(* The flushes, the callers and the connections of hubclient.py together    *)
(* implement a bounded queue with a single sender (OneSender), for any      *)
(* limit, any number of operations and any number of flushes in line: the   *)
(* lock makes each send and its pop one turn, and an overflow between the   *)
(* two moves the pop to what is in front then.                              *)
(***************************************************************************)
THEOREM FlushesActAsOne == Spec => OneSender
<1>1. Init => TypeInv /\ Single!Init
  BY InitTyped DEF Init, Single!Init
<1>2. TypeInv /\ [Next]_vars => TypeInv'
  BY TypeStep
<1>3. TypeInv /\ [Next]_vars => [Single!Next]_(Single!vars)
  BY StepAllowed DEF Allowed
<1> QED
  BY <1>1, <1>2, <1>3, PTL DEF Spec, OneSender, Single!Spec
=============================================================================
