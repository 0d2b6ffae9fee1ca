--------------------------- MODULE LocalPeerProofs ---------------------------
(***************************************************************************)
(* What LocalPeer promises, for any pids, any number of processes and any   *)
(* limit of a line: of the ferry's files the invariants TypeOK, EntryHasKey *)
(* and LeftByKill, of its connections HeardAsSaid, of what is sent over     *)
(* them EscapesAreSafe.  The last two rest on what Wire says of the escape  *)
(* of bodies, which comes first and is proved for bodies of every length.   *)
(***************************************************************************)
EXTENDS LocalPeer, SequenceTheorems, WellFoundedInduction, TLAPS

----------------------------------------------------------------------------
(* Sequences of sequences, flattened *)

(***************************************************************************)
(* Induction over the numbers up to n, for a set instead of a predicate.    *)
(***************************************************************************)
LEMMA UpTo ==
  ASSUME NEW n \in Nat, NEW T, 0 \in T, \A i \in 1 .. n : i - 1 \in T => i \in T
  PROVE  \A i \in 0 .. n : i \in T
<1> DEFINE bad == {i \in 0 .. n : i \notin T}
<1>1. SUFFICES ASSUME bad # {} PROVE FALSE
  OBVIOUS
<1>2. bad \subseteq Nat
  OBVIOUS
<1>3. PICK x \in bad : \A y \in bad : ~ (<<y, x>> \in OpToRel(<, Nat))
  BY <1>1, <1>2, NatLessThanWellFounded, WFMin
<1>4. x \in 1 .. n
  <2>1. x \in 0 .. n /\ x # 0
    BY <1>3
  <2>2. QED
    BY <2>1
<1>5. x - 1 \in 0 .. n /\ x - 1 < x
  BY <1>4
<1>6. x - 1 \notin bad
  BY <1>2, <1>3, <1>4, <1>5 DEF OpToRel
<1>7. QED
  BY <1>3, <1>4, <1>5, <1>6

(***************************************************************************)
(* The first n elements of a sequence.                                      *)
(***************************************************************************)
LEMMA Beginning ==
  ASSUME NEW S, NEW s \in Seq(S), NEW n \in 0 .. Len(s)
  PROVE  /\ SubSeq(s, 1, n) \in Seq(S) /\ Len(SubSeq(s, 1, n)) = n
         /\ \A i \in 1 .. n : SubSeq(s, 1, n)[i] = s[i]
<1>1. \A i \in 1 .. n : s[i] \in S
  <2>1. TAKE i \in 1 .. n
  <2>2. i \in 1 .. Len(s)
    BY LenProperties
  <2>3. QED
    BY <2>2, ElementOfSeq
<1>2. /\ SubSeq(s, 1, n) \in Seq(S)
      /\ Len(SubSeq(s, 1, n)) = IF 1 <= n THEN n - 1 + 1 ELSE 0
      /\ \A i \in 1 .. n - 1 + 1 : SubSeq(s, 1, n)[i] = s[1 + i - 1]
  BY <1>1, SubSeqProperties
<1>3. \A i \in 1 .. n : 1 + i - 1 = i /\ i \in 1 .. n - 1 + 1
  OBVIOUS
<1>4. QED
  BY <1>2, <1>3

(***************************************************************************)
(* A recursive definition over the positions of a sequence of sequences has *)
(* a function that meets it.                                                *)
(***************************************************************************)
LEMMA FlattensExist ==
  ASSUME NEW S, NEW ss \in Seq(Seq(S))
  PROVE  \E g : g = [i \in 1 .. Len(ss) |-> IF i = 1 THEN ss[i] ELSE g[i-1] \o ss[i]]
<1> DEFINE step(g, n) == [i \in 1 .. n |-> IF i = 1 THEN ss[i] ELSE g[i-1] \o ss[i]]
           some(n) == \E g : g = step(g, n)
           good == {n \in 0 .. Len(ss) : some(n)}
<1>1. Len(ss) \in Nat
  BY LenProperties
<1>2. some(0)
  <2> DEFINE none == [i \in {} |-> 0]
  <2>1. 1 .. 0 = {}
    OBVIOUS
  <2>2. none = step(none, 0)
    BY <2>1
  <2>3. QED
    BY <2>2
<1>3. ASSUME NEW n \in 1 .. Len(ss), some(n - 1)
      PROVE  some(n)
  <2>1. PICK g : g = step(g, n - 1)
    BY <1>3
  <2> DEFINE h == [i \in 1 .. n |->
                     IF i = n THEN IF n = 1 THEN ss[1] ELSE g[n-1] \o ss[n] ELSE g[i]]
  <2>2. ASSUME NEW i \in 1 .. n
        PROVE  h[i] = IF i = 1 THEN ss[i] ELSE h[i-1] \o ss[i]
    <3>1. CASE i = n
      BY <1>1, <3>1
    <3>2. CASE i # n
      <4>1. i \in 1 .. n - 1
        BY <1>1, <3>2
      <4>2. g[i] = IF i = 1 THEN ss[i] ELSE g[i-1] \o ss[i]
        BY <2>1, <4>1
      <4>3. QED
        BY <1>1, <3>2, <4>1, <4>2
    <3>3. QED
      BY <3>1, <3>2
  <2>3. h = step(h, n)
    BY <2>2
  <2>4. QED
    BY <2>3
<1> HIDE DEF some
<1>4. Len(ss) \in good
  <2>1. 0 \in good
    BY <1>1, <1>2
  <2>2. \A i \in 1 .. Len(ss) : i - 1 \in good => i \in good
    BY <1>1, <1>3
  <2>3. Len(ss) \in 0 .. Len(ss)
    BY <1>1
  <2> HIDE DEF good
  <2>4. QED
    BY <1>1, <2>1, <2>2, <2>3, UpTo
<1>5. QED
  BY <1>4 DEF some

(***************************************************************************)
(* Flattening joins the pieces one by one.                                  *)
(***************************************************************************)
LEMMA FlattensInSteps ==
  ASSUME NEW S, NEW ss \in Seq(Seq(S))
  PROVE  \E g : /\ g[0] = <<>> /\ \A i \in 1 .. Len(ss) : g[i] = g[i-1] \o ss[i]
                /\ FlattenSeq(ss) = g[Len(ss)]
<1>1. Len(ss) \in Nat
  BY LenProperties
<1>2. CASE Len(ss) = 0
  <2>1. FlattenSeq(ss) = <<>>
    BY <1>2, EmptySeq DEF FlattenSeq
  <2> DEFINE g == [i \in {0} |-> <<>>]
  <2>2. g[0] = <<>> /\ FlattenSeq(ss) = g[Len(ss)]
    BY <1>2, <2>1
  <2>3. \A i \in 1 .. Len(ss) : g[i] = g[i-1] \o ss[i]
    BY <1>2
  <2>4. QED
    BY <2>2, <2>3
<1>3. CASE Len(ss) # 0
  <2> DEFINE f == CHOOSE g : g = [i \in 1 .. Len(ss) |-> IF i = 1 THEN ss[i] ELSE g[i-1] \o ss[i]]
             h == [i \in 0 .. Len(ss) |-> IF i = 0 THEN <<>> ELSE f[i]]
  <2>1. FlattenSeq(ss) = f[Len(ss)]
    BY <1>3 DEF FlattenSeq
  <2>2. f = [i \in 1 .. Len(ss) |-> IF i = 1 THEN ss[i] ELSE f[i-1] \o ss[i]]
    BY FlattensExist
  <2> HIDE DEF f
  <2>0. \A i \in 1 .. Len(ss) : f[i] = IF i = 1 THEN ss[i] ELSE f[i-1] \o ss[i]
    BY <2>2
  <2>3. ASSUME NEW i \in 1 .. Len(ss)
        PROVE  h[i] = h[i-1] \o ss[i]
    <3>1. ss[i] \in Seq(S)
      BY ElementOfSeq
    <3>2. <<>> \o ss[i] = ss[i]
      BY <3>1, ConcatEmptySeq
    <3>3. CASE i = 1
      BY <1>1, <2>0, <3>2, <3>3
    <3>4. CASE i # 1
      <4>1. i - 1 \in 0 .. Len(ss) /\ i - 1 # 0
        BY <1>1, <3>4
      <4>2. h[i] = f[i] /\ h[i-1] = f[i-1]
        BY <1>1, <4>1
      <4>3. QED
        BY <2>0, <3>4, <4>2
    <3>5. QED
      BY <3>3, <3>4
  <2>4. h[0] = <<>> /\ FlattenSeq(ss) = h[Len(ss)]
    BY <1>1, <1>3, <2>1
  <2> HIDE DEF h
  <2>5. QED
    BY <2>3, <2>4
<1>4. QED
  BY <1>2, <1>3

(***************************************************************************)
(* Whatever joins the pieces one by one joins them to what flattening does. *)
(***************************************************************************)
LEMMA FlattensTo ==
  ASSUME NEW S, NEW ss \in Seq(Seq(S)), NEW G,
         G[0] = <<>>, \A i \in 1 .. Len(ss) : G[i] = G[i-1] \o ss[i]
  PROVE  FlattenSeq(ss) = G[Len(ss)]
<1>1. Len(ss) \in Nat
  BY LenProperties
<1>2. PICK g : /\ g[0] = <<>> /\ \A i \in 1 .. Len(ss) : g[i] = g[i-1] \o ss[i]
               /\ FlattenSeq(ss) = g[Len(ss)]
  BY FlattensInSteps
<1> DEFINE good == {i \in 0 .. Len(ss) : g[i] = G[i]}
<1>3. 0 \in good
  BY <1>1, <1>2
<1>4. ASSUME NEW i \in 1 .. Len(ss), i - 1 \in good
      PROVE  i \in good
  <2>1. g[i] = g[i-1] \o ss[i] /\ G[i] = G[i-1] \o ss[i] /\ g[i-1] = G[i-1]
    BY <1>2, <1>4
  <2>2. g[i] = G[i] /\ i \in 0 .. Len(ss)
    BY <1>1, <2>1
  <2>3. QED
    BY <2>2
<1>5. Len(ss) \in 0 .. Len(ss)
  BY <1>1
<1>6. Len(ss) \in good
  <2> HIDE DEF good
  <2>1. QED
    BY <1>1, <1>3, <1>4, <1>5, UpTo
<1>7. QED
  BY <1>2, <1>6

(***************************************************************************)
(* Piece i of a flattened sequence begins after position at[i], and each    *)
(* position is one of a piece.                                              *)
(***************************************************************************)
Places(ss, at) ==
  /\ at \in [1 .. Len(ss) + 1 -> Nat] /\ at[1] = 0
  /\ \A i \in 1 .. Len(ss) : at[i+1] = at[i] + Len(ss[i])

\* out is what the first n pieces make.
Fills(ss, at, n, out) ==
  /\ Len(out) = at[n+1]
  /\ \A i \in 1 .. n : \A j \in 1 .. Len(ss[i]) : out[at[i] + j] = ss[i][j]
  /\ \A i \in 1 .. n : at[i+1] <= Len(out)
  /\ \A k \in 1 .. Len(out) : \E i \in 1 .. n : \E j \in 1 .. Len(ss[i]) : k = at[i] + j

\* Positions in a piece that goes after p tokens.
LEMMA PlacedAfter ==
  \A p, n \in Nat : \A j \in 1 .. n :
    /\ p + j \in 1 .. p + n /\ ~ (p + j <= p) /\ (p + j) - p = j
    /\ \A m \in Nat : p + n <= m => p + j \in 1 .. m
OBVIOUS

(***************************************************************************)
(* Another piece goes after the ones that are there.                        *)
(***************************************************************************)
LEMMA FillsMore ==
  ASSUME NEW S, NEW ss \in Seq(Seq(S)), NEW at, Places(ss, at),
         NEW n \in 1 .. Len(ss), NEW out \in Seq(S), Fills(ss, at, n - 1, out)
  PROVE  /\ out \o ss[n] \in Seq(S)
         /\ Fills(ss, at, n, out \o ss[n])
<1> DEFINE more == out \o ss[n]
<1>1. Len(ss) \in Nat /\ ss[n] \in Seq(S) /\ \A i \in 1 .. Len(ss) : Len(ss[i]) \in Nat
  BY LenProperties, ElementOfSeq
<1>2. Len(out) = at[n] /\ at[n+1] = at[n] + Len(ss[n]) /\ at[n] \in Nat
  BY <1>1 DEF Fills, Places
<1>0. /\ \A i \in 1 .. Len(ss) + 1 : at[i] \in Nat
      /\ \A i \in 1 .. n - 1 : at[i+1] <= at[n] /\ at[i+1] = at[i] + Len(ss[i])
  <2>1. /\ \A i \in 1 .. Len(ss) + 1 : at[i] \in Nat
        /\ \A i \in 1 .. Len(ss) : at[i+1] = at[i] + Len(ss[i])
    BY DEF Places
  <2>2. \A i \in 1 .. n - 1 : at[i+1] <= Len(out)
    BY DEF Fills
  <2>3. QED
    BY <1>1, <1>2, <2>1, <2>2
<1>3. /\ more \in Seq(S) /\ Len(more) = at[n+1]
      /\ \A k \in 1 .. at[n+1] : more[k] = IF k <= at[n] THEN out[k] ELSE ss[n][k - at[n]]
  <2>1. /\ more \in Seq(S) /\ Len(more) = Len(out) + Len(ss[n])
        /\ \A k \in 1 .. Len(out) + Len(ss[n]) :
             more[k] = IF k <= Len(out) THEN out[k] ELSE ss[n][k - Len(out)]
    BY <1>1, ConcatProperties
  <2> HIDE DEF more
  <2>2. QED
    BY <1>2, <2>1
<1> HIDE DEF more
<1>4. ASSUME NEW i \in 1 .. n, NEW j \in 1 .. Len(ss[i])
      PROVE  more[at[i] + j] = ss[i][j]
  <2>1. CASE i = n
    <3>0. j \in 1 .. Len(ss[n]) /\ Len(ss[n]) \in Nat
      BY <1>1, <2>1
    <3>1. at[n] + j \in 1 .. at[n+1] /\ ~ (at[n] + j <= at[n]) /\ (at[n] + j) - at[n] = j
      BY <1>2, <3>0, PlacedAfter
    <3>2. QED
      BY <1>3, <2>1, <3>1
  <2>2. CASE i # n
    <3>1. i \in 1 .. n - 1
      BY <1>1, <2>2
    <3>2. out[at[i] + j] = ss[i][j]
      BY <3>1 DEF Fills
    <3>3. at[i] + j \in 1 .. at[n]
      <4>1. at[i+1] <= at[n] /\ at[i+1] = at[i] + Len(ss[i]) /\ at[i] \in Nat
        BY <1>0, <1>1, <3>1
      <4>2. Len(ss[i]) \in Nat /\ at[n] \in Nat /\ at[n+1] \in Nat
        BY <1>0, <1>1
      <4>3. at[i] + Len(ss[i]) <= at[n]
        BY <4>1
      <4>4. QED
        BY <4>1, <4>2, <4>3, PlacedAfter
    <3>4. at[i] + j \in 1 .. at[n+1] /\ at[i] + j <= at[n]
      BY <1>1, <1>2, <3>3, SMTT(60)
    <3>5. QED
      BY <1>3, <3>2, <3>4
  <2>3. QED
    BY <2>1, <2>2
<1>5. ASSUME NEW k \in 1 .. Len(more)
      PROVE  \E i \in 1 .. n : \E j \in 1 .. Len(ss[i]) : k = at[i] + j
  <2>1. CASE k <= at[n]
    <3>1. k \in 1 .. Len(out)
      BY <1>2, <1>3, <2>1
    <3>2. PICK i \in 1 .. n - 1 : \E j \in 1 .. Len(ss[i]) : k = at[i] + j
      BY <3>1 DEF Fills
    <3>3. i \in 1 .. n
      BY <1>1, <3>2
    <3>4. QED
      BY <3>2, <3>3
  <2>2. CASE ~ (k <= at[n])
    <3>1. k - at[n] \in 1 .. Len(ss[n]) /\ k = at[n] + (k - at[n])
      BY <1>1, <1>2, <1>3, <2>2, SMTT(60)
    <3>2. n \in 1 .. n
      BY <1>1
    <3>3. QED
      BY <3>1, <3>2
  <2>3. QED
    BY <2>1, <2>2
<1>6. ASSUME NEW i \in 1 .. n
      PROVE  at[i+1] <= Len(more)
  <2>1. CASE i = n
    BY <1>1, <1>2, <1>3, <2>1
  <2>2. CASE i # n
    <3>1. i \in 1 .. n - 1
      BY <1>1, <2>2
    <3>2. at[i+1] <= at[n] /\ at[i+1] \in Nat
      <4>1. i + 1 \in 1 .. Len(ss) + 1
        BY <1>1, <3>1
      <4>2. QED
        BY <1>0, <3>1, <4>1
    <3>3. QED
      BY <1>1, <1>2, <1>3, <3>2, SMTT(60)
  <2>3. QED
    BY <2>1, <2>2
<1>7. QED
  BY <1>3, <1>4, <1>5, <1>6 DEF Fills, more

(***************************************************************************)
(* Flattening puts each piece at its place, and nothing else.               *)
(***************************************************************************)
LEMMA FlattensInPlace ==
  ASSUME NEW S, NEW ss \in Seq(Seq(S)), NEW at, Places(ss, at)
  PROVE  FlattenSeq(ss) \in Seq(S) /\ Fills(ss, at, Len(ss), FlattenSeq(ss))
<1>1. Len(ss) \in Nat
  BY LenProperties
<1>2. PICK g : /\ g[0] = <<>> /\ \A i \in 1 .. Len(ss) : g[i] = g[i-1] \o ss[i]
               /\ FlattenSeq(ss) = g[Len(ss)]
  BY FlattensInSteps
<1> DEFINE fine(i) == g[i] \in Seq(S) /\ Fills(ss, at, i, g[i])
           good == {i \in 0 .. Len(ss) : fine(i)}
<1>3. fine(0)
  <2>1. g[0] \in Seq(S) /\ Len(g[0]) = 0 /\ at[0 + 1] = 0
    BY <1>2, EmptySeq DEF Places
  <2>2. QED
    BY <2>1 DEF Fills
<1>4. ASSUME NEW i \in 1 .. Len(ss), fine(i - 1)
      PROVE  fine(i)
  <2>1. g[i-1] \in Seq(S) /\ Fills(ss, at, i - 1, g[i-1])
    BY <1>4
  <2>2. g[i-1] \o ss[i] \in Seq(S) /\ Fills(ss, at, i, g[i-1] \o ss[i])
    BY <2>1, FillsMore
  <2>3. g[i] = g[i-1] \o ss[i]
    BY <1>2
  <2>4. QED
    BY <2>2, <2>3
<1> HIDE DEF fine
<1>5. /\ 0 \in good /\ Len(ss) \in 0 .. Len(ss)
      /\ \A i \in 1 .. Len(ss) : i - 1 \in good => i \in good
  BY <1>1, <1>3, <1>4
<1>6. Len(ss) \in good
  <2> HIDE DEF good
  <2>1. QED
    BY <1>1, <1>5, UpTo
<1>7. QED
  BY <1>2, <1>6 DEF fine

(***************************************************************************)
(* There are such places.                                                   *)
(***************************************************************************)
LEMMA PlacesExist ==
  ASSUME NEW S, NEW ss \in Seq(Seq(S))
  PROVE  \E at : Places(ss, at)
<1>1. Len(ss) \in Nat /\ \A i \in 1 .. Len(ss) : ss[i] \in Seq(S) /\ Len(ss[i]) \in Nat
  BY LenProperties, ElementOfSeq
<1>2. PICK g : /\ g[0] = <<>> /\ \A i \in 1 .. Len(ss) : g[i] = g[i-1] \o ss[i]
  BY FlattensInSteps
<1> DEFINE good == {i \in 0 .. Len(ss) : g[i] \in Seq(S)}
<1>3. 0 \in good
  <2>1. g[0] \in Seq(S)
    BY <1>2, EmptySeq
  <2>2. QED
    BY <1>1, <2>1
<1>4. ASSUME NEW i \in 1 .. Len(ss), i - 1 \in good
      PROVE  i \in good
  <2>1. g[i - 1] \in Seq(S) /\ g[i] = g[i-1] \o ss[i] /\ ss[i] \in Seq(S)
    BY <1>1, <1>2, <1>4
  <2>2. g[i] \in Seq(S)
    BY <2>1, ConcatProperties
  <2>3. QED
    BY <1>1, <2>2
<1>5. \A i \in 0 .. Len(ss) : g[i] \in Seq(S)
  <2>1. \A i \in 0 .. Len(ss) : i \in good
    <3> HIDE DEF good
    <3>1. QED
      BY <1>1, <1>3, <1>4, UpTo
  <2>2. QED
    BY <2>1
<1> DEFINE at == [i \in 1 .. Len(ss) + 1 |-> Len(g[i - 1])]
<1>6. at \in [1 .. Len(ss) + 1 -> Nat]
  BY <1>1, <1>5, LenProperties
<1>7. at[1] = 0
  BY <1>1, <1>2, EmptySeq
<1>8. ASSUME NEW i \in 1 .. Len(ss)
      PROVE  at[i+1] = at[i] + Len(ss[i])
  <2>0. i - 1 \in 0 .. Len(ss) /\ i \in 1 .. Len(ss) + 1 /\ i + 1 \in 1 .. Len(ss) + 1
        /\ (i + 1) - 1 = i
    BY <1>1
  <2>1. g[i-1] \in Seq(S) /\ ss[i] \in Seq(S) /\ g[i] = g[i-1] \o ss[i]
    BY <1>1, <1>2, <1>5, <2>0
  <2>2. Len(g[i]) = Len(g[i-1]) + Len(ss[i])
    BY <2>1, ConcatProperties
  <2>3. at[i+1] = Len(g[i]) /\ at[i] = Len(g[i-1])
    BY <2>0
  <2>4. QED
    BY <2>2, <2>3
<1> HIDE DEF at
<1>9. QED
  BY <1>6, <1>7, <1>8 DEF Places

----------------------------------------------------------------------------
(* Tags, token by token *)

(***************************************************************************)
(* A pattern occurs where each of its tokens does.                          *)
(***************************************************************************)
LEMMA AtMeans ==
  ASSUME NEW pat \in Seq(Token), NEW text \in Seq(Token), NEW i \in 1 .. Len(text)
  PROVE  At(pat, text, i) <=> /\ i + Len(pat) - 1 <= Len(text)
                              /\ \A j \in 1 .. Len(pat) : text[i + j - 1] = pat[j]
<1>1. SUFFICES ASSUME i + Len(pat) - 1 <= Len(text)
               PROVE  SubSeq(text, i, i + Len(pat) - 1) = pat
                        <=> \A j \in 1 .. Len(pat) : text[i + j - 1] = pat[j]
  BY DEF At
<1> DEFINE part == SubSeq(text, i, i + Len(pat) - 1)
<1>2. Len(pat) \in Nat /\ Len(text) \in Nat
  BY LenProperties
<1>3. \A k \in i .. i + Len(pat) - 1 : text[k] \in Token
  <2>1. TAKE k \in i .. i + Len(pat) - 1
  <2>2. k \in 1 .. Len(text)
    BY <1>1, <1>2
  <2>3. QED
    BY <2>2, ElementOfSeq
<1>4. /\ part \in Seq(Token)
      /\ Len(part) = IF i <= i + Len(pat) - 1 THEN i + Len(pat) - 1 - i + 1 ELSE 0
      /\ \A j \in 1 .. i + Len(pat) - 1 - i + 1 : part[j] = text[i + j - 1]
  <2>1. i \in Int /\ i + Len(pat) - 1 \in Int
    BY <1>2
  <2>2. QED
    BY <1>3, <2>1, SubSeqProperties
<1>5. Len(part) = Len(pat) /\ \A j \in 1 .. Len(pat) : part[j] = text[i + j - 1]
  BY <1>2, <1>4
<1> HIDE DEF part
<1>6. part = pat <=> \A j \in 1 .. Len(pat) : part[j] = pat[j]
  BY <1>4, <1>5, SeqEqual
<1>7. part = pat <=> \A j \in 1 .. Len(pat) : text[i + j - 1] = pat[j]
  BY <1>5, <1>6
<1>8. QED
  BY <1>7 DEF part

(***************************************************************************)
(* The tags, and their escaped forms, token by token.                       *)
(***************************************************************************)
LEMMA TagsMean ==
  ASSUME NEW text \in Seq(Token), NEW i \in 1 .. Len(text)
  PROVE  /\ At(Open, text, i) <=> i + 1 <= Len(text) /\ text[i] = "<" /\ text[i+1] = "T"
         /\ At(Close, text, i) <=> /\ i + 3 <= Len(text) /\ text[i] = "<" /\ text[i+1] = "/"
                                   /\ text[i+2] = "T" /\ text[i+3] = ">"
<1>1. Len(text) \in Nat
  BY LenProperties
<1>2. Open \in Seq(Token) /\ Close \in Seq(Token) /\ Len(Open) = 2 /\ Len(Close) = 4
  BY DEF Open, Close, Token
<1>3. At(Open, text, i) <=> i + 1 <= Len(text) /\ text[i] = "<" /\ text[i+1] = "T"
  <2>1. At(Open, text, i) <=> /\ i + 2 - 1 <= Len(text)
                              /\ \A j \in 1 .. 2 : text[i + j - 1] = Open[j]
    <3>1. At(Open, text, i) <=>
            /\ i + Len(Open) - 1 <= Len(text)
            /\ \A j \in 1 .. Len(Open) : text[i + j - 1] = Open[j]
      BY <1>2, AtMeans
    <3>2. QED
      BY <1>2, <3>1
  <2>2. 1 .. 2 = {1, 2} /\ i + 2 - 1 = i + 1 /\ i + 1 - 1 = i
    BY <1>1
  <2>3. Open[1] = "<" /\ Open[2] = "T"
    BY DEF Open
  <2>4. QED
    BY <2>1, <2>2, <2>3
<1>4. At(Close, text, i) <=> /\ i + 3 <= Len(text) /\ text[i] = "<" /\ text[i+1] = "/"
                             /\ text[i+2] = "T" /\ text[i+3] = ">"
  <2>1. At(Close, text, i) <=> /\ i + 4 - 1 <= Len(text)
                               /\ \A j \in 1 .. 4 : text[i + j - 1] = Close[j]
    <3>1. At(Close, text, i) <=>
            /\ i + Len(Close) - 1 <= Len(text)
            /\ \A j \in 1 .. Len(Close) : text[i + j - 1] = Close[j]
      BY <1>2, AtMeans
    <3>2. QED
      BY <1>2, <3>1
  <2>2. 1 .. 4 = {1, 2, 3, 4} /\ i + 4 - 1 = i + 3 /\ i + 3 - 1 = i + 2 /\ i + 2 - 1 = i + 1
        /\ i + 1 - 1 = i
    BY <1>1
  <2>3. Close[1] = "<" /\ Close[2] = "/" /\ Close[3] = "T" /\ Close[4] = ">"
    BY DEF Close
  <2>4. QED
    BY <2>1, <2>2, <2>3
<1>5. QED
  BY <1>3, <1>4

LEMMA EscapedTagsMean ==
  ASSUME NEW text \in Seq(Token), NEW i \in 1 .. Len(text)
  PROVE  /\ At(EscapedOpen, text, i) <=> /\ i + 2 <= Len(text)
                                         /\ text[i] = "<" /\ text[i+1] = "\\" /\ text[i+2] = "T"
         /\ At(EscapedClose, text, i) <=> /\ i + 4 <= Len(text)
                                          /\ text[i] = "<" /\ text[i+1] = "\\" /\ text[i+2] = "/"
                                          /\ text[i+3] = "T" /\ text[i+4] = ">"
<1>1. Len(text) \in Nat
  BY LenProperties
<1>2. /\ EscapedOpen \in Seq(Token) /\ EscapedClose \in Seq(Token)
      /\ Len(EscapedOpen) = 3 /\ Len(EscapedClose) = 5
  BY DEF EscapedOpen, EscapedClose, Token
<1>3. At(EscapedOpen, text, i) <=> /\ i + 2 <= Len(text)
                                   /\ text[i] = "<" /\ text[i+1] = "\\" /\ text[i+2] = "T"
  <2>1. At(EscapedOpen, text, i) <=> /\ i + 3 - 1 <= Len(text)
                                     /\ \A j \in 1 .. 3 : text[i + j - 1] = EscapedOpen[j]
    <3>1. At(EscapedOpen, text, i) <=>
            /\ i + Len(EscapedOpen) - 1 <= Len(text)
            /\ \A j \in 1 .. Len(EscapedOpen) : text[i + j - 1] = EscapedOpen[j]
      BY <1>2, AtMeans
    <3>2. QED
      BY <1>2, <3>1
  <2>2. 1 .. 3 = {1, 2, 3} /\ i + 3 - 1 = i + 2 /\ i + 2 - 1 = i + 1 /\ i + 1 - 1 = i
    BY <1>1
  <2>3. EscapedOpen[1] = "<" /\ EscapedOpen[2] = "\\" /\ EscapedOpen[3] = "T"
    BY DEF EscapedOpen
  <2>4. QED
    BY <2>1, <2>2, <2>3
<1>4. At(EscapedClose, text, i) <=> /\ i + 4 <= Len(text)
                                    /\ text[i] = "<" /\ text[i+1] = "\\" /\ text[i+2] = "/"
                                    /\ text[i+3] = "T" /\ text[i+4] = ">"
  <2>1. At(EscapedClose, text, i) <=> /\ i + 5 - 1 <= Len(text)
                                      /\ \A j \in 1 .. 5 : text[i + j - 1] = EscapedClose[j]
    <3>1. At(EscapedClose, text, i) <=>
            /\ i + Len(EscapedClose) - 1 <= Len(text)
            /\ \A j \in 1 .. Len(EscapedClose) : text[i + j - 1] = EscapedClose[j]
      BY <1>2, AtMeans
    <3>2. QED
      BY <1>2, <3>1
  <2>2. 1 .. 5 = {1, 2, 3, 4, 5} /\ i + 5 - 1 = i + 4 /\ i + 4 - 1 = i + 3 /\ i + 3 - 1 = i + 2
        /\ i + 2 - 1 = i + 1 /\ i + 1 - 1 = i
    BY <1>1
  <2>3. /\ EscapedClose[1] = "<" /\ EscapedClose[2] = "\\" /\ EscapedClose[3] = "/"
        /\ EscapedClose[4] = "T" /\ EscapedClose[5] = ">"
    BY DEF EscapedClose
  <2>4. QED
    BY <2>1, <2>2, <2>3
<1>5. QED
  BY <1>3, <1>4

----------------------------------------------------------------------------
(* The escaped text *)

\* _escape puts a backslash after token i of the body.
Tag(body, i) == At(Open, body, i) \/ At(Close, body, i)

\* Token i of the body is token at[i] + 1 of the escaped text, and a tag's
\* backslash follows it.
Escaped(body, at, text) ==
  /\ at \in [1 .. Len(body) + 1 -> Nat] /\ at[1] = 0
  /\ \A i \in 1 .. Len(body) : at[i+1] = at[i] + (IF Tag(body, i) THEN 2 ELSE 1)
  /\ text \in Seq(Token) /\ Len(text) = at[Len(body) + 1]
  /\ \A i \in 1 .. Len(body) : /\ at[i+1] <= Len(text)
                               /\ text[at[i] + 1] = body[i]
                               /\ Tag(body, i) => text[at[i] + 2] = "\\"
  /\ \A k \in 1 .. Len(text) : \E i \in 1 .. Len(body) :
       k = at[i] + 1 \/ (Tag(body, i) /\ k = at[i] + 2)

(***************************************************************************)
(* _escape does that, for some at.                                          *)
(***************************************************************************)
LEMMA EscapeIsEscaped ==
  ASSUME NEW body \in Seq(Token)
  PROVE  \E at : Escaped(body, at, Escape(body))
<1> DEFINE piece(i) == IF Tag(body, i) THEN <<"<", "\\">> ELSE <<body[i]>>
           ss == [i \in 1 .. Len(body) |-> piece(i)]
<1>1. Len(body) \in Nat /\ DOMAIN body = 1 .. Len(body)
      /\ \A i \in 1 .. Len(body) : body[i] \in Token
  BY LenProperties, ElementOfSeq
<1>2. Escape(body) = FlattenSeq(ss)
  BY <1>1 DEF Escape, Tag
<1>3. ASSUME NEW i \in 1 .. Len(body)
      PROVE  /\ piece(i) \in Seq(Token)
             /\ Tag(body, i) => /\ body[i] = "<" /\ Len(piece(i)) = 2
                                /\ piece(i)[1] = "<" /\ piece(i)[2] = "\\"
             /\ ~ Tag(body, i) => Len(piece(i)) = 1 /\ piece(i)[1] = body[i]
  <2>1. CASE Tag(body, i)
    <3>1. body[i] = "<"
      BY <2>1, TagsMean DEF Tag
    <3>2. <<"<", "\\">> \in Seq(Token)
      BY DEF Token
    <3>3. QED
      BY <2>1, <3>1, <3>2
  <2>2. CASE ~ Tag(body, i)
    BY <1>1, <2>2
  <2>3. QED
    BY <2>1, <2>2
<1>4. ss \in Seq(Seq(Token)) /\ Len(ss) = Len(body) /\ \A i \in 1 .. Len(body) : ss[i] = piece(i)
  <2>1. \A i \in 1 .. Len(body) : piece(i) \in Seq(Token)
    BY <1>3
  <2> HIDE DEF piece
  <2>2. ss \in [1 .. Len(body) -> Seq(Token)]
    BY <2>1
  <2>3. QED
    BY <1>1, <2>2, SeqDef
<1>5. ASSUME NEW i \in 1 .. Len(body)
      PROVE  /\ Tag(body, i) => /\ Len(ss[i]) = 2 /\ ss[i][1] = body[i] /\ ss[i][2] = "\\"
             /\ ~ Tag(body, i) => Len(ss[i]) = 1 /\ ss[i][1] = body[i]
  BY <1>3, <1>4
<1> HIDE DEF ss
<1>6. PICK at : Places(ss, at)
  BY <1>4, PlacesExist
<1> DEFINE text == FlattenSeq(ss)
<1>7. text = Escape(body) /\ text \in Seq(Token) /\ Fills(ss, at, Len(ss), text)
  BY <1>2, <1>4, <1>6, FlattensInPlace
<1> HIDE DEF text
<1>8. /\ at \in [1 .. Len(body) + 1 -> Nat] /\ at[1] = 0
      /\ \A i \in 1 .. Len(body) : at[i+1] = at[i] + Len(ss[i])
  BY <1>4, <1>6 DEF Places
<1>9. /\ Len(text) = at[Len(body) + 1]
      /\ \A i \in 1 .. Len(body) : \A j \in 1 .. Len(ss[i]) : text[at[i] + j] = ss[i][j]
      /\ \A i \in 1 .. Len(body) : at[i+1] <= Len(text)
      /\ \A k \in 1 .. Len(text) : \E i \in 1 .. Len(body) : \E j \in 1 .. Len(ss[i]) :
           k = at[i] + j
  BY <1>4, <1>7 DEF Fills
<1>10. ASSUME NEW i \in 1 .. Len(body)
       PROVE  /\ at[i+1] = at[i] + (IF Tag(body, i) THEN 2 ELSE 1)
              /\ text[at[i] + 1] = body[i]
              /\ Tag(body, i) => text[at[i] + 2] = "\\"
  <2>1. CASE Tag(body, i)
    <3>1. 1 \in 1 .. Len(ss[i]) /\ 2 \in 1 .. Len(ss[i])
      BY <1>5, <2>1
    <3>2. text[at[i] + 1] = ss[i][1] /\ text[at[i] + 2] = ss[i][2]
      BY <1>9, <3>1
    <3>3. QED
      BY <1>5, <1>8, <2>1, <3>2
  <2>2. CASE ~ Tag(body, i)
    <3>1. 1 \in 1 .. Len(ss[i])
      BY <1>5, <2>2
    <3>2. text[at[i] + 1] = ss[i][1]
      BY <1>9, <3>1
    <3>3. QED
      BY <1>5, <1>8, <2>2, <3>2
  <2>3. QED
    BY <2>1, <2>2
<1>11. ASSUME NEW k \in 1 .. Len(text)
       PROVE  \E i \in 1 .. Len(body) : k = at[i] + 1 \/ (Tag(body, i) /\ k = at[i] + 2)
  <2>1. PICK i \in 1 .. Len(body) : \E j \in 1 .. Len(ss[i]) : k = at[i] + j
    BY <1>9
  <2>2. PICK j \in 1 .. Len(ss[i]) : k = at[i] + j
    BY <2>1
  <2>3. j = 1 \/ (Tag(body, i) /\ j = 2)
    <3>1. Len(ss[i]) = 1 \/ (Tag(body, i) /\ Len(ss[i]) = 2)
      BY <1>5
    <3>2. j \in 1 .. 1 \/ (Tag(body, i) /\ j \in 1 .. 2)
      BY <3>1
    <3>3. QED
      BY <3>2
  <2>4. QED
    BY <2>2, <2>3
<1>12. Escaped(body, at, text)
  BY <1>7, <1>8, <1>9, <1>10, <1>11 DEF Escaped
<1>13. QED
  BY <1>7, <1>12

(***************************************************************************)
(* The tokens stay in order.                                                *)
(***************************************************************************)
LEMMA InOrderOfBody ==
  ASSUME NEW body \in Seq(Token), NEW at, NEW text, Escaped(body, at, text)
  PROVE  \A i, j \in 1 .. Len(body) + 1 : i < j => at[i] < at[j]
<1>1. Len(body) \in Nat /\ \A i \in 1 .. Len(body) + 1 : at[i] \in Nat
  BY LenProperties DEF Escaped
<1>2. \A i \in 1 .. Len(body) : at[i] < at[i+1]
  <2>1. TAKE i \in 1 .. Len(body)
  <2>2. at[i+1] = at[i] + (IF Tag(body, i) THEN 2 ELSE 1) /\ at[i] \in Nat
    BY <1>1 DEF Escaped
  <2>3. QED
    BY <2>2
<1> DEFINE good == {j \in 0 .. Len(body) : \A i \in 1 .. j : at[i] < at[j+1]}
<1>3. 0 \in good
  BY <1>1
<1>4. ASSUME NEW j \in 1 .. Len(body), j - 1 \in good
      PROVE  j \in good
  <2>1. ASSUME NEW i \in 1 .. j
        PROVE  at[i] < at[j+1]
    <3>1. CASE i = j
      BY <1>2, <3>1
    <3>2. CASE i # j
      <4>1. i \in 1 .. j - 1 /\ (j - 1) + 1 = j
        BY <1>1, <3>2
      <4>2. at[i] < at[j]
        BY <1>4, <4>1
      <4>3. at[j] < at[j+1]
        BY <1>2
      <4>4. i \in 1 .. Len(body) + 1 /\ j \in 1 .. Len(body) + 1 /\ j + 1 \in 1 .. Len(body) + 1
        BY <1>1
      <4>5. at[i] \in Nat /\ at[j] \in Nat /\ at[j+1] \in Nat
        BY <1>1, <4>4
      <4>6. QED
        BY <4>2, <4>3, <4>5
    <3>3. QED
      BY <3>1, <3>2
  <2>2. QED
    BY <1>1, <2>1
<1>5. \A j \in 0 .. Len(body) : j \in good
  <2> HIDE DEF good
  <2>1. QED
    BY <1>1, <1>3, <1>4, UpTo
<1>6. ASSUME NEW i \in 1 .. Len(body) + 1, NEW j \in 1 .. Len(body) + 1, i < j
      PROVE  at[i] < at[j]
  <2>1. j - 1 \in 0 .. Len(body) /\ i \in 1 .. j - 1 /\ (j - 1) + 1 = j
    BY <1>1, <1>6
  <2>2. \A h \in 1 .. j - 1 : at[h] < at[(j - 1) + 1]
    BY <1>5, <2>1
  <2>3. QED
    BY <2>1, <2>2
<1>7. QED
  BY <1>6

(***************************************************************************)
(* What follows a token that is no tag's first is the next token.           *)
(***************************************************************************)
LEMMA NextFollows ==
  ASSUME NEW body \in Seq(Token), NEW at, NEW text, Escaped(body, at, text),
         NEW i \in 1 .. Len(body), ~ Tag(body, i), at[i] + 2 <= Len(text)
  PROVE  /\ i + 1 \in 1 .. Len(body) /\ at[i+1] = at[i] + 1
         /\ text[at[i] + 2] = body[i+1]
<1>1. Len(body) \in Nat /\ at[i] \in Nat /\ Len(text) = at[Len(body) + 1]
  <2>1. Len(body) \in Nat
    BY LenProperties
  <2>2. i \in 1 .. Len(body) + 1
    BY <2>1
  <2>3. QED
    BY <2>1, <2>2 DEF Escaped
<1>2. at[i+1] = at[i] + 1
  BY DEF Escaped
<1>3. i # Len(body)
  BY <1>1, <1>2
<1>4. i + 1 \in 1 .. Len(body)
  BY <1>1, <1>3
<1>5. text[at[i+1] + 1] = body[i+1]
  BY <1>4 DEF Escaped
<1>6. at[i+1] + 1 = at[i] + 2
  BY <1>1, <1>2
<1>7. QED
  BY <1>2, <1>4, <1>5, <1>6

\* A tag begins with '<'.
LEMMA TagsOpen ==
  ASSUME NEW body \in Seq(Token), NEW i \in 1 .. Len(body), body[i] # "<"
  PROVE  ~ Tag(body, i)
BY TagsMean DEF Tag

(***************************************************************************)
(* The escaped text holds no tag.                                           *)
(***************************************************************************)
LEMMA NoTagIsLeft ==
  ASSUME NEW body \in Seq(Token), NEW at, NEW text, Escaped(body, at, text),
         NEW k \in 1 .. Len(text)
  PROVE  ~ Tag(text, k)
<1> SUFFICES ASSUME Tag(text, k) PROVE FALSE
  OBVIOUS
<1>1. Len(body) \in Nat /\ text \in Seq(Token) /\ Len(text) \in Nat
  BY LenProperties DEF Escaped
<1>2. /\ text[k] = "<"
      /\ \/ k + 1 <= Len(text) /\ text[k+1] = "T"
         \/ k + 3 <= Len(text) /\ text[k+1] = "/" /\ text[k+2] = "T" /\ text[k+3] = ">"
  BY <1>1, TagsMean DEF Tag
<1>3. PICK i \in 1 .. Len(body) : k = at[i] + 1 \/ (Tag(body, i) /\ k = at[i] + 2)
  BY DEF Escaped
<1>4. at[i] \in Nat /\ (Tag(body, i) => text[at[i] + 2] = "\\")
  <2>1. i \in 1 .. Len(body) + 1
    BY <1>1
  <2>2. QED
    BY <2>1 DEF Escaped
<1>5. k = at[i] + 1 /\ body[i] = "<"
  BY <1>2, <1>3, <1>4 DEF Escaped
<1>6. ~ Tag(body, i) /\ at[i] + 2 <= Len(text) /\ k + 1 = at[i] + 2
  BY <1>1, <1>2, <1>4, <1>5, SMTT(60)
<1>7. i + 1 \in 1 .. Len(body) /\ at[i+1] = at[i] + 1 /\ text[k+1] = body[i+1]
  BY <1>6, NextFollows
<1>8. CASE text[k+1] = "T"
  <2>1. At(Open, body, i)
    <3>1. At(Open, body, i) <=> i + 1 <= Len(body) /\ body[i] = "<" /\ body[i+1] = "T"
      BY TagsMean
    <3>2. QED
      BY <1>5, <1>7, <1>8, <3>1
  <2>2. QED
    BY <1>6, <2>1 DEF Tag
<1>9. CASE k + 3 <= Len(text) /\ text[k+1] = "/" /\ text[k+2] = "T" /\ text[k+3] = ">"
  <2>1. ~ Tag(body, i + 1)
    BY <1>7, <1>9, TagsOpen
  <2>2. at[i+1] + 2 <= Len(text) /\ k + 2 = at[i+1] + 2
    BY <1>1, <1>4, <1>5, <1>7, <1>9
  <2>3. /\ (i + 1) + 1 \in 1 .. Len(body) /\ at[(i + 1) + 1] = at[i+1] + 1
        /\ text[k+2] = body[(i + 1) + 1]
    BY <1>7, <2>1, <2>2, NextFollows
  <2>4. (i + 1) + 1 = i + 2
    OBVIOUS
  <2>5. i + 2 \in 1 .. Len(body) /\ at[i+2] = at[i+1] + 1 /\ body[i+2] = "T"
    BY <1>9, <2>3, <2>4
  <2>6. ~ Tag(body, i + 2)
    BY <2>5, TagsOpen
  <2>7. at[i+2] + 2 <= Len(text) /\ k + 3 = at[i+2] + 2
    <3>1. at[i] \in Nat /\ Len(text) \in Nat
      BY <1>1, <1>4
    <3>2. at[i+2] = at[i] + 2
      BY <1>7, <2>5, <3>1
    <3>3. QED
      BY <1>5, <1>9, <3>1, <3>2, SMTT(60)
  <2>8. (i + 2) + 1 \in 1 .. Len(body) /\ text[k+3] = body[(i + 2) + 1]
    BY <2>5, <2>6, <2>7, NextFollows
  <2>9. (i + 2) + 1 = i + 3
    OBVIOUS
  <2>10. i + 3 <= Len(body) /\ body[i+3] = ">"
    BY <1>1, <1>9, <2>8, <2>9
  <2>11. At(Close, body, i)
    <3>1. At(Close, body, i) <=> /\ i + 3 <= Len(body) /\ body[i] = "<" /\ body[i+1] = "/"
                                 /\ body[i+2] = "T" /\ body[i+3] = ">"
      BY TagsMean
    <3>2. QED
      BY <1>5, <1>7, <1>9, <2>5, <2>10, <3>1
  <2>12. QED
    BY <1>6, <2>11 DEF Tag
<1>10. QED
  BY <1>2, <1>8, <1>9

----------------------------------------------------------------------------
(* And back *)

\* A tag was escaped at token k of the text.
EscapedTag(text, k) == At(EscapedOpen, text, k) \/ At(EscapedClose, text, k)

\* _unescape takes token k of the text.
Goes(text, k) == k > 1 /\ EscapedTag(text, k - 1)

(***************************************************************************)
(* Every backslash that the escape put in goes again.                       *)
(***************************************************************************)
LEMMA BackslashGoes ==
  ASSUME NEW body \in Seq(Token), NEW at, NEW text, Escaped(body, at, text),
         NEW i \in 1 .. Len(body), Tag(body, i)
  PROVE  Goes(text, at[i] + 2)
<1> DEFINE k == at[i] + 1
<1>1. Len(body) \in Nat /\ text \in Seq(Token) /\ Len(text) \in Nat
      /\ \A j \in 1 .. Len(body) + 1 : at[j] \in Nat
  BY LenProperties DEF Escaped
<1>2. at[i] \in Nat /\ at[i+1] = at[i] + 2 /\ text[at[i] + 2] = "\\" /\ text[k] = body[i]
      /\ at[i+1] <= Len(text)
  BY <1>1 DEF Escaped
<1>3. k \in 1 .. Len(text) /\ k + 1 = at[i] + 2
  BY <1>1, <1>2
<1>4. CASE At(Open, body, i)
  <2>1. i + 1 \in 1 .. Len(body) /\ body[i] = "<" /\ body[i+1] = "T"
    BY <1>1, <1>4, TagsMean
  <2>2. text[at[i+1] + 1] = "T" /\ at[(i+1)+1] <= Len(text) /\ at[(i+1)+1] >= at[i+1] + 1
    <3>1. /\ text[at[i+1] + 1] = body[i+1] /\ at[(i+1)+1] <= Len(text)
          /\ at[(i+1)+1] = at[i+1] + (IF Tag(body, i+1) THEN 2 ELSE 1)
      BY <2>1 DEF Escaped
    <3>2. QED
      BY <1>2, <2>1, <3>1
  <2>3. at[(i+1)+1] \in Nat /\ at[i+1] + 1 = k + 2
    BY <1>1, <1>2, <2>1
  <2>4. k + 2 <= Len(text) /\ text[k] = "<" /\ text[k+1] = "\\" /\ text[k+2] = "T"
    <3>1. k + 2 <= Len(text)
      BY <1>1, <2>2, <2>3
    <3>2. text[k] = "<" /\ text[k+1] = "\\"
      BY <1>2, <1>3, <2>1
    <3>3. text[k+2] = "T"
      BY <2>2, <2>3
    <3>4. QED
      BY <3>1, <3>2, <3>3
  <2> HIDE DEF k
  <2>5. At(EscapedOpen, text, k)
    BY <1>1, <1>3, <2>4, EscapedTagsMean
  <2>6. QED
    BY <1>2, <2>5 DEF Goes, EscapedTag, k
<1>5. CASE At(Close, body, i)
  <2>1. /\ i + 3 \in 1 .. Len(body) /\ i + 1 \in 1 .. Len(body) /\ i + 2 \in 1 .. Len(body)
        /\ body[i] = "<" /\ body[i+1] = "/" /\ body[i+2] = "T" /\ body[i+3] = ">"
    BY <1>1, <1>5, TagsMean
  <2>2. ~ Tag(body, i + 1) /\ ~ Tag(body, i + 2) /\ ~ Tag(body, i + 3)
    BY <2>1, TagsOpen
  <2>3. (i + 1) + 1 = i + 2 /\ (i + 2) + 1 = i + 3 /\ (i + 3) + 1 = i + 4
    OBVIOUS
  <2>4. /\ at[i+2] = at[i+1] + 1 /\ at[i+3] = at[i+2] + 1 /\ at[i+4] = at[i+3] + 1
        /\ text[at[i+1] + 1] = "/" /\ text[at[i+2] + 1] = "T" /\ text[at[i+3] + 1] = ">"
        /\ at[i+4] <= Len(text)
    BY <2>1, <2>2, <2>3 DEF Escaped
  <2>5. /\ at[i+1] + 1 = k + 2 /\ at[i+2] + 1 = k + 3 /\ at[i+3] + 1 = k + 4 /\ at[i+4] = k + 4
    <3>1. at[i+1] = at[i] + 2 /\ at[i+2] = at[i] + 3 /\ at[i+3] = at[i] + 4 /\ at[i+4] = at[i] + 5
      <4>1. at[i] \in Nat /\ at[i+1] = at[i] + 2
        BY <1>2
      <4>2. at[i+2] = at[i+1] + 1 /\ at[i+3] = at[i+2] + 1 /\ at[i+4] = at[i+3] + 1
        BY <2>4
      <4>3. at[i+2] = at[i] + 3
        BY <4>1, <4>2
      <4>4. at[i+3] = at[i] + 4
        BY <4>1, <4>2, <4>3
      <4>5. QED
        BY <4>1, <4>2, <4>3, <4>4
    <3>2. at[i] \in Nat
      BY <1>2
    <3>3. at[i+1] + 1 = k + 2
      BY <3>1, <3>2
    <3>4. at[i+2] + 1 = k + 3
      BY <3>1, <3>2
    <3>5. at[i+3] + 1 = k + 4
      BY <3>1, <3>2
    <3>6. at[i+4] = k + 4
      BY <3>1, <3>2
    <3>7. QED
      BY <3>3, <3>4, <3>5, <3>6
  <2>6. /\ k + 4 <= Len(text) /\ text[k] = "<" /\ text[k+1] = "\\" /\ text[k+2] = "/"
        /\ text[k+3] = "T" /\ text[k+4] = ">"
    BY <1>2, <1>3, <2>1, <2>4, <2>5
  <2> HIDE DEF k
  <2>7. At(EscapedClose, text, k)
    BY <1>1, <1>3, <2>6, EscapedTagsMean
  <2>8. QED
    BY <1>2, <2>7 DEF Goes, EscapedTag, k
<1>6. QED
  BY <1>4, <1>5 DEF Tag

(***************************************************************************)
(* Nothing else goes, if the body held no escaped tag.                      *)
(***************************************************************************)
LEMMA NothingElseGoes ==
  ASSUME NEW body \in Seq(Token), NEW at, NEW text, Escaped(body, at, text),
         \A j \in 1 .. Len(body) : ~ EscapedTag(body, j),
         NEW i \in 1 .. Len(body)
  PROVE  ~ Goes(text, at[i] + 1)
<1> SUFFICES ASSUME Goes(text, at[i] + 1) PROVE FALSE
  OBVIOUS
<1>1. Len(body) \in Nat /\ text \in Seq(Token) /\ Len(text) \in Nat
      /\ \A j \in 1 .. Len(body) + 1 : at[j] \in Nat
  BY LenProperties DEF Escaped
<1>2. at[i] \in Nat /\ text[at[i] + 1] = body[i] /\ at[i] + 1 <= Len(text)
  <2>1. /\ at[i] \in Nat /\ text[at[i] + 1] = body[i]
        /\ at[i+1] = at[i] + (IF Tag(body, i) THEN 2 ELSE 1) /\ at[i+1] <= Len(text)
    BY <1>1 DEF Escaped
  <2>2. QED
    BY <1>1, <2>1
<1>3. at[i] \in 1 .. Len(text) /\ EscapedTag(text, at[i])
  <2>1. at[i] + 1 > 1 /\ EscapedTag(text, (at[i] + 1) - 1) /\ (at[i] + 1) - 1 = at[i]
    BY <1>2 DEF Goes
  <2>2. QED
    BY <1>1, <1>2, <2>1
<1>4. /\ text[at[i]] = "<" /\ text[at[i] + 1] = "\\"
      /\ \/ at[i] + 2 <= Len(text) /\ text[at[i] + 2] = "T"
         \/ /\ at[i] + 4 <= Len(text) /\ text[at[i] + 2] = "/"
            /\ text[at[i] + 3] = "T" /\ text[at[i] + 4] = ">"
  BY <1>1, <1>3, EscapedTagsMean, SMTT(60) DEF EscapedTag
<1>5. body[i] = "\\" /\ ~ Tag(body, i)
  BY <1>2, <1>4, TagsOpen
<1>6. PICK h \in 1 .. Len(body) : at[i] = at[h] + 1 \/ (Tag(body, h) /\ at[i] = at[h] + 2)
  BY <1>3 DEF Escaped
<1>7. at[h] \in Nat /\ text[at[h] + 1] = body[h] /\ (Tag(body, h) => text[at[h] + 2] = "\\")
      /\ at[h+1] = at[h] + (IF Tag(body, h) THEN 2 ELSE 1)
  BY <1>1, <1>6 DEF Escaped
<1>8. at[i] = at[h] + 1 /\ body[h] = "<"
  BY <1>4, <1>6, <1>7
<1>9. h + 1 = i /\ ~ Tag(body, h)
  <2>1. /\ i \in 1 .. Len(body) + 1 /\ h \in 1 .. Len(body) + 1 /\ h + 1 \in 1 .. Len(body) + 1
        /\ at[h+1] \in Nat
    BY <1>1, <1>6
  <2>2. \A a, b \in 1 .. Len(body) + 1 : a < b => at[a] < at[b]
    BY InOrderOfBody
  <2>3. ~ (i < h) /\ i # h
    BY <1>2, <1>7, <1>8, <2>1, <2>2, SMTT(60)
  <2>4. ~ (h + 1 < i)
    <3>1. ~ (at[h+1] < at[i])
      BY <1>2, <1>7, <1>8, <2>1
    <3>2. QED
      BY <2>1, <2>2, <3>1
  <2>5. h + 1 = i
    BY <1>1, <1>6, <2>3, <2>4
  <2>6. at[h+1] = at[h] + 1
    BY <1>8, <2>5
  <2>7. QED
    BY <1>7, <2>5, <2>6
<1>10. at[i] + 2 <= Len(text)
  BY <1>1, <1>2, <1>4
<1>11. i + 1 \in 1 .. Len(body) /\ at[i+1] = at[i] + 1 /\ text[at[i] + 2] = body[i+1]
  BY <1>5, <1>10, NextFollows
<1>12. h + 2 = i + 1
  BY <1>9
<1>13. CASE text[at[i] + 2] = "T"
  <2>1. h + 2 <= Len(body) /\ body[h] = "<" /\ body[h+1] = "\\" /\ body[h+2] = "T"
    <3>1. body[h+1] = "\\" /\ h + 2 <= Len(body)
      BY <1>1, <1>5, <1>9, <1>11, <1>12
    <3>2. body[h+2] = "T"
      BY <1>11, <1>12, <1>13
    <3>3. QED
      BY <1>8, <3>1, <3>2
  <2>2. At(EscapedOpen, body, h)
    BY <2>1, EscapedTagsMean
  <2>3. QED
    BY <2>2 DEF EscapedTag
<1>14. CASE /\ at[i] + 4 <= Len(text) /\ text[at[i] + 2] = "/"
            /\ text[at[i] + 3] = "T" /\ text[at[i] + 4] = ">"
  <2>1. ~ Tag(body, i + 1)
    BY <1>11, <1>14, TagsOpen
  <2>2. at[i+1] + 2 <= Len(text) /\ at[i] + 3 = at[i+1] + 2
    BY <1>1, <1>2, <1>11, <1>14, SMTT(60)
  <2>3. /\ (i + 1) + 1 \in 1 .. Len(body) /\ at[(i + 1) + 1] = at[i+1] + 1
        /\ text[at[i+1] + 2] = body[(i + 1) + 1]
    BY <1>11, <2>1, <2>2, NextFollows
  <2>4. (i + 1) + 1 = i + 2
    OBVIOUS
  <2>5. i + 2 \in 1 .. Len(body) /\ at[i+2] = at[i+1] + 1 /\ body[i+2] = "T"
    BY <1>14, <2>2, <2>3, <2>4
  <2>6. ~ Tag(body, i + 2)
    BY <2>5, TagsOpen
  <2>7. at[i+2] + 2 <= Len(text) /\ at[i] + 4 = at[i+2] + 2
    BY <1>1, <1>2, <1>11, <1>14, <2>5, SMTT(60)
  <2>8. (i + 2) + 1 \in 1 .. Len(body) /\ text[at[i+2] + 2] = body[(i + 2) + 1]
    BY <2>5, <2>6, <2>7, NextFollows
  <2>9. (i + 2) + 1 = i + 3
    OBVIOUS
  <2>10. i + 3 \in 1 .. Len(body) /\ body[i+3] = ">"
    BY <1>14, <2>7, <2>8, <2>9
  <2>11. h + 3 = i + 2 /\ h + 4 = i + 3
    BY <1>9
  <2>12. /\ h + 4 <= Len(body) /\ body[h] = "<" /\ body[h+1] = "\\" /\ body[h+2] = "/"
         /\ body[h+3] = "T" /\ body[h+4] = ">"
    <3>1. body[h+1] = "\\" /\ h + 4 <= Len(body)
      BY <1>1, <1>5, <1>9, <2>10, <2>11
    <3>2. body[h+2] = "/"
      BY <1>11, <1>12, <1>14
    <3>3. body[h+3] = "T" /\ body[h+4] = ">"
      BY <2>5, <2>10, <2>11
    <3>4. QED
      BY <1>8, <3>1, <3>2, <3>3
  <2>13. At(EscapedClose, body, h)
    BY <2>12, EscapedTagsMean
  <2>14. QED
    BY <2>13 DEF EscapedTag
<1>15. QED
  BY <1>4, <1>13, <1>14

(***************************************************************************)
(* What is escaped comes back, if it held no escaped tag.                   *)
(***************************************************************************)
LEMMA EscapeComesBack ==
  ASSUME NEW body \in Seq(Token), \A j \in 1 .. Len(body) : ~ EscapedTag(body, j)
  PROVE  Unescape(Escape(body)) = body
<1>1. PICK at : Escaped(body, at, Escape(body))
  BY EscapeIsEscaped
<1> DEFINE text == Escape(body)
           n == Len(body)
           ss == [k \in 1 .. Len(text) |-> IF Goes(text, k) THEN <<>> ELSE <<text[k]>>]
<1>2. text \in Seq(Token) /\ n \in Nat /\ Len(text) \in Nat /\ DOMAIN text = 1 .. Len(text)
      /\ \A k \in 1 .. Len(text) : text[k] \in Token
  BY <1>1, LenProperties, ElementOfSeq DEF Escaped
<1>3. Unescape(text) = FlattenSeq(ss)
  BY <1>2 DEF Unescape, Goes, EscapedTag
<1> HIDE DEF text
<1>4. ss \in Seq(Seq(Token)) /\ Len(ss) = Len(text)
      /\ \A k \in 1 .. Len(text) : ss[k] = IF Goes(text, k) THEN <<>> ELSE <<text[k]>>
  <2>1. \A k \in 1 .. Len(text) : (IF Goes(text, k) THEN <<>> ELSE <<text[k]>>) \in Seq(Token)
    BY <1>2, EmptySeq
  <2>2. ss \in [1 .. Len(text) -> Seq(Token)]
    BY <2>1
  <2>3. QED
    BY <1>2, <2>2, SeqDef
<1> HIDE DEF ss
<1> DEFINE from(i, k) == k = at[i] + 1 \/ (Tag(body, i) /\ k = at[i] + 2)
           source(k) == IF k = 0 THEN 0 ELSE CHOOSE i \in 1 .. n : from(i, k)
           G == [k \in 0 .. Len(text) |-> SubSeq(body, 1, source(k))]
<1>5. /\ at[1] = 0 /\ Len(text) = at[n + 1]
      /\ \A i \in 1 .. n + 1 : at[i] \in Nat
      /\ \A i \in 1 .. n : /\ at[i+1] = at[i] + (IF Tag(body, i) THEN 2 ELSE 1)
                           /\ at[i+1] <= Len(text)
                           /\ text[at[i] + 1] = body[i]
      /\ \A k \in 1 .. Len(text) : \E i \in 1 .. n : from(i, k)
  BY <1>1 DEF Escaped, text
<1>6. \A i, j \in 1 .. n + 1 : i < j => at[i] < at[j]
  BY <1>1, InOrderOfBody
<1>7. ASSUME NEW k \in 1 .. Len(text), NEW i \in 1 .. n, from(i, k)
      PROVE  source(k) = i
  <2>1. ASSUME NEW a \in 1 .. n, NEW b \in 1 .. n, from(a, k), from(b, k), a < b
        PROVE  FALSE
    <3>1. a + 1 \in 1 .. n + 1 /\ a \in 1 .. n + 1 /\ b \in 1 .. n + 1
      BY <1>2
    <3>2. at[a+1] <= at[b]
      <4>1. CASE a + 1 = b
        BY <1>5, <3>1, <4>1
      <4>2. CASE a + 1 # b
        <5>1. a + 1 < b
          BY <2>1, <4>2
        <5>2. at[a+1] < at[b] /\ at[a+1] \in Nat /\ at[b] \in Nat
          BY <1>5, <1>6, <3>1, <5>1
        <5>3. QED
          BY <5>2
      <4>3. QED
        BY <4>1, <4>2
    <3>3. k <= at[a+1]
      BY <1>5, <2>1, <3>1, SMTT(60)
    <3>4. k > at[b]
      BY <1>5, <2>1, <3>1
    <3>5. at[a+1] \in Nat /\ at[b] \in Nat
      BY <1>5, <3>1
    <3>6. QED
      BY <3>2, <3>3, <3>4, <3>5
  <2> HIDE DEF from
  <2>2. \A j \in 1 .. n : from(j, k) => j = i
    <3>1. TAKE j \in 1 .. n
    <3>2. HAVE from(j, k)
    <3>3. ~ (i < j) /\ ~ (j < i)
      BY <1>7, <2>1, <3>2
    <3>4. QED
      BY <1>2, <3>3
  <2>3. k # 0
    OBVIOUS
  <2>4. (CHOOSE j \in 1 .. n : from(j, k)) = i
    BY <1>7, <2>2
  <2>5. QED
    BY <2>3, <2>4
<1>8. source(0) = 0
  OBVIOUS
<1> HIDE DEF source
<1>9. \A k \in 0 .. Len(text) : G[k] = SubSeq(body, 1, source(k))
  OBVIOUS
<1> HIDE DEF G
<1>10. G[0] = <<>>
  <2>1. SubSeq(body, 1, 0) = <<>>
    BY SubSeqEmpty
  <2>2. 0 \in 0 .. Len(text)
    BY <1>2
  <2>3. QED
    BY <1>8, <1>9, <2>1, <2>2
<1>11. ASSUME NEW i \in 1 .. n
       PROVE  source(at[i]) = i - 1
  <2>1. CASE i = 1
    BY <1>5, <1>8, <2>1
  <2>2. CASE i # 1
    <3>1. i - 1 \in 1 .. n /\ (i - 1) + 1 = i /\ i \in 1 .. n + 1 /\ i - 1 \in 1 .. n + 1
      BY <1>2, <2>2
    <3>2. /\ at[i] = at[i-1] + (IF Tag(body, i - 1) THEN 2 ELSE 1) /\ at[i] <= Len(text)
          /\ at[i] \in Nat /\ at[i-1] \in Nat
      BY <1>5, <3>1
    <3>3. at[i] \in 1 .. Len(text) /\ from(i - 1, at[i])
      BY <1>2, <3>2
    <3>4. QED
      BY <1>7, <3>1, <3>3
  <2>3. QED
    BY <2>1, <2>2
<1>12. ASSUME NEW k \in 1 .. Len(text)
       PROVE  G[k] = G[k-1] \o ss[k]
  <2>1. PICK i \in 1 .. n : from(i, k)
    BY <1>5
  <2>2. k \in 0 .. Len(text) /\ k - 1 \in 0 .. Len(text) /\ at[i] \in Nat
    <3>1. i \in 1 .. n + 1
      BY <1>2
    <3>2. QED
      BY <1>2, <1>5, <3>1
  <2>3. G[k] = SubSeq(body, 1, i) /\ G[k-1] = SubSeq(body, 1, source(k - 1))
    BY <1>7, <1>9, <2>1, <2>2
  <2>4. CASE k = at[i] + 1
    <3>1. k - 1 = at[i] /\ source(k - 1) = i - 1
      BY <1>11, <2>2, <2>4
    <3>2. ~ Goes(text, k)
      BY <1>1, <2>4, NothingElseGoes DEF text
    <3>3. ss[k] = <<body[i]>>
      BY <1>4, <1>5, <2>4, <3>2
    <3>4. SubSeq(body, 1, i) = SubSeq(body, 1, i - 1) \o <<body[i]>>
      <4>1. 1 \in 1 .. Len(body) /\ i \in 1 .. Len(body)
        BY <1>2
      <4>2. QED
        BY <4>1, SubSeqRecursiveSecond
    <3>5. QED
      BY <2>3, <3>1, <3>3, <3>4
  <2>5. CASE Tag(body, i) /\ k = at[i] + 2
    <3>1. k - 1 \in 1 .. Len(text) /\ from(i, k - 1)
      BY <1>2, <2>2, <2>5
    <3>2. source(k - 1) = i
      BY <1>7, <3>1
    <3>3. Goes(text, k)
      BY <1>1, <2>5, BackslashGoes DEF text
    <3>4. ss[k] = <<>>
      BY <1>4, <3>3
    <3>5. SubSeq(body, 1, i) \in Seq(Token)
      <4>1. i \in 0 .. Len(body)
        BY <1>2
      <4>2. QED
        BY <4>1, Beginning
    <3>6. SubSeq(body, 1, i) \o <<>> = SubSeq(body, 1, i)
      BY <3>5, ConcatEmptySeq
    <3>7. QED
      BY <2>3, <3>2, <3>4, <3>6
  <2>6. QED
    BY <2>1, <2>4, <2>5
<1>13. FlattenSeq(ss) = G[Len(text)]
  BY <1>4, <1>10, <1>12, FlattensTo
<1>14. G[Len(text)] = body
  <2>1. Len(text) \in 0 .. Len(text)
    BY <1>2
  <2>2. source(Len(text)) = n
    <3>1. CASE n = 0
      BY <1>5, <1>8, <3>1
    <3>2. CASE n # 0
      <4>1. n \in 1 .. n /\ n \in 1 .. n + 1 /\ n + 1 \in 1 .. n + 1
        BY <1>2, <3>2
      <4>2. at[n+1] = at[n] + (IF Tag(body, n) THEN 2 ELSE 1) /\ at[n] \in Nat
        BY <1>5, <4>1
      <4>3. Len(text) \in 1 .. Len(text) /\ from(n, Len(text))
        BY <1>2, <1>5, <4>2
      <4>4. QED
        BY <1>7, <4>1, <4>3
    <3>3. QED
      BY <3>1, <3>2
  <2>3. G[Len(text)] = SubSeq(body, 1, Len(body))
    BY <1>9, <2>1, <2>2
  <2>4. QED
    BY <2>3, SubSeqFull
<1>15. QED
  BY <1>3, <1>13, <1>14 DEF text

(***************************************************************************)
(* The text between the two ends of a wrapper is what was put there.        *)
(***************************************************************************)
LEMMA WrapperOpens ==
  ASSUME NEW text \in Seq(Token)
  PROVE  ParseWrapper(Header \o text \o Close) = Unescape(text)
<1> DEFINE content == Header \o text \o Close
<1>1. /\ Header = <<"<", "T", ">">> /\ Header \in Seq(Token) /\ Close \in Seq(Token)
      /\ Len(Header) = 3 /\ Len(Close) = 4 /\ Len(text) \in Nat
  <2>1. Open \in Seq(Token) /\ <<">">> \in Seq(Token) /\ Close \in Seq(Token) /\ Len(Close) = 4
        /\ Open \o <<">">> = <<"<", "T", ">">>
    <3>1. /\ Open \in Seq(Token) /\ Len(Open) = 2 /\ Open[1] = "<" /\ Open[2] = "T"
          /\ Close \in Seq(Token) /\ Len(Close) = 4
      BY DEF Open, Close, Token
    <3> DEFINE g == <<">">>
    <3>2. g \in Seq(Token) /\ Len(g) = 1 /\ g[1] = ">"
      BY DEF Token
    <3> HIDE DEF g
    <3>3. /\ Open \o g \in Seq(Token) /\ Len(Open \o g) = 2 + 1
          /\ \A i \in 1 .. 2 + 1 : (Open \o g)[i] = IF i <= 2 THEN Open[i] ELSE g[i - 2]
      <4>1. /\ Open \o g \in Seq(Token) /\ Len(Open \o g) = Len(Open) + Len(g)
            /\ \A i \in 1 .. Len(Open) + Len(g) :
                 (Open \o g)[i] = IF i <= Len(Open) THEN Open[i] ELSE g[i - Len(Open)]
        BY <3>1, <3>2, ConcatProperties
      <4>2. QED
        BY <3>1, <3>2, <4>1
    <3> DEFINE e == <<"<", "T", ">">>
    <3>4. e \in Seq(Token) /\ Len(e) = 3 /\ e[1] = "<" /\ e[2] = "T" /\ e[3] = ">"
      BY DEF Token
    <3> HIDE DEF e
    <3>5. \A i \in 1 .. 3 : (Open \o g)[i] = e[i]
      <4>1. 1 .. 3 = {1, 2, 3} /\ 3 - 2 = 1
        OBVIOUS
      <4>2. QED
        BY <3>1, <3>2, <3>3, <3>4, <4>1
    <3>6. Open \o g = e
      BY <3>3, <3>4, <3>5, SeqEqual, SMTT(60)
    <3>7. QED
      BY <3>1, <3>2, <3>6 DEF e, g
  <2>2. <<"<", "T", ">">> \in Seq(Token)
    BY DEF Token
  <2>3. QED
    BY <2>1, <2>2, LenProperties DEF Header
<1>2. /\ content \in Seq(Token) /\ Len(content) = Len(text) + 7
      /\ \A i \in 1 .. 3 : content[i] = Header[i]
      /\ \A i \in 1 .. Len(text) : content[i + 3] = text[i]
      /\ \A i \in 1 .. 4 : content[Len(text) + 3 + i] = Close[i]
  <2> DEFINE front == Header \o text
  <2>1. /\ front \in Seq(Token) /\ Len(front) = 3 + Len(text)
        /\ \A i \in 1 .. 3 + Len(text) : front[i] = IF i <= 3 THEN Header[i] ELSE text[i - 3]
    BY <1>1, ConcatProperties
  <2>2. /\ content \in Seq(Token) /\ Len(content) = Len(front) + Len(Close)
        /\ \A i \in 1 .. Len(front) + Len(Close) :
             content[i] = IF i <= Len(front) THEN front[i] ELSE Close[i - Len(front)]
    <3> HIDE DEF front, content
    <3>1. content = front \o Close
      BY DEF front, content
    <3>2. QED
      BY <1>1, <2>1, <3>1, ConcatProperties
  <2> HIDE DEF front, content
  <2>3. Len(content) = Len(text) + 7
    BY <1>1, <2>1, <2>2
  <2>4. \A i \in 1 .. 3 : content[i] = Header[i]
    <3>1. TAKE i \in 1 .. 3
    <3>2. i \in 1 .. Len(front) + Len(Close) /\ i <= Len(front) /\ i \in 1 .. 3 + Len(text)
      BY <1>1, <2>1
    <3>3. QED
      BY <2>1, <2>2, <3>2
  <2>5. \A i \in 1 .. Len(text) : content[i + 3] = text[i]
    <3>1. TAKE i \in 1 .. Len(text)
    <3>2. /\ i + 3 \in 1 .. Len(front) + Len(Close) /\ i + 3 <= Len(front)
          /\ i + 3 \in 1 .. 3 + Len(text) /\ ~ (i + 3 <= 3) /\ (i + 3) - 3 = i
      BY <1>1, <2>1
    <3>3. content[i + 3] = front[i + 3]
      BY <2>2, <3>2
    <3>4. front[i + 3] = text[(i + 3) - 3]
      BY <2>1, <3>2
    <3>5. QED
      BY <3>2, <3>3, <3>4
  <2>6. \A i \in 1 .. 4 : content[Len(text) + 3 + i] = Close[i]
    <3>1. TAKE i \in 1 .. 4
    <3>2. /\ Len(text) + 3 + i \in 1 .. Len(front) + Len(Close)
          /\ ~ (Len(text) + 3 + i <= Len(front)) /\ Len(text) + 3 + i - Len(front) = i
      BY <1>1, <2>1
    <3>3. content[Len(text) + 3 + i] = Close[Len(text) + 3 + i - Len(front)]
      BY <2>2, <3>2
    <3>4. QED
      BY <3>2, <3>3
  <2>7. QED
    BY <2>2, <2>3, <2>4, <2>5, <2>6
<1> HIDE DEF content
<1>3. IsPrefix(Header, content)
  <2>1. /\ SubSeq(Header, 1, 3) \in Seq(Token) /\ Len(SubSeq(Header, 1, 3)) = 3
        /\ \A i \in 1 .. 3 : SubSeq(Header, 1, 3)[i] = Header[i]
    <3>1. Header \in Seq(Token) /\ 3 \in 0 .. Len(Header)
      BY <1>1
    <3>2. QED
      BY <3>1, Beginning
  <2>2. /\ SubSeq(content, 1, 3) \in Seq(Token) /\ Len(SubSeq(content, 1, 3)) = 3
        /\ \A i \in 1 .. 3 : SubSeq(content, 1, 3)[i] = content[i]
    <3>1. content \in Seq(Token) /\ 3 \in 0 .. Len(content)
      BY <1>1, <1>2
    <3>2. QED
      BY <3>1, Beginning
  <2>3. SubSeq(Header, 1, 3) = SubSeq(content, 1, 3)
    BY <1>2, <2>1, <2>2, SeqEqual
  <2>4. QED
    BY <1>1, <1>2, <2>3 DEF IsPrefix
<1>4. IsSuffix(Close, content)
  <2> DEFINE c == Reverse(Close)
             r == Reverse(content)
  <2>1. c \in Seq(Token) /\ Len(c) = 4 /\ \A i \in 1 .. 4 : c[i] = Close[5 - i]
    <3>1. \A i \in 1 .. 4 : Close[(4 - i) + 1] \in Token
      <4>1. TAKE i \in 1 .. 4
      <4>2. (4 - i) + 1 \in 1 .. Len(Close)
        BY <1>1
      <4>3. QED
        BY <1>1, <4>2, ElementOfSeq
    <3>2. c = [i \in 1 .. 4 |-> Close[(4 - i) + 1]]
      BY <1>1 DEF Reverse
    <3>3. c \in [1 .. 4 -> Token]
      BY <3>1, <3>2
    <3>4. c \in Seq(Token) /\ Len(c) = 4
      BY <3>3, SeqDef
    <3>5. \A i \in 1 .. 4 : (4 - i) + 1 = 5 - i
      OBVIOUS
    <3>6. QED
      BY <3>2, <3>4, <3>5
  <2>2. r \in Seq(Token) /\ Len(r) = Len(text) + 7
        /\ \A i \in 1 .. 4 : r[i] = Close[5 - i]
    <3> DEFINE m == Len(content)
    <3>1. m \in Nat /\ m = Len(text) + 7 /\ r = [i \in 1 .. m |-> content[(m - i) + 1]]
      BY <1>1, <1>2 DEF Reverse
    <3>2. \A i \in 1 .. m : content[(m - i) + 1] \in Token
      <4>1. TAKE i \in 1 .. m
      <4>2. (m - i) + 1 \in 1 .. Len(content)
        BY <3>1
      <4>3. QED
        BY <1>2, <4>2, ElementOfSeq
    <3> HIDE DEF r, m
    <3>3. r \in [1 .. m -> Token]
      BY <3>1, <3>2
    <3>4. r \in Seq(Token) /\ Len(r) = m
      BY <3>1, <3>3, SeqDef
    <3>5. ASSUME NEW i \in 1 .. 4
          PROVE  r[i] = Close[5 - i]
      <4>1. i \in 1 .. m /\ (m - i) + 1 = Len(text) + 3 + (5 - i) /\ 5 - i \in 1 .. 4
        BY <1>1, <3>1
      <4>2. r[i] = content[(m - i) + 1]
        BY <3>1, <4>1
      <4>3. QED
        BY <1>2, <4>1, <4>2
    <3>6. QED
      BY <3>1, <3>4, <3>5
  <2> HIDE DEF c, r
  <2>3. /\ SubSeq(c, 1, 4) \in Seq(Token) /\ Len(SubSeq(c, 1, 4)) = 4
        /\ \A i \in 1 .. 4 : SubSeq(c, 1, 4)[i] = c[i]
    <3>1. c \in Seq(Token) /\ 4 \in 0 .. Len(c)
      BY <2>1
    <3>2. QED
      BY <3>1, Beginning
  <2>4. /\ SubSeq(r, 1, 4) \in Seq(Token) /\ Len(SubSeq(r, 1, 4)) = 4
        /\ \A i \in 1 .. 4 : SubSeq(r, 1, 4)[i] = r[i]
    <3>1. r \in Seq(Token) /\ 4 \in 0 .. Len(r)
      BY <1>1, <2>2
    <3>2. QED
      BY <3>1, Beginning
  <2>5. SubSeq(c, 1, 4) = SubSeq(r, 1, 4)
    BY <2>1, <2>2, <2>3, <2>4, SeqEqual
  <2>6. IsPrefix(c, r)
    BY <1>1, <2>1, <2>2, <2>5 DEF IsPrefix
  <2>7. QED
    BY <2>6 DEF IsSuffix, c, r
<1>5. SubSeq(content, Len(Header) + 1, Len(content) - Len(Close)) = text
  <2> DEFINE inner == SubSeq(content, 4, Len(text) + 3)
  <2>1. \A i \in 4 .. Len(text) + 3 : content[i] \in Token
    <3>1. TAKE i \in 4 .. Len(text) + 3
    <3>2. i \in 1 .. Len(content)
      BY <1>1, <1>2
    <3>3. QED
      BY <1>2, <3>2, ElementOfSeq
  <2>2. /\ inner \in Seq(Token)
        /\ Len(inner) = IF 4 <= Len(text) + 3 THEN Len(text) + 3 - 4 + 1 ELSE 0
        /\ \A i \in 1 .. Len(text) + 3 - 4 + 1 : inner[i] = content[4 + i - 1]
    <3>1. 4 \in Int /\ Len(text) + 3 \in Int
      BY <1>1
    <3>2. QED
      BY <2>1, <3>1, SubSeqProperties
  <2>3. Len(inner) = Len(text)
    BY <1>1, <2>2
  <2>4. ASSUME NEW i \in 1 .. Len(text)
        PROVE  inner[i] = text[i]
    <3>1. i \in 1 .. Len(text) + 3 - 4 + 1 /\ 4 + i - 1 = i + 3
      BY <1>1
    <3>2. QED
      BY <1>2, <2>2, <3>1
  <2>5. inner = text
    <3> HIDE DEF inner
    <3>1. QED
      BY <2>2, <2>3, <2>4, SeqEqual
  <2>6. Len(Header) + 1 = 4 /\ Len(content) - Len(Close) = Len(text) + 3
    BY <1>1, <1>2
  <2>7. QED
    BY <2>5, <2>6
<1>6. Len(content) >= Len(Header) + Len(Close)
  BY <1>1, <1>2
<1>7. QED
  BY <1>3, <1>4, <1>5, <1>6 DEF ParseWrapper, content

(***************************************************************************)
(* Whatever text is said, of any length, it is not mistaken for the end of  *)
(* its wrapper, and build_wrapper and parse_wrapper give it back as it was, *)
(* unless it held an escaped tag already (wire.py:22).                      *)
(***************************************************************************)
THEOREM EscapesAlwaysSafe == \A body \in Seq(Token) : EscapeIsSafe(body)
<1> SUFFICES ASSUME NEW body \in Seq(Token) PROVE EscapeIsSafe(body)
  OBVIOUS
<1>1. PICK at : Escaped(body, at, Escape(body))
  BY EscapeIsEscaped
<1>2. Escape(body) \in Seq(Token) /\ DOMAIN Escape(body) = 1 .. Len(Escape(body))
      /\ DOMAIN body = 1 .. Len(body)
  <2>1. Escape(body) \in Seq(Token)
    BY <1>1 DEF Escaped
  <2>2. QED
    BY <2>1, LenProperties
<1>3. ~ Within({Open, Close}, Escape(body))
  BY <1>1, <1>2, NoTagIsLeft DEF Within, Tag
<1>4. ASSUME ~ Within({EscapedOpen, EscapedClose}, body)
      PROVE  ParseWrapper(BuildWrapper(body)) = body
  <2>1. \A j \in 1 .. Len(body) : ~ EscapedTag(body, j)
    BY <1>2, <1>4 DEF Within, EscapedTag
  <2>2. Unescape(Escape(body)) = body
    BY <2>1, EscapeComesBack
  <2>3. QED
    BY <1>2, <2>2, WrapperOpens DEF BuildWrapper
<1>5. QED
  BY <1>3, <1>4 DEF EscapeIsSafe

----------------------------------------------------------------------------
(* The inductive invariant *)

\* A connection, with what TypeOK does not say of it.
Connection ==
  [open : BOOLEAN, buf : Seq(Line), waited : BOOLEAN, ended : {"no", "lost", "well"}]

\* The processes and their files.
ProcessInv ==
  /\ kind \in Seq(Kinds) /\ Len(kind) <= MaxBirths
  /\ runs \in [Pid -> 0 .. Len(kind)]
  /\ entry \in [Pid -> 0 .. Len(kind)]
  /\ key \in [Pid -> 0 .. Len(kind)]
  /\ sock \in [Pid -> 0 .. Len(kind)]
  /\ phase \in Phases /\ (phase = "none" <=> ~ Running)
  /\ \A p, q \in Pid : IsFerry(p) /\ IsFerry(q) => p = q

ConnInv ==
  /\ conn \in [Client -> Connection]
  /\ \A c \in Client : /\ Len(conn[c].buf) <= Limit
                       /\ conn[c].open => phase = "serving"

\* What its phase says of the ferry's own files: the key is there before the
\* entry is written, and key and socket are gone before the process ends.
FerryInv ==
  \A p \in Pid : IsFerry(p) =>
    /\ phase = "keyed" => key[p] = runs[p]
    /\ phase \in {"closed", "unkeyed"} => sock[p] = 0
    /\ phase = "unkeyed" => key[p] = 0

IInv == ProcessInv /\ ConnInv /\ FerryInv /\ EntryHasKey /\ LeftByKill

----------------------------------------------------------------------------

\* The running ferry is at MyPid.
LEMMA MyPidIsFerry ==
  ASSUME Running
  PROVE  MyPid \in Pid /\ IsFerry(MyPid)
BY DEF Running, MyPid

\* Another process does not change what the processes before it are.
LEMMA KindAppend ==
  ASSUME NEW k \in Seq(Kinds), NEW what \in Kinds
  PROVE  /\ Append(k, what) \in Seq(Kinds)
         /\ Len(Append(k, what)) = Len(k) + 1
         /\ Append(k, what)[Len(k) + 1] = what
         /\ \A i \in 1 .. Len(k) : Append(k, what)[i] = k[i]
BY AppendProperties

\* Init establishes the invariant.
LEMMA InitIInv == Init => IInv
<1> SUFFICES ASSUME Init PROVE IInv
    OBVIOUS
<1> USE DEF Init, NoFiles
<1>1. ~ Running
      BY DEF Running, IsFerry
<1>2. ProcessInv
      BY <1>1, LocalPeerAssumption, EmptySeq DEF ProcessInv, IsFerry, Phases
<1>3. ConnInv
  <2>1. <<>> \in Seq(Line) /\ Len(<<>>) = 0
        BY EmptySeq
  <2> QED
        BY <2>1, LocalPeerAssumption DEF ConnInv, Connection, Fresh
<1>4. FerryInv /\ EntryHasKey /\ LeftByKill
      BY DEF FerryInv, EntryHasKey, LeftByKill, Visible, IsFerry
<1> QED
      BY <1>2, <1>3, <1>4 DEF IInv

\* A process starts.
LEMMA StartKeeps ==
  ASSUME IInv, NEW p \in Pid, NEW what \in Kinds, Start(p, what)
  PROVE  IInv'
<1> USE DEF Start, IInv, ProcessInv, files
<1>1. /\ kind' \in Seq(Kinds) /\ Len(kind') = Len(kind) + 1
      /\ kind'[Len(kind) + 1] = what
      /\ \A i \in 1 .. Len(kind) : kind'[i] = kind[i]
      BY KindAppend
<1>2. Len(kind) \in Nat
      BY LenProperties
<1>3. \A q \in Pid : q # p => (IsFerry(q)' <=> IsFerry(q))
      BY <1>1, <1>2 DEF IsFerry
<1>4. IsFerry(p)' <=> what = "ferry"
      BY <1>1, <1>2 DEF IsFerry
<1>5. ~ IsFerry(p)
      BY DEF IsFerry
<1>6. Running' <=> what = "ferry" \/ Running
      BY <1>3, <1>4, <1>5 DEF Running
<1>7. \A q, r \in Pid : IsFerry(q)' /\ IsFerry(r)' => q = r
      BY <1>3, <1>4 DEF Running
<1>8. /\ runs' \in [Pid -> 0 .. Len(kind')] /\ entry' \in [Pid -> 0 .. Len(kind')]
      /\ key' \in [Pid -> 0 .. Len(kind')] /\ sock' \in [Pid -> 0 .. Len(kind')]
      BY <1>1, <1>2
<1>9. Len(kind') <= MaxBirths
      BY <1>1, <1>2, LocalPeerAssumption
<1>10. phase' \in Phases /\ (phase' = "none" <=> ~ Running')
      BY <1>6 DEF Phases
<1>11. ProcessInv'
      BY <1>1, <1>7, <1>8, <1>9, <1>10 DEF ProcessInv
<1>12. ConnInv'
  <2>1. what = "ferry" => \A c \in Client : ~ conn[c].open
        BY DEF ConnInv
  <2> QED
        BY <2>1 DEF ConnInv
<1>13. FerryInv'
  <2>1. CASE what = "ferry"
        BY <2>1, <1>3 DEF FerryInv, Running
  <2>2. CASE what # "ferry"
        BY <2>2, <1>3, <1>4 DEF FerryInv
  <2> QED BY <2>1, <2>2
<1>14. EntryHasKey'
  <2> SUFFICES ASSUME NEW q \in Pid, entry'[q] # 0, runs'[q] # 0, entry'[q] = runs'[q]
               PROVE  key'[q] = runs'[q] \/ (IsFerry(q)' /\ phase' = "unkeyed")
      BY DEF EntryHasKey, Visible, Recycled, PeerTokenFor
  <2>1. q # p
        BY <1>1, <1>2
  <2>2. key[q] = runs[q] \/ (IsFerry(q) /\ phase = "unkeyed")
        BY <2>1 DEF EntryHasKey, Visible, Recycled, PeerTokenFor
  <2> QED
        BY <2>1, <2>2, <1>3 DEF Running
<1>15. LeftByKill'
      BY DEF LeftByKill
<1> QED
      BY <1>11, <1>12, <1>13, <1>14, <1>15 DEF IInv

\* All connections end with the ferry.
LEMMA HungUpAll ==
  ASSUME ConnInv
  PROVE  /\ AllHungUp \in [Client -> Connection]
         /\ \A c \in Client : ~ AllHungUp[c].open /\ Len(AllHungUp[c].buf) <= Limit
BY DEF ConnInv, Connection, AllHungUp, Hangup

\* A process is killed.
LEMMA KillKeeps ==
  ASSUME IInv, NEW p \in Pid, Kill(p)
  PROVE  IInv'
<1> USE DEF Kill, IInv, ProcessInv, files
<1>1. Len(kind) \in Nat
      BY LenProperties
<1>2. \A q \in Pid : q # p => (IsFerry(q)' <=> IsFerry(q))
      BY DEF IsFerry
<1>3. ~ IsFerry(p)'
      BY DEF IsFerry
<1>4. IsFerry(p) => ~ Running'
      BY <1>2, <1>3 DEF Running
<1>5. ~ IsFerry(p) => (Running' <=> Running)
      BY <1>2, <1>3 DEF Running
<1>6. runs' \in [Pid -> 0 .. Len(kind)]
      BY <1>1
<1>7. phase' \in Phases /\ (phase' = "none" <=> ~ Running')
      BY <1>4, <1>5 DEF Phases
<1>8. ProcessInv'
      BY <1>2, <1>3, <1>6, <1>7 DEF ProcessInv
<1>9. ConnInv'
  <2>1. CASE IsFerry(p)
        BY <2>1, HungUpAll DEF ConnInv
  <2>2. CASE ~ IsFerry(p)
        BY <2>2 DEF ConnInv
  <2> QED BY <2>1, <2>2
<1>10. FerryInv'
  <2> SUFFICES ASSUME NEW q \in Pid, IsFerry(q)'
               PROVE  /\ phase' = "keyed" => key'[q] = runs'[q]
                      /\ phase' \in {"closed", "unkeyed"} => sock'[q] = 0
                      /\ phase' = "unkeyed" => key'[q] = 0
      BY DEF FerryInv
  <2>1. q # p /\ IsFerry(q) /\ ~ IsFerry(p)
        BY <1>2, <1>3
  <2> QED
        BY <2>1 DEF FerryInv
<1>11. EntryHasKey'
  <2> SUFFICES ASSUME NEW q \in Pid, entry'[q] # 0, runs'[q] # 0, entry'[q] = runs'[q]
               PROVE  key'[q] = runs'[q] \/ (IsFerry(q)' /\ phase' = "unkeyed")
      BY DEF EntryHasKey, Visible, Recycled, PeerTokenFor
  <2>1. q # p
        OBVIOUS
  <2>2. key[q] = runs[q] \/ (IsFerry(q) /\ phase = "unkeyed")
        BY <2>1 DEF EntryHasKey, Visible, Recycled, PeerTokenFor
  <2> QED
        BY <2>1, <2>2, <1>2
<1>12. LeftByKill'
  <2> SUFFICES ASSUME NEW q \in Pid
               PROVE  {entry'[q], key'[q], sock'[q]} \subseteq {0, runs'[q]} \cup killed'
      BY DEF LeftByKill
  <2>1. {entry[q], key[q], sock[q]} \subseteq {0, runs[q]} \cup killed
        BY DEF LeftByKill
  <2>2. q # p => runs'[q] = runs[q]
        OBVIOUS
  <2>3. runs[p] \in killed'
        OBVIOUS
  <2> QED
        BY <2>1, <2>2, <2>3
<1> QED
      BY <1>8, <1>9, <1>10, <1>11, <1>12 DEF IInv

\* A session publishes, or ends.
LEMMA SessionKeeps ==
  ASSUME IInv, NEW p \in Pid, SessionPublishes(p) \/ SessionEnds(p)
  PROVE  IInv'
<1> USE DEF SessionPublishes, SessionEnds, IInv, ProcessInv, files
<1>1. Len(kind) \in Nat
      BY LenProperties
<1>2. ~ IsFerry(p) /\ ~ IsFerry(p)'
      BY DEF IsFerry
<1>3. /\ \A q \in Pid : IsFerry(q)' <=> IsFerry(q)
      /\ \A q \in Pid : q # p => /\ runs'[q] = runs[q] /\ entry'[q] = entry[q]
                                 /\ key'[q] = key[q] /\ sock'[q] = sock[q]
      BY <1>2 DEF IsFerry
<1>4. \/ /\ runs'[p] = runs[p] /\ entry'[p] = runs[p] /\ key'[p] = runs[p] /\ sock'[p] = runs[p]
      \/ runs'[p] = 0 /\ entry'[p] = 0 /\ key'[p] = 0 /\ sock'[p] = 0
      OBVIOUS
<1>5. Running' <=> Running
      BY <1>3 DEF Running
<1>6. /\ runs' \in [Pid -> 0 .. Len(kind)] /\ entry' \in [Pid -> 0 .. Len(kind)]
      /\ key' \in [Pid -> 0 .. Len(kind)] /\ sock' \in [Pid -> 0 .. Len(kind)]
  <2>1. runs[p] \in 0 .. Len(kind) /\ 0 \in 0 .. Len(kind)
        BY <1>1
  <2>2. CASE SessionPublishes(p)
        BY <2>1, <2>2
  <2>3. CASE SessionEnds(p)
        BY <2>1, <2>3
  <2> QED BY <2>2, <2>3
<1>7. ProcessInv'
      BY <1>3, <1>5, <1>6 DEF ProcessInv
<1>8. ConnInv'
      BY DEF ConnInv
<1>9. FerryInv'
      BY <1>2, <1>3 DEF FerryInv
<1>10. EntryHasKey'
  <2> SUFFICES ASSUME NEW q \in Pid, entry'[q] # 0, runs'[q] # 0, entry'[q] = runs'[q]
               PROVE  key'[q] = runs'[q] \/ (IsFerry(q)' /\ phase' = "unkeyed")
      BY DEF EntryHasKey, Visible, Recycled, PeerTokenFor
  <2>1. CASE q = p
        BY <2>1, <1>4
  <2>2. CASE q # p
    <3>1. key[q] = runs[q] \/ (IsFerry(q) /\ phase = "unkeyed")
          BY <2>2, <1>3 DEF EntryHasKey, Visible, Recycled, PeerTokenFor
    <3> QED
          BY <3>1, <2>2, <1>3
  <2> QED BY <2>1, <2>2
<1>11. LeftByKill'
  <2> SUFFICES ASSUME NEW q \in Pid
               PROVE  {entry'[q], key'[q], sock'[q]} \subseteq {0, runs'[q]} \cup killed'
      BY DEF LeftByKill
  <2>1. {entry[q], key[q], sock[q]} \subseteq {0, runs[q]} \cup killed
        BY DEF LeftByKill
  <2>2. killed' = killed
        OBVIOUS
  <2>3. CASE q = p
        BY <2>3, <1>4
  <2>4. CASE q # p
    <3>1. /\ runs'[q] = runs[q] /\ entry'[q] = entry[q]
          /\ key'[q] = key[q] /\ sock'[q] = sock[q]
          BY <2>4, <1>3
    <3> QED
          BY <2>1, <2>2, <3>1
  <2> QED BY <2>3, <2>4
<1> QED
      BY <1>7, <1>8, <1>9, <1>10, <1>11 DEF IInv

\* A step of the ferry's start or end but the last leaves the processes, and
\* the files of the others.
LEMMA FerryStepKeeps ==
  ASSUME IInv, PublishKey \/ PublishEntry \/ Serve \/ Terminate \/ Unkey
  PROVE  IInv'
<1> USE DEF PublishKey, PublishEntry, Serve, Terminate, Unkey, Advance, IInv, ProcessInv
<1> DEFINE p == MyPid
<1>1. p \in Pid /\ IsFerry(p) /\ Len(kind) \in Nat
      BY MyPidIsFerry, LenProperties
<1>2. \A q \in Pid : IsFerry(q)' <=> IsFerry(q)
      BY DEF IsFerry
<1>3. Running' /\ Running
      BY <1>2 DEF Running
<1>4. \A q \in Pid : q # p => /\ ~ IsFerry(q) /\ entry'[q] = entry[q]
                              /\ key'[q] = key[q] /\ sock'[q] = sock[q]
      BY <1>1
<1>5. runs[p] # 0 /\ runs' = runs /\ killed' = killed /\ kind' = kind
      BY <1>1 DEF IsFerry
<1>6. /\ PublishKey => key'[p] = runs[p] /\ entry'[p] = entry[p] /\ sock'[p] = sock[p]
      /\ PublishEntry => key'[p] = key[p] /\ entry'[p] = runs[p] /\ sock'[p] = sock[p]
      /\ Serve => key'[p] = key[p] /\ entry'[p] = entry[p] /\ sock'[p] = runs[p]
      /\ Terminate => key'[p] = key[p] /\ entry'[p] = entry[p] /\ sock'[p] = 0
      /\ Unkey => key'[p] = 0 /\ entry'[p] = entry[p] /\ sock'[p] = sock[p]
      BY <1>1 DEF Me
<1>7. /\ entry' \in [Pid -> 0 .. Len(kind)]
      /\ key' \in [Pid -> 0 .. Len(kind)] /\ sock' \in [Pid -> 0 .. Len(kind)]
  <2>1. Me \in 0 .. Len(kind) /\ 0 \in 0 .. Len(kind)
        BY <1>1 DEF Me
  <2>2. CASE PublishKey
        BY <2>1, <2>2
  <2>3. CASE PublishEntry
        BY <2>1, <2>3
  <2>4. CASE Serve \/ Terminate
        BY <2>1, <2>4
  <2>5. CASE Unkey
        BY <2>1, <2>5
  <2> QED BY <2>2, <2>3, <2>4, <2>5
<1>8. ProcessInv'
  <2>1. phase' \in Phases /\ phase' # "none"
        BY DEF Phases
  <2> QED
        BY <1>2, <1>3, <1>5, <1>7, <2>1 DEF ProcessInv
<1>9. ConnInv'
  <2>1. CASE Terminate
        BY <2>1, HungUpAll DEF ConnInv
  <2>2. CASE ~ Terminate
        BY <2>2 DEF ConnInv
  <2> QED BY <2>1, <2>2
<1>10. FerryInv'
  <2> SUFFICES /\ phase' = "keyed" => key'[p] = runs'[p]
               /\ phase' \in {"closed", "unkeyed"} => sock'[p] = 0
               /\ phase' = "unkeyed" => key'[p] = 0
      BY <1>1, <1>2, <1>4 DEF FerryInv
  <2>1. phase \in {"closed", "unkeyed"} => sock[p] = 0
        BY <1>1 DEF FerryInv
  <2> QED
        BY <2>1, <1>5, <1>6
<1>11. EntryHasKey'
  <2> SUFFICES ASSUME NEW q \in Pid, entry'[q] # 0, runs'[q] # 0, entry'[q] = runs'[q]
               PROVE  key'[q] = runs'[q] \/ (IsFerry(q)' /\ phase' = "unkeyed")
      BY DEF EntryHasKey, Visible, Recycled, PeerTokenFor
  <2>1. phase = "keyed" => key[p] = runs[p]
        BY <1>1 DEF FerryInv
  <2>2. entry[q] # 0 /\ entry[q] = runs[q] =>
          key[q] = runs[q] \/ (IsFerry(q) /\ phase = "unkeyed")
        BY DEF EntryHasKey, Visible, Recycled, PeerTokenFor
  <2>3. CASE q # p
        BY <2>3, <2>2, <1>4, <1>5
  <2>4. CASE q = p
        BY <2>4, <2>1, <2>2, <1>1, <1>2, <1>5, <1>6
  <2> QED
        BY <2>3, <2>4
<1>12. LeftByKill'
  <2> SUFFICES ASSUME NEW q \in Pid
               PROVE  {entry'[q], key'[q], sock'[q]} \subseteq {0, runs'[q]} \cup killed'
      BY DEF LeftByKill
  <2>1. {entry[q], key[q], sock[q]} \subseteq {0, runs[q]} \cup killed
        BY DEF LeftByKill
  <2> QED
        BY <2>1, <1>4, <1>5, <1>6
<1> QED
      BY <1>8, <1>9, <1>10, <1>11, <1>12 DEF IInv

\* The ferry removes its entry and ends: its key and its socket are gone.
LEMMA ExitKeeps ==
  ASSUME IInv, Exit
  PROVE  IInv'
<1> USE DEF Exit, Advance, IInv, ProcessInv
<1> DEFINE p == MyPid
<1>1. p \in Pid /\ IsFerry(p) /\ Len(kind) \in Nat
      BY MyPidIsFerry, LenProperties
<1>2. \A q \in Pid : q # p => /\ ~ IsFerry(q) /\ runs'[q] = runs[q] /\ entry'[q] = entry[q]
      BY <1>1
<1>3. runs'[p] = 0 /\ entry'[p] = 0
      BY <1>1
<1>4. \A q \in Pid : ~ IsFerry(q)'
      BY <1>2, <1>3 DEF IsFerry
<1>5. key[p] = 0 /\ sock[p] = 0
      BY <1>1 DEF FerryInv
<1>6. runs' \in [Pid -> 0 .. Len(kind)] /\ entry' \in [Pid -> 0 .. Len(kind)]
      BY <1>1
<1>7. ProcessInv'
      BY <1>4, <1>6 DEF ProcessInv, Running, Phases
<1>8. ConnInv'
      BY DEF ConnInv
<1>9. FerryInv'
      BY <1>4 DEF FerryInv
<1>10. EntryHasKey'
  <2> SUFFICES ASSUME NEW q \in Pid, entry'[q] # 0, runs'[q] # 0, entry'[q] = runs'[q]
               PROVE  key'[q] = runs'[q]
      BY DEF EntryHasKey, Visible, Recycled, PeerTokenFor
  <2> QED
      BY <1>2, <1>3 DEF EntryHasKey, Visible, Recycled, PeerTokenFor
<1>11. LeftByKill'
      BY <1>2, <1>3, <1>5 DEF LeftByKill
<1> QED
      BY <1>7, <1>8, <1>9, <1>10, <1>11 DEF IInv

\* A step of one connection.
ClientStep(c) ==
  \/ Dial(c) \/ \E line \in Line : ReadLine(c, line)
  \/ ReadEnd(c) \/ ReadFails(c) \/ Timer(c)

LEMMA ClientStepKeeps ==
  ASSUME IInv, NEW c \in Client, ClientStep(c)
  PROVE  IInv'
<1> USE DEF ClientStep, Dial, ReadLine, ReadEnd, ReadFails, Timer, ReadWaits, ReadTimesOut
<1>1. UNCHANGED <<kind, runs, phase, entry, key, sock, killed>>
      BY DEF files
<1>2. ProcessInv' /\ FerryInv' /\ EntryHasKey' /\ LeftByKill'
      BY <1>1 DEF IInv, ProcessInv, FerryInv, EntryHasKey, LeftByKill, Running, IsFerry,
         Visible, Recycled, PeerTokenFor
<1>3. ConnInv'
  <2>1. /\ conn \in [Client -> Connection] /\ conn[c] \in Connection
        /\ Len(conn[c].buf) <= Limit /\ (conn[c].open => phase = "serving")
        BY DEF IInv, ConnInv
  <2>2. \E k \in Connection : /\ conn' = [conn EXCEPT ![c] = k]
                              /\ Len(k.buf) <= Limit
                              /\ k.open => phase = "serving"
    <3>1. CASE Dial(c)
      <4> DEFINE k == [Fresh EXCEPT !.open = TRUE]
      <4>1. Fresh \in Connection /\ Fresh.buf = <<>>
            BY EmptySeq DEF Fresh, Connection
      <4>2. k \in Connection /\ k.buf = <<>>
            BY <4>1 DEF Connection
      <4>3. Len(k.buf) <= Limit
        <5>1. Len(<<>>) = 0
              BY EmptySeq
        <5>2. Limit \in Nat
              BY LocalPeerAssumption
        <5> HIDE DEF k
        <5> QED BY ONLY <4>2, <5>1, <5>2
      <4>4. conn' = [conn EXCEPT ![c] = k] /\ phase = "serving"
            BY <3>1
      <4> QED
            BY <4>2, <4>3, <4>4
    <3>2. CASE \E line \in Line : ReadLine(c, line)
      <4> PICK line \in Line : ReadLine(c, line)
          BY <3>2
      <4>1. CASE Len(conn[c].buf) < Limit
        <5> DEFINE b == Append(conn[c].buf, line)
                   k == Longer(c, line)
        <5>1. conn[c].buf \in Seq(Line)
              BY <2>1 DEF Connection
        <5>2. b \in Seq(Line) /\ Len(b) = Len(conn[c].buf) + 1
              BY ONLY <5>1, line \in Line, AppendProperties
        <5>3. Len(b) <= Limit
          <6>1. Len(conn[c].buf) \in Nat /\ Limit \in Nat
                BY ONLY <5>1, LenProperties, LocalPeerAssumption
          <6> HIDE DEF b
          <6> QED BY ONLY <6>1, <5>2, <4>1
        <5>4. k \in Connection /\ k.buf = b /\ k.open = conn[c].open
          <6> HIDE DEF b
          <6>1. k = [conn[c] EXCEPT !.buf = b, !.waited = FALSE]
                BY DEF Longer, b
          <6> QED BY <2>1, <5>2, <6>1 DEF Connection
        <5>5. conn' = [conn EXCEPT ![c] = k]
              BY <4>1
        <5> QED
              BY <2>1, <5>3, <5>4, <5>5
      <4>2. CASE ~ (Len(conn[c].buf) < Limit)
        <5>1. conn' = [conn EXCEPT ![c] = Hangup(c, "lost")]
              BY <2>1, <4>2
        <5> QED
              BY <2>1, <5>1 DEF Hangup, Connection
      <4> QED BY <4>1, <4>2
    <3>3. CASE ReadEnd(c) \/ ReadFails(c) \/ ReadTimesOut(c)
          BY <3>3, <2>1 DEF Hangup, Connection
    <3>4. CASE ReadWaits(c)
      <4> DEFINE k == [conn[c] EXCEPT !.waited = TRUE]
      <4>1. k \in Connection /\ k.buf = conn[c].buf /\ k.open = conn[c].open
            BY <2>1 DEF Connection
      <4>2. conn' = [conn EXCEPT ![c] = k]
            BY <3>4
      <4> QED
            BY <2>1, <4>1, <4>2
    <3> QED
          BY <3>1, <3>2, <3>3, <3>4
  <2> QED
        BY <1>1, <2>1, <2>2 DEF IInv, ConnInv
<1> QED
      BY <1>2, <1>3 DEF IInv

\* Every step keeps the invariant.
LEMMA NextIInv ==
  ASSUME IInv, [Next]_vars
  PROVE  IInv'
<1>1. CASE UNCHANGED vars
  <2>1. UNCHANGED <<kind, runs, phase, entry, key, sock, conn, killed>>
        BY <1>1 DEF vars, files
  <2> QED
        BY <2>1 DEF IInv, ProcessInv, ConnInv, FerryInv, EntryHasKey, LeftByKill, Running,
           IsFerry, Visible, Recycled, PeerTokenFor
<1>2. CASE \E p \in Pid : \/ \E what \in Kinds : Start(p, what)
                          \/ Kill(p) \/ SessionPublishes(p) \/ SessionEnds(p)
      BY <1>2, StartKeeps, KillKeeps, SessionKeeps
<1>3. CASE PublishKey \/ PublishEntry \/ Serve \/ Terminate \/ Unkey
      BY <1>3, FerryStepKeeps
<1>4. CASE Exit
      BY <1>4, ExitKeeps
<1>5. CASE \E c \in Client : ClientStep(c)
      BY <1>5, ClientStepKeeps
<1> QED
      BY <1>1, <1>2, <1>3, <1>4, <1>5 DEF Next, ClientStep

----------------------------------------------------------------------------
(* What is heard *)

\* What was heard of a connection is as it was said there, if the processes
\* started are those of births.
AsSaid(births, k, said) ==
  \A i \in DOMAIN said :
    /\ k.ended = "well"
    /\ k.buf[1].type = "auth"
    /\ k.buf[1].token \in 1 .. Len(births) /\ births[k.buf[1].token] = "ferry"
    /\ k.buf[i].type = "user"
    /\ \/ said[i] = k.buf[i].body
       \/ Within({EscapedOpen, EscapedClose}, k.buf[i].body)
    /\ \A j \in 1 .. i - 1 : k.buf[j].type = "user" => j \in DOMAIN said

\* Nothing is heard of a connection before it ended.
HeardInv ==
  /\ DOMAIN heard = Client
  /\ \A c \in Client : /\ conn[c].open => DOMAIN heard[c] = {}
                       /\ AsSaid(kind, conn[c], heard[c])

\* Nothing was said by a connection of which nothing is heard.
LEMMA NothingHeard ==
  ASSUME NEW births, NEW k
  PROVE  DOMAIN <<>> = {} /\ AsSaid(births, k, <<>>)
<1>1. DOMAIN <<>> = {}
  <2>1. <<>> \in Seq({}) /\ Len(<<>>) = 0
        BY EmptySeq
  <2>2. DOMAIN <<>> = 1 .. 0
        BY <2>1, LenProperties
  <2> QED
      BY <2>2
<1> QED
    BY <1>1 DEF AsSaid

\* What the lines of a connection that ended well make on_message hear.
LEMMA HandedOnAsSaid ==
  ASSUME IInv, Running, NEW k, k.buf \in Seq(Line), k.ended = "well"
  PROVE  AsSaid(kind, k, HandedOn(k.buf))
<1> DEFINE buf == k.buf
           said == HandedOn(buf)
<1>1. DOMAIN said = {i \in Handled(buf) : buf[1] = Auth(Me) /\ buf[i].type = "user"}
      BY DEF HandedOn
<1>2. \A i \in DOMAIN said : said[i] = ParseWrapper(buf[i].content)
      BY DEF HandedOn
<1>3. Me \in 1 .. Len(kind) /\ kind[Me] = "ferry"
  <2>1. MyPid \in Pid /\ IsFerry(MyPid) /\ Len(kind) \in Nat
        BY MyPidIsFerry, LenProperties DEF IInv, ProcessInv
  <2> QED
      BY <2>1 DEF IInv, ProcessInv, IsFerry, Me
<1>4. Len(buf) \in Nat /\ DOMAIN buf = 1 .. Len(buf) /\ \A i \in 1 .. Len(buf) : buf[i] \in Line
      BY LenProperties, ElementOfSeq
<1> HIDE DEF said
<1> SUFFICES ASSUME NEW i \in DOMAIN said
             PROVE  /\ buf[1].type = "auth"
                    /\ buf[1].token \in 1 .. Len(kind) /\ kind[buf[1].token] = "ferry"
                    /\ buf[i].type = "user"
                    /\ \/ said[i] = buf[i].body
                       \/ Within({EscapedOpen, EscapedClose}, buf[i].body)
                    /\ \A j \in 1 .. i - 1 : buf[j].type = "user" => j \in DOMAIN said
    BY DEF AsSaid, said
<1>5. /\ i \in Handled(buf) /\ buf[1] = Auth(Me) /\ buf[i].type = "user"
      BY <1>1
<1>6. /\ i \in 1 .. Len(buf) /\ i > 1
      /\ \A b \in 1 .. Len(buf) : b > 1 /\ buf[b] = Odd => i < b
      BY <1>4, <1>5 DEF Handled
<1>7. buf[1].type = "auth" /\ buf[1].token = Me
      BY <1>5 DEF Auth
<1>8. said[i] = buf[i].body \/ Within({EscapedOpen, EscapedClose}, buf[i].body)
  <2>1. PICK b \in Bodies : buf[i] = User(b)
        BY <1>4, <1>5, <1>6 DEF Line, Auth, Junk, Odd
  <2>2. buf[i].body = b /\ said[i] = ParseWrapper(BuildWrapper(b))
        BY <1>2, <2>1 DEF User
  <2>3. EscapeIsSafe(b)
        BY LocalPeerAssumption, EscapesAlwaysSafe
  <2> QED
      BY <2>2, <2>3 DEF EscapeIsSafe
<1>9. ASSUME NEW j \in 1 .. i - 1, buf[j].type = "user"
      PROVE  j \in DOMAIN said
  <2>1. j # 1
        BY <1>7, <1>9
  <2>2. j \in 1 .. Len(buf) /\ j > 1 /\ j < i
        BY <1>4, <1>6, <2>1
  <2>3. \A b \in 1 .. Len(buf) : b > 1 /\ buf[b] = Odd => j < b
        BY <1>6, <2>2
  <2>4. j \in Handled(buf)
        BY <1>4, <2>2, <2>3 DEF Handled
  <2> QED
      BY <1>1, <1>5, <1>9, <2>4
<1> QED
    BY <1>3, <1>5, <1>7, <1>8, <1>9

\* A process that starts does not change what was heard, or of whom.
LEMMA StartKeepsHeard ==
  ASSUME IInv, HeardInv, NEW p \in Pid, NEW what \in Kinds, Start(p, what)
  PROVE  HeardInv'
<1>1. conn' = conn /\ heard' = heard /\ kind' = Append(kind, what)
      BY DEF Start
<1>2. /\ Len(kind) \in Nat /\ Len(kind') = Len(kind) + 1
      /\ \A i \in 1 .. Len(kind) : kind'[i] = kind[i]
      BY <1>1, KindAppend, LenProperties DEF IInv, ProcessInv
<1>3. ASSUME NEW k, NEW said, AsSaid(kind, k, said)
      PROVE  AsSaid(kind', k, said)
  <2> SUFFICES ASSUME NEW i \in DOMAIN said
               PROVE  /\ k.buf[1].token \in 1 .. Len(kind')
                      /\ kind'[k.buf[1].token] = "ferry"
      BY <1>3 DEF AsSaid
  <2>1. k.buf[1].token \in 1 .. Len(kind) /\ kind[k.buf[1].token] = "ferry"
        BY <1>3 DEF AsSaid
  <2> QED
      BY <1>2, <2>1
<1> QED
    BY <1>1, <1>3 DEF HeardInv

\* Nor does the end of a connection of which nothing was heard.
LEMMA HangupKeepsHeard ==
  ASSUME IInv, HeardInv, UNCHANGED <<kind, heard>>, conn' = conn \/ conn' = AllHungUp
  PROVE  HeardInv'
<1> SUFFICES ASSUME NEW c \in Client
             PROVE  /\ conn'[c].open => DOMAIN heard[c] = {}
                    /\ AsSaid(kind, conn'[c], heard[c])
    BY DEF HeardInv
<1>1. (conn[c].open => DOMAIN heard[c] = {}) /\ AsSaid(kind, conn[c], heard[c])
      BY DEF HeardInv
<1>2. CASE conn' = conn
      BY <1>1, <1>2
<1>3. CASE conn' = AllHungUp
  <2>1. CASE conn[c].open
    <3>1. DOMAIN heard[c] = {}
          BY <1>1, <2>1
    <3> QED
        BY <3>1 DEF AsSaid
  <2>2. CASE ~ conn[c].open
    <3>1. conn'[c] = conn[c]
          BY <1>3, <2>2 DEF AllHungUp
    <3> QED
        BY <1>1, <3>1
  <2> QED BY <2>1, <2>2
<1> QED
    BY <1>2, <1>3

\* A step of one connection: only the end of its lines makes anything heard.
LEMMA ClientStepKeepsHeard ==
  ASSUME IInv, HeardInv, NEW c \in Client, ClientStep(c)
  PROVE  HeardInv'
<1> USE DEF ClientStep, Dial, ReadLine, ReadEnd, ReadFails, Timer, ReadWaits, ReadTimesOut
<1>1. conn \in [Client -> Connection] /\ conn[c] \in Connection /\ DOMAIN heard = Client
      BY DEF IInv, ConnInv, HeardInv
<1>2. kind' = kind
      OBVIOUS
<1>3. \A d \in Client : d # c => conn'[d] = conn[d] /\ heard'[d] = heard[d]
      BY <1>1
<1>4. DOMAIN heard' = Client
      BY <1>1
<1>5. (conn'[c].open => DOMAIN heard'[c] = {}) /\ AsSaid(kind, conn'[c], heard'[c])
  <2>1. CASE Dial(c)
    <3>1. heard'[c] = <<>>
          BY <1>1, <2>1
    <3> QED
        BY <3>1, NothingHeard
  <2>2. CASE ReadEnd(c)
    <3>1. conn'[c] = Hangup(c, "well") /\ heard'[c] = HandedOn(conn[c].buf) /\ conn[c].open
          BY <1>1, <2>2
    <3>2. ~ conn'[c].open /\ conn'[c].buf = conn[c].buf /\ conn'[c].ended = "well"
          BY <3>1 DEF Hangup
    <3>3. Running
          BY <3>1 DEF IInv, ConnInv, ProcessInv
    <3>4. conn[c].buf \in Seq(Line)
          BY <1>1 DEF Connection
    <3>5. AsSaid(kind, conn'[c], HandedOn(conn'[c].buf))
          BY <3>2, <3>3, <3>4, HandedOnAsSaid
    <3> QED
        BY <3>1, <3>2, <3>5
  <2>3. CASE ~ Dial(c) /\ ~ ReadEnd(c)
    <3>1. conn[c].open /\ heard' = heard
          BY <2>3
    <3>2. DOMAIN heard'[c] = {}
          BY <3>1 DEF HeardInv
    <3> QED
        BY <3>2 DEF AsSaid
  <2> QED BY <2>1, <2>2, <2>3
<1>6. ASSUME NEW d \in Client
      PROVE  (conn'[d].open => DOMAIN heard'[d] = {}) /\ AsSaid(kind', conn'[d], heard'[d])
  <2>1. CASE d = c
        BY <1>2, <1>5, <2>1
  <2>2. CASE d # c
        BY <1>2, <1>3, <2>2 DEF HeardInv
  <2> QED BY <2>1, <2>2
<1> QED
    BY <1>4, <1>6 DEF HeardInv

\* Every step keeps what is heard as it was said.
LEMMA NextHeardInv ==
  ASSUME IInv, HeardInv, [Next]_vars
  PROVE  HeardInv'
<1>1. CASE UNCHANGED vars
      BY <1>1, HangupKeepsHeard DEF vars
<1>2. CASE \E p \in Pid : \E what \in Kinds : Start(p, what)
      BY <1>2, StartKeepsHeard
<1>3. CASE \E p \in Pid : Kill(p) \/ SessionPublishes(p) \/ SessionEnds(p)
      BY <1>3, HangupKeepsHeard DEF Kill, SessionPublishes, SessionEnds
<1>4. CASE PublishKey \/ PublishEntry \/ Serve \/ Terminate \/ Unkey \/ Exit
      BY <1>4, HangupKeepsHeard
      DEF PublishKey, PublishEntry, Serve, Terminate, Unkey, Exit, Advance
<1>5. CASE \E c \in Client : ClientStep(c)
      BY <1>5, ClientStepKeepsHeard
<1> QED
    BY <1>1, <1>2, <1>3, <1>4, <1>5 DEF Next, ClientStep

----------------------------------------------------------------------------

(***************************************************************************)
(* The state keeps its types, at most one ferry runs, it is in a phase just *)
(* while it runs, and connections are open only while it serves, each       *)
(* within the limit of a line (localpeer.py: publish, serve, cleanup,       *)
(* _handle).                                                                *)
(***************************************************************************)
THEOREM TypeCorrect == Spec => []TypeOK
<1>1. IInv => TypeOK
  <2> SUFFICES ASSUME IInv PROVE TypeOK
      OBVIOUS
  <2>1. \A c \in Client : conn[c].buf \in Seq(Line)
        BY DEF IInv, ConnInv, Connection
  <2>2. {runs, entry, key, sock} \subseteq [Pid -> 0 .. Len(kind)]
        BY DEF IInv, ProcessInv
  <2> QED
        BY <2>1, <2>2 DEF IInv, ProcessInv, ConnInv, TypeOK
<1> QED
      BY InitIInv, NextIInv, <1>1, PTL DEF Spec

(***************************************************************************)
(* Whoever sees the entry of a running process finds that process' own      *)
(* token beside it, also under a pid whose files a dead process had left,   *)
(* until the ferry has removed its key: publish writes the key first and    *)
(* cleanup removes the entry last.                                          *)
(***************************************************************************)
THEOREM EntriesHaveKeys == Spec => []EntryHasKey
<1>1. IInv => EntryHasKey
      BY DEF IInv
<1> QED
      BY InitIInv, NextIInv, <1>1, PTL DEF Spec

(***************************************************************************)
(* An orderly end leaves nothing behind: a file belongs to the process that *)
(* runs under its pid or to one that was killed, also when the kill came in *)
(* the middle of a start or of an end (localpeer.py: cleanup).              *)
(***************************************************************************)
THEOREM OnlyKillsLeave == Spec => []LeftByKill
<1>1. IInv => LeftByKill
      BY DEF IInv
<1> QED
      BY InitIInv, NextIInv, <1>1, PTL DEF Spec
(***************************************************************************)
(* What on_message is given of a connection, whatever was sent over it and  *)
(* however long it was, came over a connection that was read to its end and *)
(* opened with the token of a ferry; no line said before the last one heard *)
(* is left out, and each body is the one the session meant, unless that     *)
(* held an escaped tag itself (localpeer.py: _handle; wire.py:              *)
(* build_wrapper, parse_wrapper).                                           *)
(***************************************************************************)
THEOREM HeardIsSaid == Spec => []HeardAsSaid
<1>1. Init => HeardInv
      BY NothingHeard DEF Init, HeardInv, Fresh
<1>2. HeardInv => HeardAsSaid
      BY DEF HeardInv, AsSaid, HeardAsSaid
<1>3. IInv /\ HeardInv /\ [Next]_vars => (IInv /\ HeardInv)'
      BY NextIInv, NextHeardInv
<1> QED
      BY InitIInv, <1>1, <1>2, <1>3, PTL DEF Spec

(***************************************************************************)
(* No text that may be said is mistaken for the end of its wrapper or comes *)
(* out changed, but for one that held an escaped tag (EscapesAlwaysSafe).   *)
(***************************************************************************)
THEOREM WhateverIsSaidIsSafe == Spec => []EscapesAreSafe
<1>1. EscapesAreSafe
  BY EscapesAlwaysSafe, LocalPeerAssumption DEF EscapesAreSafe, Unsafe
<1> QED
  BY <1>1, PTL
=============================================================================
