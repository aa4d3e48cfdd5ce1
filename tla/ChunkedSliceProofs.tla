------------------------- MODULE ChunkedSliceProofs -------------------------
(***************************************************************************)
(* However a body is cut into slices, the decoder returns what decoding it *)
(* in one piece by the grammar of ChunkedReference gives.                  *)
(*                                                                         *)
(* The argument: in every phase of the stream, what decoding in one piece  *)
(* makes of the bytes read and of any bytes z to come is the payload so    *)
(* far followed by what the phase makes of z (Reads).  Each byte of        *)
(* framing and each run of data keeps that (the lemmas named ...Step and   *)
(* ...Reads), so every step of the stream does, so every step of the       *)
(* decoder does (StepRefines); and with no bytes to come it says that the  *)
(* calls have reported what decoding in one piece gives.                   *)
(*                                                                         *)
(* The reference is a recursive function of the bytes; that it has the     *)
(* value its equation gives is shown here by induction over sets of        *)
(* numbers (Induction, Iteration, Recursion).                              *)
(***************************************************************************)
EXTENDS ChunkedReference, ChunkedDecoderProofs, WellFoundedInduction

-----------------------------------------------------------------------------
(* Induction over the natural numbers, for a set of them.                  *)
LEMMA LessThanWellFounded == IsWellFoundedOn({ss \in Nat \X Nat : ss[1] < ss[2]}, Nat)
  BY NatLessThanWellFounded DEF OpToRel

LEMMA Least ==
  ASSUME NEW S \in SUBSET Nat, S # {}
  PROVE  \E x \in S : \A y \in S : x <= y
<1> DEFINE R == {ss \in Nat \X Nat : ss[1] < ss[2]}
<1> HIDE DEF R
<1>1. IsWellFoundedOn(R, Nat)
  BY LessThanWellFounded DEF R
<1>2. PICK x \in S : \A y \in S : ~(<<y, x>> \in R)
  BY <1>1, WFMin
<1>3. \A y \in S : ~(y < x)
  BY <1>2 DEF R
<1> QED BY <1>2, <1>3

LEMMA Induction ==
  ASSUME NEW S, 0 \in S, \A n \in Nat : n \in S => n + 1 \in S
  PROVE  \A n \in Nat : n \in S
<1> SUFFICES ASSUME Nat \ S # {} PROVE FALSE
  OBVIOUS
<1>1. PICK x \in Nat \ S : \A y \in Nat \ S : x <= y
  BY Least
<1>2. x - 1 \in Nat /\ ~(x <= x - 1) /\ (x - 1) + 1 = x
  BY <1>1
<1>3. x - 1 \in S
  BY <1>1, <1>2
<1> QED BY <1>1, <1>2, <1>3

LEMMA MinIs ==
  ASSUME NEW S \in SUBSET Nat, NEW x \in S, \A y \in S : x <= y
  PROVE  Min(S) = x
<1>1. \E z : z \in S /\ \A y \in S : z =< y
  OBVIOUS
<1>2. Min(S) \in S /\ \A y \in S : Min(S) =< y
  BY <1>1 DEF Min
<1>3. Min(S) \in Nat /\ x \in Nat /\ Min(S) <= x /\ x <= Min(S)
  BY <1>2
<1> QED BY <1>3

(* A function may be iterated.                                             *)
LEMMA Iteration ==
  ASSUME NEW A, NEW a \in A, NEW step \in [A -> A]
  PROVE  \E f : /\ f \in [Nat -> A]
                /\ f[0] = a
                /\ \A n \in Nat : f[n + 1] = step[f[n]]
<1> DEFINE G(n) == {g \in [0..n -> A] : g[0] = a /\ \A i \in 0..n - 1 : g[i + 1] = step[g[i]]}
           S    == {n \in Nat : \E g : g \in G(n)}
           T    == {m \in Nat : \A n, o \in Nat : \A g \in G(n), h \in G(o) :
                                   m <= n /\ m <= o => g[m] = h[m]}
<1>1. ASSUME NEW n \in Nat, NEW g \in G(n)
      PROVE  g \in [0..n -> A] /\ g[0] = a /\ \A i \in 0..n - 1 : g[i + 1] = step[g[i]]
  OBVIOUS
<1>2. ASSUME NEW n \in Nat, NEW g \in [0..n -> A], g[0] = a, \A i \in 0..n - 1 : g[i + 1] = step[g[i]]
      PROVE  g \in G(n)
  BY <1>2
<1> HIDE DEF G
<1>3. \A n \in Nat : n \in S
  <2>1. 0 \in S
    <3>1. [i \in 0..0 |-> a] \in [0..0 -> A] /\ [i \in 0..0 |-> a][0] = a
      OBVIOUS
    <3>2. 0 \in Nat /\ 0..0 - 1 = {}
      OBVIOUS
    <3> QED BY <1>2, <3>1, <3>2
  <2>2. ASSUME NEW n \in Nat, n \in S PROVE n + 1 \in S
    <3>1. PICK g : g \in G(n)
      BY <2>2
    <3> DEFINE h == [i \in 0..n + 1 |-> IF i = n + 1 THEN step[g[n]] ELSE g[i]]
    <3>2. g \in [0..n -> A] /\ g[0] = a /\ \A i \in 0..n - 1 : g[i + 1] = step[g[i]]
      BY <1>1, <3>1
    <3>3. step[g[n]] \in A
      BY <3>2
    <3>4. h \in [0..n + 1 -> A] /\ h[0] = a /\ h[n + 1] = step[g[n]] /\ h[n] = g[n]
      BY <3>2, <3>3
    <3>5. \A i \in 0..n : h[i + 1] = step[h[i]]
      <4> SUFFICES ASSUME NEW i \in 0..n PROVE h[i + 1] = step[h[i]]
        OBVIOUS
      <4>1. CASE i = n
        BY <3>4, <4>1
      <4>2. CASE i # n
        <5>1. i \in 0..n - 1 /\ i + 1 \in 0..n /\ i + 1 # n + 1
          BY <4>2
        <5>2. h[i + 1] = g[i + 1] /\ h[i] = g[i]
          BY <4>2, <5>1
        <5> QED BY <3>2, <5>1, <5>2
      <4> QED BY <4>1, <4>2
    <3> HIDE DEF h
    <3>6. n + 1 \in Nat /\ (n + 1) - 1 = n
      OBVIOUS
    <3>7. h \in G(n + 1)
      BY <1>2, <3>4, <3>5, <3>6
    <3> QED BY <3>6, <3>7
  <2> HIDE DEF S
  <2> QED BY <2>1, <2>2, Induction
<1>4. \A m \in Nat : m \in T
  <2>1. 0 \in T
    BY <1>1
  <2>2. ASSUME NEW m \in Nat, m \in T PROVE m + 1 \in T
    <3>1. ASSUME NEW n \in Nat, NEW o \in Nat, NEW g \in G(n), NEW h \in G(o),
                 m + 1 <= n, m + 1 <= o
          PROVE  g[m + 1] = h[m + 1]
      <4>1. m <= n /\ m <= o /\ m \in 0..n - 1 /\ m \in 0..o - 1
        BY <3>1
      <4>2. g[m] = h[m]
        BY <2>2, <4>1
      <4>3. g[m + 1] = step[g[m]] /\ h[m + 1] = step[h[m]]
        BY <1>1, <4>1
      <4> QED BY <4>2, <4>3
    <3> QED BY <3>1
  <2> HIDE DEF T
  <2> QED BY <2>1, <2>2, Induction
<1> DEFINE c(n) == CHOOSE g : g \in G(n)
           f    == [n \in Nat |-> c(n)[n]]
<1>5. \A n \in Nat : c(n) \in G(n)
  BY <1>3
<1> HIDE DEF c
<1>6. \A n \in Nat : c(n)[0] = a /\ c(n)[n] \in A
  <2> SUFFICES ASSUME NEW n \in Nat PROVE c(n)[0] = a /\ c(n)[n] \in A
    OBVIOUS
  <2>1. c(n) \in [0..n -> A] /\ c(n)[0] = a
    BY <1>1, <1>5
  <2> QED BY <2>1
<1>7. ASSUME NEW n \in Nat PROVE c(n + 1)[n + 1] = step[c(n)[n]]
  <2>1. n + 1 \in Nat /\ n <= n /\ n <= n + 1 /\ n \in 0..(n + 1) - 1
    OBVIOUS
  <2>2. c(n) \in G(n) /\ c(n + 1) \in G(n + 1)
    BY <1>5, <2>1
  <2>3. c(n + 1)[n] = c(n)[n]
    BY <1>4, <2>1, <2>2
  <2>4. c(n + 1)[n + 1] = step[c(n + 1)[n]]
    BY <1>1, <2>1, <2>2
  <2> QED BY <2>3, <2>4
<1>8. f \in [Nat -> A] /\ f[0] = a /\ \A n \in Nat : f[n + 1] = step[f[n]]
  BY <1>6, <1>7
<1> HIDE DEF f
<1> QED BY <1>8

(* A definition by recursion over sequences, where the value for one uses  *)
(* only the values for shorter ones, has a solution.                       *)
Recursive(B, V, v, step) ==
  /\ v \in V
  /\ step \in [Seq(B) -> [[Seq(B) -> V] -> V]]
  /\ \A w \in Seq(B) : \A f, g \in [Seq(B) -> V] :
       (\A u \in Seq(B) : Len(u) < Len(w) => f[u] = g[u]) => step[w][f] = step[w][g]

LEMMA Recursion ==
  ASSUME NEW B, NEW V, NEW v, NEW step, Recursive(B, V, v, step)
  PROVE  \E f : f \in [Seq(B) -> V] /\ \A w \in Seq(B) : f[w] = step[w][f]
<1> DEFINE Funs    == [Seq(B) -> V]
           base    == [w \in Seq(B) |-> v]
           next == [f \in Funs |-> [w \in Seq(B) |-> step[w][f]]]
<1>0. \A f \in Funs : \A w \in Seq(B) : step[w][f] \in V
  BY DEF Recursive
<1>1. base \in Funs /\ next \in [Funs -> Funs] /\ \A f \in Funs : \A w \in Seq(B) : next[f][w] = step[w][f]
  <2>1. base \in Funs
    BY DEF Recursive
  <2>2. ASSUME NEW f \in Funs PROVE [w \in Seq(B) |-> step[w][f]] \in Funs
    BY <1>0
  <2>3. ASSUME NEW f \in Funs PROVE \A w \in Seq(B) : [u \in Seq(B) |-> step[u][f]][w] = step[w][f]
    OBVIOUS
  <2> HIDE DEF Funs
  <2> QED BY <2>1, <2>2, <2>3
<1>2. ASSUME NEW w \in Seq(B), NEW f \in Funs, NEW g \in Funs,
             \A u \in Seq(B) : Len(u) < Len(w) => f[u] = g[u]
      PROVE  step[w][f] = step[w][g]
  BY <1>2 DEF Recursive
<1> HIDE DEF base, next
<1>3. PICK F : F \in [Nat -> Funs] /\ F[0] = base /\ \A n \in Nat : F[n + 1] = next[F[n]]
  <2>1. ASSUME NEW A, NEW a \in A, NEW nx \in [A -> A]
        PROVE  \E F : F \in [Nat -> A] /\ F[0] = a /\ \A n \in Nat : F[n + 1] = nx[F[n]]
    BY Iteration
  <2> HIDE DEF Funs
  <2>2. base \in Funs /\ next \in [Funs -> Funs]
    BY <1>1
  <2> QED BY <2>1, <2>2
<1>4. \A n \in Nat : F[n] \in Funs /\ F[n + 1] \in Funs /\ \A w \in Seq(B) : F[n + 1][w] = step[w][F[n]]
  <2> SUFFICES ASSUME NEW n \in Nat
               PROVE  F[n] \in Funs /\ F[n + 1] \in Funs /\ \A w \in Seq(B) : F[n + 1][w] = step[w][F[n]]
    OBVIOUS
  <2>1. n + 1 \in Nat
    OBVIOUS
  <2> HIDE DEF Funs
  <2>2. F[n] \in Funs /\ F[n + 1] \in Funs /\ F[n + 1] = next[F[n]]
    BY <1>3, <2>1
  <2> QED BY <1>1, <2>2
<1> DEFINE S == {n \in Nat : \A w \in Seq(B) : Len(w) < n => F[n + 1][w] = F[n][w]}
<1>5. \A n \in Nat : n \in S
  <2>1. 0 \in S
    OBVIOUS
  <2>2. ASSUME NEW n \in Nat, n \in S PROVE n + 1 \in S
    <3> SUFFICES ASSUME NEW w \in Seq(B), Len(w) < n + 1 PROVE F[(n + 1) + 1][w] = F[n + 1][w]
      OBVIOUS
    <3>1. n + 1 \in Nat
      OBVIOUS
    <3>2. F[(n + 1) + 1][w] = step[w][F[n + 1]] /\ F[n + 1][w] = step[w][F[n]]
      BY <1>4, <3>1
    <3>3. \A u \in Seq(B) : Len(u) < Len(w) => F[n + 1][u] = F[n][u]
      BY <2>2
    <3>4. F[n] \in Funs /\ F[n + 1] \in Funs
      BY <1>4
    <3> HIDE DEF Funs
    <3>5. step[w][F[n + 1]] = step[w][F[n]]
      BY <1>2, <3>3, <3>4
    <3> QED BY <3>2, <3>5
  <2> HIDE DEF S
  <2> QED BY <2>1, <2>2, Induction
<1> DEFINE T(u) == {k \in Nat : F[Len(u) + 1 + k][u] = F[Len(u) + 1][u]}
<1>6. ASSUME NEW u \in Seq(B) PROVE \A k \in Nat : k \in T(u)
  <2>1. 0 \in T(u)
    OBVIOUS
  <2>2. ASSUME NEW k \in Nat, k \in T(u) PROVE k + 1 \in T(u)
    <3>1. Len(u) + 1 + k \in Nat /\ Len(u) < Len(u) + 1 + k /\ Len(u) + 1 + (k + 1) = (Len(u) + 1 + k) + 1
      OBVIOUS
    <3>2. F[(Len(u) + 1 + k) + 1][u] = F[Len(u) + 1 + k][u]
      BY <1>5, <3>1
    <3> QED BY <2>2, <3>1, <3>2
  <2> HIDE DEF T
  <2> QED BY <2>1, <2>2, Induction
<1> DEFINE f == [w \in Seq(B) |-> F[Len(w) + 1][w]]
<1>7. f \in Funs
  <2> SUFFICES ASSUME NEW w \in Seq(B) PROVE F[Len(w) + 1][w] \in V
    OBVIOUS
  <2>1. Len(w) \in Nat /\ Len(w) + 1 \in Nat
    OBVIOUS
  <2>2. F[Len(w) + 1] \in Funs
    BY <1>3, <2>1
  <2> QED BY <2>2
<1>8. ASSUME NEW w \in Seq(B) PROVE f[w] = step[w][f]
  <2>1. Len(w) \in Nat
    OBVIOUS
  <2>2. f[w] = step[w][F[Len(w)]] /\ F[Len(w)] \in Funs
    BY <1>4, <2>1
  <2>3. \A u \in Seq(B) : Len(u) < Len(w) => F[Len(w)][u] = f[u]
    <3> SUFFICES ASSUME NEW u \in Seq(B), Len(u) < Len(w) PROVE F[Len(w)][u] = F[Len(u) + 1][u]
      OBVIOUS
    <3>1. Len(w) - (Len(u) + 1) \in Nat /\ Len(u) + 1 + (Len(w) - (Len(u) + 1)) = Len(w)
      OBVIOUS
    <3>2. Len(w) - (Len(u) + 1) \in T(u)
      BY <1>6, <3>1
    <3> QED BY <3>1, <3>2
  <2> HIDE DEF f, Funs
  <2> QED BY <1>2, <1>7, <2>2, <2>3
<1> HIDE DEF f
<1> QED BY <1>7, <1>8

-----------------------------------------------------------------------------
(* Sequences of bytes and their ends.                                      *)
LEMMA DropIs ==
  ASSUME NEW B, NEW w \in Seq(B), NEW n \in 0..Len(w)
  PROVE  /\ Drop(w, n) \in Seq(B)
         /\ Len(Drop(w, n)) = Len(w) - n
         /\ \A i \in 1..Len(w) - n : Drop(w, n)[i] = w[n + i]
<1>1. n \in Nat /\ Len(w) \in Nat /\ n + 1 \in 1..Len(w) + 1
  OBVIOUS
<1> QED BY <1>1 DEF Drop

LEMMA JoinIs ==
  ASSUME NEW B, NEW x \in Seq(B), NEW y \in Seq(B)
  PROVE  /\ x \o y \in Seq(B)
         /\ Len(x \o y) = Len(x) + Len(y)
         /\ \A i \in 1..Len(x) : (x \o y)[i] = x[i]
         /\ \A i \in 1..Len(y) : (x \o y)[Len(x) + i] = y[i]
  OBVIOUS

LEMMA SameSeq ==
  ASSUME NEW B, NEW x \in Seq(B), NEW y \in Seq(B), Len(x) = Len(y), \A i \in 1..Len(x) : x[i] = y[i]
  PROVE  x = y
  BY SeqEqual

LEMMA DropJoin ==
  ASSUME NEW B, NEW x \in Seq(B), NEW y \in Seq(B), NEW k \in 0..Len(y)
  PROVE  Drop(x \o y, Len(x) + k) = Drop(y, k)
<1>1. Len(x) \in Nat /\ Len(y) \in Nat /\ k \in Nat /\ Len(x) + k \in 0..Len(x \o y) /\ x \o y \in Seq(B)
      /\ Len(x \o y) = Len(x) + Len(y)
  BY JoinIs
<1>2. Drop(y, k) \in Seq(B) /\ Len(Drop(y, k)) = Len(y) - k
      /\ \A i \in 1..Len(y) - k : Drop(y, k)[i] = y[k + i]
  BY DropIs
<1>3. Drop(x \o y, Len(x) + k) \in Seq(B) /\ Len(Drop(x \o y, Len(x) + k)) = Len(x \o y) - (Len(x) + k)
      /\ \A i \in 1..Len(x \o y) - (Len(x) + k) : Drop(x \o y, Len(x) + k)[i] = (x \o y)[Len(x) + k + i]
  BY <1>1, DropIs
<1>4. ASSUME NEW i \in 1..Len(y) - k
      PROVE  Drop(x \o y, Len(x) + k)[i] = Drop(y, k)[i]
  <2>1. i \in 1..Len(x \o y) - (Len(x) + k) /\ k + i \in 1..Len(y) /\ Len(x) + k + i = Len(x) + (k + i)
    BY <1>1
  <2>2. (x \o y)[Len(x) + (k + i)] = y[k + i]
    BY <2>1, JoinIs
  <2> QED BY <1>2, <1>3, <2>1, <2>2
<1>5. Len(Drop(x \o y, Len(x) + k)) = Len(Drop(y, k)) /\ Len(Drop(y, k)) = Len(y) - k
  BY <1>1, <1>2, <1>3
<1> HIDE DEF Drop
<1> QED BY <1>2, <1>3, <1>4, <1>5, SameSeq

LEMMA JoinAssoc ==
  ASSUME NEW B, NEW x \in Seq(B), NEW y \in Seq(B), NEW z \in Seq(B)
  PROVE  (x \o y) \o z = x \o (y \o z)
  BY ConcatAssociative

LEMMA JoinEmpty ==
  ASSUME NEW B, NEW x \in Seq(B)
  PROVE  <<>> \in Seq(B) /\ Len(<<>>) = 0 /\ x \o <<>> = x /\ <<>> \o x = x
  BY ConcatEmptySeq

LEMMA OneIs ==
  ASSUME NEW B, NEW b \in B
  PROVE  <<b>> \in Seq(B) /\ Len(<<b>>) = 1 /\ <<b>>[1] = b
  OBVIOUS

(* A byte in front of others.                                              *)
LEMMA FrontIs ==
  ASSUME NEW B, NEW b \in B, NEW z \in Seq(B)
  PROVE  /\ <<b>> \o z \in Seq(B) /\ <<b>> \o z # <<>>
         /\ Len(<<b>> \o z) = 1 + Len(z)
         /\ (<<b>> \o z)[1] = b
         /\ \A i \in 1..Len(z) : (<<b>> \o z)[1 + i] = z[i]
         /\ \A k \in 0..Len(z) : Drop(<<b>> \o z, 1 + k) = Drop(z, k)
<1>1. <<b>> \in Seq(B) /\ Len(<<b>>) = 1 /\ <<b>>[1] = b
  OBVIOUS
<1>2. \A k \in 0..Len(z) : Drop(<<b>> \o z, 1 + k) = Drop(z, k)
  BY <1>1, DropJoin
<1>3. <<b>> \o z \in Seq(B) /\ Len(<<b>> \o z) = 1 + Len(z) /\ (<<b>> \o z)[1] = b
      /\ \A i \in 1..Len(z) : (<<b>> \o z)[1 + i] = z[i]
  BY <1>1, JoinIs
<1> QED BY <1>2, <1>3

LEMMA DropNone ==
  ASSUME NEW B, NEW w \in Seq(B)
  PROVE  Drop(w, 0) = w /\ Drop(w, Len(w)) = <<>> /\ Len(w) \in Nat
<1>1. 0 \in 0..Len(w) /\ Len(w) \in 0..Len(w)
  OBVIOUS
<1>2. Drop(w, 0) \in Seq(B) /\ Len(Drop(w, 0)) = Len(w) /\ \A i \in 1..Len(w) : Drop(w, 0)[i] = w[i]
  BY <1>1, DropIs
<1>3. Drop(w, Len(w)) \in Seq(B) /\ Len(Drop(w, Len(w))) = 0
  BY <1>1, DropIs
<1> HIDE DEF Drop
<1>4. Drop(w, 0) = w
  BY <1>2, SameSeq
<1> QED BY <1>3, <1>4, EmptySeq

-----------------------------------------------------------------------------
(* The pieces of framing.                                                  *)
PieceOf(p, w) ==
  /\ p = Piece(p.kind, p.used)
  /\ p.kind \in {"ok", "more", "bad"} /\ p.used \in 0..Len(w)
  /\ p.kind = "ok" => p.used > 0
  /\ p.kind = "more" => p.used = Len(w)

LEMMA LineFeedEmpty == LineFeed(<<>>) = Piece("more", 0)
  BY DEF LineFeed

LEMMA LineFeedFront ==
  ASSUME NEW b \in Bytes, NEW z \in Seq(Bytes)
  PROVE  LineFeed(<<b>> \o z) = Piece(IF b = LF THEN "ok" ELSE "bad", 1)
  BY FrontIs DEF LineFeed

LEMMA LineFeedTyped ==
  ASSUME NEW w \in Seq(Bytes)
  PROVE  PieceOf(LineFeed(w), w)
<1>1. CASE w = <<>>
  BY <1>1 DEF PieceOf, LineFeed, Piece
<1>2. CASE w # <<>>
  <2>1. Len(w) \in Nat /\ Len(w) > 0
    BY <1>2, EmptySeq
  <2> QED BY <1>2, <2>1 DEF PieceOf, LineFeed, Piece
<1> QED BY <1>1, <1>2

PlainText(w) == \A k \in 1..Len(w) : w[k] \notin {CR, LF}

EndsAt(w, k) ==
  /\ k \in 1..Len(w) /\ w[k] \in {CR, LF}
  /\ \A j \in 1..k - 1 : w[j] \notin {CR, LF}

LEMMA LineMore ==
  ASSUME NEW w \in Seq(Bytes), PlainText(w)
  PROVE  Line(w) = Piece("more", Len(w))
<1>1. {k \in 1..Len(w) : w[k] \in {CR, LF}} = {}
  BY DEF PlainText
<1> QED BY <1>1 DEF Line

LEMMA LineEnds ==
  ASSUME NEW w \in Seq(Bytes), NEW k, EndsAt(w, k)
  PROVE  Line(w) = IF w[k] = LF THEN Piece("bad", k)
                   ELSE Piece(LineFeed(Drop(w, k)).kind, k + LineFeed(Drop(w, k)).used)
<1> DEFINE S == {e \in 1..Len(w) : w[e] \in {CR, LF}}
<1>1. S \in SUBSET Nat /\ k \in S /\ S # {}
  BY DEF EndsAt
<1>2. \A j \in S : k <= j
  <2> SUFFICES ASSUME NEW j \in S, j < k PROVE FALSE
    BY <1>1
  <2>1. j \in 1..k - 1
    BY DEF EndsAt
  <2> QED BY <2>1 DEF EndsAt
<1> HIDE DEF S
<1>3. Min(S) = k
  BY <1>1, <1>2, MinIs
<1> QED BY <1>1, <1>3 DEF Line, S

LEMMA LineCases ==
  ASSUME NEW w \in Seq(Bytes)
  PROVE  PlainText(w) \/ \E k : EndsAt(w, k)
<1> DEFINE S == {e \in 1..Len(w) : w[e] \in {CR, LF}}
<1>1. CASE S = {}
  BY <1>1 DEF PlainText
<1>2. CASE S # {}
  <2>1. S \in SUBSET Nat
    OBVIOUS
  <2>2. PICK k \in S : \A j \in S : k <= j
    <3> HIDE DEF S
    <3> QED BY <1>2, <2>1, Least
  <2>3. k \in 1..Len(w) /\ w[k] \in {CR, LF} /\ \A j \in 1..Len(w) : w[j] \in {CR, LF} => k <= j
    BY <2>2
  <2>4. \A j \in 1..k - 1 : j \in 1..Len(w) /\ ~(k <= j)
    BY <2>3
  <2>5. EndsAt(w, k)
    BY <2>3, <2>4 DEF EndsAt
  <2> QED BY <2>5
<1> QED BY <1>1, <1>2

LEMMA LineTyped ==
  ASSUME NEW w \in Seq(Bytes)
  PROVE  PieceOf(Line(w), w)
<1>1. CASE PlainText(w)
  BY <1>1, LineMore DEF PieceOf, Piece
<1>2. CASE \E k : EndsAt(w, k)
  <2>1. PICK k : EndsAt(w, k)
    BY <1>2
  <2>2. k \in 0..Len(w) /\ k \in Nat /\ k > 0 /\ Len(w) \in Nat
    BY <2>1 DEF EndsAt
  <2>3. Drop(w, k) \in Seq(Bytes) /\ Len(Drop(w, k)) = Len(w) - k
    BY <2>2, DropIs
  <2> DEFINE lf == LineFeed(Drop(w, k))
  <2> HIDE DEF lf
  <2>4. lf.kind \in {"ok", "more", "bad"} /\ lf.used \in 0..Len(w) - k
        /\ (lf.kind = "more" => lf.used = Len(w) - k)
    BY <2>3, LineFeedTyped DEF PieceOf, lf
  <2>5. Line(w) = IF w[k] = LF THEN Piece("bad", k) ELSE Piece(lf.kind, k + lf.used)
    BY <2>1, LineEnds DEF lf
  <2>6. CASE w[k] = LF
    BY <2>2, <2>5, <2>6 DEF PieceOf, Piece
  <2>7. CASE w[k] # LF
    BY <2>2, <2>4, <2>5, <2>7 DEF PieceOf, Piece
  <2> QED BY <2>6, <2>7
<1> QED BY <1>1, <1>2, LineCases

LEMMA LineEmpty == Line(<<>>) = Piece("more", 0)
<1>1. <<>> \in Seq(Bytes) /\ Len(<<>>) = 0
  OBVIOUS
<1>2. PlainText(<<>>)
  BY <1>1 DEF PlainText
<1> QED BY <1>1, <1>2, LineMore

LEMMA LineFront ==
  ASSUME NEW z \in Seq(Bytes)
  PROVE  /\ Line(<<LF>> \o z) = Piece("bad", 1)
         /\ Line(<<CR>> \o z) = Piece(LineFeed(z).kind, 1 + LineFeed(z).used)
<1>1. LF \in Bytes /\ CR \in Bytes /\ LF # CR
  BY DEF Bytes, LF, CR
<1>2. ASSUME NEW b \in {CR, LF} PROVE EndsAt(<<b>> \o z, 1) /\ <<b>> \o z \in Seq(Bytes) /\ (<<b>> \o z)[1] = b
  <2>1. b \in Bytes
    BY <1>1
  <2> QED BY <2>1, FrontIs DEF EndsAt
<1>3. Drop(<<CR>> \o z, 1) = z
  <2>1. 0 \in 0..Len(z) /\ 1 + 0 = 1 /\ Drop(z, 0) = z
    BY DropNone
  <2> QED BY <1>1, <2>1, FrontIs
<1> QED BY <1>1, <1>2, <1>3, LineEnds

LEMMA LineText ==
  ASSUME NEW x \in Seq(Bytes), NEW y \in Seq(Bytes), PlainText(x)
  PROVE  Line(x \o y) = Piece(Line(y).kind, Len(x) + Line(y).used)
<1>1. x \o y \in Seq(Bytes) /\ Len(x \o y) = Len(x) + Len(y) /\ Len(x) \in Nat /\ Len(y) \in Nat
  BY JoinIs
<1>2. \A i \in 1..Len(x) : (x \o y)[i] \notin {CR, LF}
  BY JoinIs DEF PlainText
<1>3. ASSUME NEW i \in 1..Len(x \o y)
      PROVE  \/ i \in 1..Len(x)
             \/ i - Len(x) \in 1..Len(y) /\ (x \o y)[i] = y[i - Len(x)]
  <2>1. CASE i > Len(x)
    <3>1. i - Len(x) \in 1..Len(y) /\ Len(x) + (i - Len(x)) = i
      BY <1>1, <2>1
    <3> QED BY <3>1, JoinIs
  <2> QED BY <1>1, <2>1
<1>4. CASE PlainText(y)
  <2>1. PlainText(x \o y)
    BY <1>2, <1>3, <1>4 DEF PlainText
  <2>2. Line(y) = Piece("more", Len(y)) /\ Line(x \o y) = Piece("more", Len(x) + Len(y))
    BY <1>1, <1>4, <2>1, LineMore
  <2> QED BY <2>2 DEF Piece
<1>5. CASE \E k : EndsAt(y, k)
  <2>1. PICK k : EndsAt(y, k)
    BY <1>5
  <2>2. k \in 1..Len(y) /\ k \in Nat /\ k \in 0..Len(y)
    BY <2>1 DEF EndsAt
  <2>3. (x \o y)[Len(x) + k] = y[k]
    BY <2>2, JoinIs
  <2>4. EndsAt(x \o y, Len(x) + k)
    <3>1. ASSUME NEW j \in 1..(Len(x) + k) - 1 PROVE (x \o y)[j] \notin {CR, LF}
      <4>1. j \in 1..Len(x \o y)
        BY <1>1, <2>2
      <4>2. j - Len(x) \in 1..Len(y) => j - Len(x) \in 1..k - 1
        BY <1>1, <2>2
      <4> QED BY <1>2, <1>3, <2>1, <4>1, <4>2 DEF EndsAt
    <3>2. Len(x) + k \in 1..Len(x \o y)
      BY <1>1, <2>2
    <3> QED BY <2>1, <2>3, <3>1, <3>2 DEF EndsAt
  <2>5. Drop(x \o y, Len(x) + k) = Drop(y, k)
    BY <2>2, DropJoin
  <2> DEFINE lf == LineFeed(Drop(y, k))
  <2>6. Line(y) = IF y[k] = LF THEN Piece("bad", k) ELSE Piece(lf.kind, k + lf.used)
    BY <2>1, LineEnds
  <2>7. Line(x \o y) = IF y[k] = LF THEN Piece("bad", Len(x) + k) ELSE Piece(lf.kind, (Len(x) + k) + lf.used)
    BY <1>1, <2>3, <2>4, <2>5, LineEnds
  <2>8. lf.used \in Nat
    <3>1. Drop(y, k) \in Seq(Bytes)
      BY <2>2, DropIs
    <3>2. Len(Drop(y, k)) \in Nat
      BY <3>1
    <3> QED BY <3>1, <3>2, LineFeedTyped DEF PieceOf
  <2> HIDE DEF lf
  <2>9. (Len(x) + k) + lf.used = Len(x) + (k + lf.used)
    BY <1>1, <2>2, <2>8
  <2> QED BY <2>6, <2>7, <2>9 DEF Piece
<1> QED BY <1>4, <1>5, LineCases

LEMMA DataEndTyped ==
  ASSUME NEW w \in Seq(Bytes)
  PROVE  PieceOf(DataEnd(w), w)
<1>1. CASE w # <<>> /\ w[1] # CR
  <2>1. Len(w) \in Nat /\ Len(w) > 0
    BY <1>1, EmptySeq
  <2> QED BY <1>1, <2>1 DEF PieceOf, DataEnd, Piece
<1>2. CASE ~(w # <<>> /\ w[1] # CR)
  BY <1>2, LineTyped DEF DataEnd
<1> QED BY <1>1, <1>2

(* The digits at the start of w are the n first bytes.                     *)
DigitsEnd(w, n) ==
  /\ n \in 0..Len(w)
  /\ \A j \in 1..n : w[j] \in HexDigits
  /\ n < Len(w) => w[n + 1] \notin HexDigits

LEMMA DigitsIs ==
  ASSUME NEW w \in Seq(Bytes), NEW n, DigitsEnd(w, n)
  PROVE  Digits(w) = n
<1> DEFINE S == {k \in 1..Len(w) : w[k] \notin HexDigits} \cup {Len(w) + 1}
<1>1. Len(w) \in Nat /\ n \in Nat /\ n <= Len(w)
  BY DEF DigitsEnd
<1>2. S \in SUBSET Nat /\ n + 1 \in S
  BY <1>1 DEF DigitsEnd
<1>3. \A k \in S : n + 1 <= k
  BY <1>1 DEF DigitsEnd
<1> HIDE DEF S
<1>4. Min(S) = n + 1
  BY <1>2, <1>3, MinIs
<1>5. Digits(w) = Min(S) - 1
  BY DEF Digits, S
<1> QED BY <1>1, <1>4, <1>5

LEMMA DigitsCases ==
  ASSUME NEW w \in Seq(Bytes)
  PROVE  DigitsEnd(w, Digits(w))
<1> DEFINE S == {k \in 1..Len(w) : w[k] \notin HexDigits} \cup {Len(w) + 1}
<1>1. S \in SUBSET Nat /\ Len(w) + 1 \in S
  OBVIOUS
<1>2. PICK k \in S : \A j \in S : k <= j
  <2> HIDE DEF S
  <2> QED BY <1>1, Least
<1>3. k \in 1..Len(w) + 1 /\ (k <= Len(w) => w[k] \notin HexDigits)
      /\ \A j \in 1..Len(w) : w[j] \notin HexDigits => k <= j
  BY <1>2
<1>4. k - 1 \in 0..Len(w) /\ (k - 1) + 1 = k /\ \A j \in 1..k - 1 : j \in 1..Len(w) /\ ~(k <= j)
  BY <1>3
<1>5. DigitsEnd(w, k - 1)
  BY <1>3, <1>4 DEF DigitsEnd
<1>6. Digits(w) = k - 1
  BY <1>5, DigitsIs
<1> QED BY <1>5, <1>6

LEMMA SizeLineTyped ==
  ASSUME NEW w \in Seq(Bytes), NEW need \in BOOLEAN
  PROVE  PieceOf(SizeLine(w, need), w)
<1> DEFINE n == Digits(w)
<1>1. n \in 0..Len(w) /\ Len(w) \in Nat /\ n \in Nat
  BY DigitsCases DEF DigitsEnd
<1> HIDE DEF n
<1>2. MaxHexDigits \in Nat
  BY WidthAssumption
<1>3. CASE n > MaxHexDigits
  <2>1. SizeLine(w, need) = Piece("bad", MaxHexDigits + 1)
    BY <1>3 DEF SizeLine, n
  <2> QED BY <1>1, <1>2, <1>3, <2>1 DEF PieceOf, Piece
<1>4. CASE ~(n > MaxHexDigits) /\ n = Len(w)
  <2>1. SizeLine(w, need) = Piece("more", n)
    BY <1>4 DEF SizeLine, n
  <2> QED BY <1>1, <1>4, <2>1 DEF PieceOf, Piece
<1>5. CASE ~(n > MaxHexDigits) /\ n # Len(w)
  <2>1. SizeLine(w, need) = Line(w) \/ SizeLine(w, need) = Piece("bad", n + 1)
    BY <1>5 DEF SizeLine, n
  <2>2. PieceOf(Piece("bad", n + 1), w)
    BY <1>1, <1>5 DEF PieceOf, Piece
  <2> QED BY <2>1, <2>2, LineTyped
<1> QED BY <1>3, <1>4, <1>5

-----------------------------------------------------------------------------
(* The number that digits spell.                                           *)
LEMMA LastIs ==
  ASSUME NEW B, NEW x \in Seq(B), NEW b \in B
  PROVE  /\ x \o <<b>> \in Seq(B) /\ Len(x \o <<b>>) = Len(x) + 1 /\ Len(x) \in Nat
         /\ (x \o <<b>>)[Len(x) + 1] = b
         /\ SubSeq(x \o <<b>>, 1, Len(x)) = x
<1>1. <<b>> \in Seq(B) /\ Len(<<b>>) = 1 /\ <<b>>[1] = b
  OBVIOUS
<1>2. x \o <<b>> \in Seq(B) /\ Len(x \o <<b>>) = Len(x) + 1 /\ Len(x) \in Nat
      /\ (x \o <<b>>)[Len(x) + 1] = b /\ \A i \in 1..Len(x) : (x \o <<b>>)[i] = x[i]
  <2>1. 1 \in 1..Len(<<b>>)
    BY <1>1
  <2> QED BY <1>1, <2>1, JoinIs
<1>3. SubSeq(x \o <<b>>, 1, Len(x)) \in Seq(B) /\ Len(SubSeq(x \o <<b>>, 1, Len(x))) = Len(x)
      /\ \A i \in 1..Len(x) : SubSeq(x \o <<b>>, 1, Len(x))[i] = (x \o <<b>>)[i]
  BY <1>2
<1>4. SubSeq(x \o <<b>>, 1, Len(x)) = x
  BY <1>2, <1>3, SameSeq
<1> QED BY <1>2, <1>4

LEMMA TakeIs ==
  ASSUME NEW B, NEW w \in Seq(B), NEW n \in 0..Len(w)
  PROVE  /\ SubSeq(w, 1, n) \in Seq(B)
         /\ Len(SubSeq(w, 1, n)) = n
         /\ \A i \in 1..n : SubSeq(w, 1, n)[i] = w[i]
  OBVIOUS

LEMMA NumberRec ==
  /\ Number[<<>>] = 0
  /\ \A x \in Seq(HexDigits) : Number[x] \in Nat
  /\ \A x \in Seq(HexDigits), d \in HexDigits : Number[x \o <<d>>] = 16 * Number[x] + HexValue[d]
<1> DEFINE H    == Seq(HexDigits)
           step == [w \in H |-> [f \in [H -> Nat] |->
                     IF Len(w) = 0 THEN 0
                     ELSE 16 * f[SubSeq(w, 1, Len(w) - 1)] + HexValue[w[Len(w)]]]]
<1>1. ASSUME NEW w \in H, Len(w) # 0
      PROVE  /\ SubSeq(w, 1, Len(w) - 1) \in H /\ Len(SubSeq(w, 1, Len(w) - 1)) < Len(w)
             /\ HexValue[w[Len(w)]] \in Nat
  <2>1. Len(w) \in Nat /\ Len(w) \in 1..Len(w) /\ Len(w) - 1 \in 0..Len(w)
    BY <1>1
  <2>2. w[Len(w)] \in HexDigits
    BY <2>1
  <2>3. HexValue[w[Len(w)]] \in 0..15
    BY <2>2, DigitAssumption
  <2>4. SubSeq(w, 1, Len(w) - 1) \in H /\ Len(SubSeq(w, 1, Len(w) - 1)) = Len(w) - 1
    BY <2>1, TakeIs
  <2> QED BY <2>1, <2>3, <2>4
<1>2. \A w \in H, f \in [H -> Nat] :
        step[w][f] = IF Len(w) = 0 THEN 0
                     ELSE 16 * f[SubSeq(w, 1, Len(w) - 1)] + HexValue[w[Len(w)]]
  OBVIOUS
<1>3. \A w \in H, f \in [H -> Nat] :
        (IF Len(w) = 0 THEN 0 ELSE 16 * f[SubSeq(w, 1, Len(w) - 1)] + HexValue[w[Len(w)]]) \in Nat
  <2> SUFFICES ASSUME NEW w \in H, NEW f \in [H -> Nat], Len(w) # 0
               PROVE  16 * f[SubSeq(w, 1, Len(w) - 1)] + HexValue[w[Len(w)]] \in Nat
    OBVIOUS
  <2>1. SubSeq(w, 1, Len(w) - 1) \in H /\ HexValue[w[Len(w)]] \in Nat
    BY <1>1
  <2>2. f[SubSeq(w, 1, Len(w) - 1)] \in Nat
    BY <2>1
  <2> QED BY <2>1, <2>2
<1>4. step \in [H -> [[H -> Nat] -> Nat]]
  BY <1>3
<1> HIDE DEF step
<1>5. ASSUME NEW w \in H, NEW f \in [H -> Nat], NEW g \in [H -> Nat],
             \A u \in H : Len(u) < Len(w) => f[u] = g[u]
      PROVE  step[w][f] = step[w][g]
  <2>1. CASE Len(w) = 0
    BY <1>2, <2>1
  <2>2. CASE Len(w) # 0
    <3>1. f[SubSeq(w, 1, Len(w) - 1)] = g[SubSeq(w, 1, Len(w) - 1)]
      BY <1>1, <1>5, <2>2
    <3> QED BY <1>2, <2>2, <3>1
  <2> QED BY <2>1, <2>2
<1>6. Recursive(HexDigits, Nat, 0, step)
  BY <1>4, <1>5 DEF Recursive
<1>7. PICK f : f \in [Seq(HexDigits) -> Nat] /\ \A w \in Seq(HexDigits) : f[w] = step[w][f]
  BY <1>6, Recursion
<1>8. f = [w \in H |-> IF Len(w) = 0 THEN 0
                       ELSE 16 * f[SubSeq(w, 1, Len(w) - 1)] + HexValue[w[Len(w)]]]
  BY <1>2, <1>7
<1>9. Number = [w \in H |-> IF Len(w) = 0 THEN 0
                            ELSE 16 * Number[SubSeq(w, 1, Len(w) - 1)] + HexValue[w[Len(w)]]]
  BY <1>8 DEF Number
<1> DEFINE S == {n \in Nat : \A x \in H : Len(x) = n => Number[x] \in Nat}
<1>10. \A n \in Nat : n \in S
  <2>1. 0 \in S
    BY <1>9
  <2>2. ASSUME NEW n \in Nat, n \in S PROVE n + 1 \in S
    <3> SUFFICES ASSUME NEW x \in H, Len(x) = n + 1 PROVE Number[x] \in Nat
      OBVIOUS
    <3>1. Len(x) # 0 /\ Len(x) - 1 = n /\ Len(x) \in 1..Len(x)
      OBVIOUS
    <3>2. SubSeq(x, 1, n) \in H /\ Len(SubSeq(x, 1, n)) = n
      BY <3>1
    <3>3. Number[SubSeq(x, 1, n)] \in Nat
      BY <2>2, <3>2
    <3>4. Number[x] = 16 * Number[SubSeq(x, 1, n)] + HexValue[x[Len(x)]]
      BY <1>9, <3>1
    <3>5. HexValue[x[Len(x)]] \in Nat
      BY <1>1, <3>1
    <3> QED BY <3>3, <3>4, <3>5
  <2> HIDE DEF S
  <2> QED BY <2>1, <2>2, Induction
<1>11. \A x \in H : Number[x] \in Nat
  BY <1>10
<1>12. ASSUME NEW x \in H, NEW d \in HexDigits
       PROVE  Number[x \o <<d>>] = 16 * Number[x] + HexValue[d]
  <2>1. x \o <<d>> \in H /\ Len(x \o <<d>>) = Len(x) + 1 /\ Len(x) \in Nat
        /\ (x \o <<d>>)[Len(x) + 1] = d /\ SubSeq(x \o <<d>>, 1, Len(x)) = x
    BY LastIs
  <2>2. (Len(x) + 1) - 1 = Len(x) /\ Len(x) + 1 # 0
    BY <2>1
  <2>3. Number[x \o <<d>>] = 16 * Number[SubSeq(x \o <<d>>, 1, Len(x \o <<d>>) - 1)]
                              + HexValue[(x \o <<d>>)[Len(x \o <<d>>)]]
    BY <1>9, <2>1, <2>2
  <2>4. Len(x \o <<d>>) - 1 = Len(x)
    BY <2>1, <2>2
  <2> QED BY <2>1, <2>3, <2>4
<1>13. Number[<<>>] = 0
  <2>1. <<>> \in H /\ Len(<<>>) = 0
    OBVIOUS
  <2> QED BY <1>9, <2>1
<1> QED BY <1>11, <1>12, <1>13

-----------------------------------------------------------------------------
(* The trailer section and the body satisfy their recursive definitions.   *)
Outcomes == [kind : {"more", "done", "bad"}, payload : Seq(Bytes), rest : Seq(Bytes)]

LEMMA OutcomeTyped ==
  ASSUME NEW k \in {"more", "done", "bad"}, NEW x \in Seq(Bytes), NEW y \in Seq(Bytes)
  PROVE  Outcome(k, x, y) \in Outcomes
  BY DEF Outcome, Outcomes

LEMMA OutcomeParts ==
  ASSUME NEW o \in Outcomes
  PROVE  /\ o.kind \in {"more", "done", "bad"} /\ o.payload \in Seq(Bytes) /\ o.rest \in Seq(Bytes)
         /\ o = Outcome(o.kind, o.payload, o.rest)
  BY DEF Outcome, Outcomes

LEMMA PrependTyped ==
  ASSUME NEW x \in Seq(Bytes), NEW o \in Outcomes
  PROVE  Prepend(x, o) \in Outcomes
<1>1. o.kind \in {"more", "done", "bad"} /\ o.payload \in Seq(Bytes) /\ o.rest \in Seq(Bytes)
  BY OutcomeParts
<1>2. x \o o.payload \in Seq(Bytes)
  BY <1>1
<1> QED BY <1>1, <1>2, OutcomeTyped DEF Prepend

LEMMA AfterTyped ==
  ASSUME NEW w \in Seq(Bytes), NEW p, PieceOf(p, w), NEW o, p.kind = "ok" => o \in Outcomes
  PROVE  After(p, w, o) \in Outcomes
<1>1. CASE p.kind = "ok"
  BY <1>1 DEF After
<1>2. CASE p.kind # "ok"
  <2>1. p.kind \in {"more", "done", "bad"} /\ p.used \in 0..Len(w) /\ <<>> \in Seq(Bytes)
    BY <1>2 DEF PieceOf
  <2>2. Drop(w, p.used) \in Seq(Bytes)
    BY <2>1, DropIs
  <2> QED BY <1>2, <2>1, <2>2, OutcomeTyped DEF After
<1> QED BY <1>1, <1>2

(* What is left after a whole piece is shorter.                            *)
LEMMA DropShorter ==
  ASSUME NEW w \in Seq(Bytes), NEW p, PieceOf(p, w)
  PROVE  /\ Drop(w, p.used) \in Seq(Bytes)
         /\ p.kind = "ok" => Len(Drop(w, p.used)) < Len(w)
<1>1. p.used \in 0..Len(w) /\ Len(w) \in Nat
  BY DEF PieceOf
<1>2. Drop(w, p.used) \in Seq(Bytes) /\ Len(Drop(w, p.used)) = Len(w) - p.used
  BY <1>1, DropIs
<1> QED BY <1>1, <1>2 DEF PieceOf

TrailerStep(w, f) ==
  After(Line(w), w, IF w[1] = CR THEN Outcome("done", <<>>, Drop(w, Line(w).used))
                    ELSE f[Drop(w, Line(w).used)])

LEMMA TrailerRec ==
  /\ Trailer \in [Seq(Bytes) -> Outcomes]
  /\ \A w \in Seq(Bytes) : Trailer[w] = TrailerStep(w, Trailer)
<1> DEFINE W    == Seq(Bytes)
           step == [w \in W |-> [f \in [W -> Outcomes] |-> TrailerStep(w, f)]]
           v    == Outcome("more", <<>>, <<>>)
<1>0. ASSUME NEW w \in W, NEW f, Line(w).kind = "ok" => f[Drop(w, Line(w).used)] \in Outcomes
      PROVE  TrailerStep(w, f) \in Outcomes
  <2>1. PieceOf(Line(w), w)
    BY LineTyped
  <2>2. Drop(w, Line(w).used) \in W /\ <<>> \in Seq(Bytes)
    BY <2>1, DropShorter
  <2>3. Outcome("done", <<>>, Drop(w, Line(w).used)) \in Outcomes
    BY <2>2, OutcomeTyped
  <2>4. Line(w).kind = "ok" =>
          (IF w[1] = CR THEN Outcome("done", <<>>, Drop(w, Line(w).used)) ELSE f[Drop(w, Line(w).used)]) \in Outcomes
    BY <1>0, <2>3
  <2> HIDE DEF W
  <2> QED BY <2>1, <2>4, AfterTyped DEF TrailerStep, W
<1>1. ASSUME NEW w \in W, NEW f \in [W -> Outcomes]
      PROVE  TrailerStep(w, f) \in Outcomes
  <2>1. Drop(w, Line(w).used) \in W
    BY LineTyped, DropShorter
  <2>2. f[Drop(w, Line(w).used)] \in Outcomes
    BY <2>1
  <2> QED BY <1>0, <2>2
<1>2. ASSUME NEW w \in W, NEW f \in [W -> Outcomes], NEW g \in [W -> Outcomes],
             \A u \in W : Len(u) < Len(w) => f[u] = g[u]
      PROVE  TrailerStep(w, f) = TrailerStep(w, g)
  <2>1. PieceOf(Line(w), w)
    BY LineTyped
  <2>2. Drop(w, Line(w).used) \in W /\ (Line(w).kind = "ok" => Len(Drop(w, Line(w).used)) < Len(w))
    BY <2>1, DropShorter
  <2>3. Line(w).kind = "ok" => f[Drop(w, Line(w).used)] = g[Drop(w, Line(w).used)]
    BY <1>2, <2>2
  <2> QED BY <2>3 DEF TrailerStep, After
<1>3. v \in Outcomes
  <2>1. <<>> \in Seq(Bytes)
    OBVIOUS
  <2> QED BY <2>1, OutcomeTyped
<1>4. \A w \in W, f \in [W -> Outcomes] : step[w][f] = TrailerStep(w, f)
  OBVIOUS
<1>5. step \in [W -> [[W -> Outcomes] -> Outcomes]]
  <2>1. ASSUME NEW w \in W PROVE [f \in [W -> Outcomes] |-> TrailerStep(w, f)] \in [[W -> Outcomes] -> Outcomes]
    BY <1>1
  <2> HIDE DEF W
  <2> QED BY <2>1
<1> HIDE DEF step, v
<1>6. Recursive(Bytes, Outcomes, v, step)
  <2>1. ASSUME NEW w \in W, NEW f \in [W -> Outcomes], NEW g \in [W -> Outcomes],
               \A u \in W : Len(u) < Len(w) => f[u] = g[u]
        PROVE  step[w][f] = step[w][g]
    BY <1>2, <1>4, <2>1
  <2> QED BY <1>3, <1>5, <2>1 DEF Recursive
<1>7. PICK f : f \in [Seq(Bytes) -> Outcomes] /\ \A w \in Seq(Bytes) : f[w] = step[w][f]
  BY <1>6, Recursion
<1>8. f = [w \in Seq(Bytes) |-> TrailerStep(w, f)]
  BY <1>4, <1>7
<1>9. Trailer = [w \in Seq(Bytes) |-> TrailerStep(w, Trailer)]
  BY <1>8 DEF Trailer, TrailerStep
<1> DEFINE S == {n \in Nat : \A x \in W : Len(x) < n => Trailer[x] \in Outcomes}
<1>10. \A n \in Nat : n \in S
  <2>1. 0 \in S
    OBVIOUS
  <2>2. ASSUME NEW n \in Nat, n \in S PROVE n + 1 \in S
    <3> SUFFICES ASSUME NEW x \in W, Len(x) < n + 1 PROVE Trailer[x] \in Outcomes
      OBVIOUS
    <3>1. Drop(x, Line(x).used) \in W /\ (Line(x).kind = "ok" => Len(Drop(x, Line(x).used)) < Len(x))
      BY LineTyped, DropShorter
    <3>2. Line(x).kind = "ok" => Len(Drop(x, Line(x).used)) < n
      BY <3>1
    <3>3. Line(x).kind = "ok" => Trailer[Drop(x, Line(x).used)] \in Outcomes
      BY <2>2, <3>1, <3>2
    <3>4. TrailerStep(x, Trailer) \in Outcomes
      BY <1>0, <3>3
    <3> QED BY <1>9, <3>4
  <2> HIDE DEF S
  <2> QED BY <2>1, <2>2, Induction
<1>11. ASSUME NEW x \in W PROVE Trailer[x] \in Outcomes
  <2>1. Len(x) + 1 \in Nat /\ Len(x) < Len(x) + 1
    OBVIOUS
  <2> QED BY <1>10, <2>1
<1> QED BY <1>9, <1>11

(* What follows the data of a chunk, and what follows a size line.         *)
TailStep(q, f) == After(DataEnd(q), q, f[Drop(q, DataEnd(q).used)])

Data(n, r) == SubSeq(r, 1, Smaller(n, Len(r)))

BodyStep(n, trailers, r, f) ==
  IF n # 0 THEN Prepend(Data(n, r), TailStep(Drop(r, Len(Data(n, r))), f))
  ELSE IF trailers THEN Trailer[r]
  ELSE Outcome("done", <<>>, r)

Size(w) == Number[SubSeq(w, 1, Digits(w))]

DecodeStep(trailers, w, f) ==
  After(SizeLine(w, FALSE), w, BodyStep(Size(w), trailers, Drop(w, SizeLine(w, FALSE).used), f))

LEMMA DataTyped ==
  ASSUME NEW n \in Nat, NEW r \in Seq(Bytes)
  PROVE  /\ Data(n, r) \in Seq(Bytes)
         /\ Len(Data(n, r)) = Smaller(n, Len(r)) /\ Smaller(n, Len(r)) \in 0..Len(r)
         /\ Drop(r, Len(Data(n, r))) \in Seq(Bytes)
         /\ Len(Drop(r, Len(Data(n, r)))) <= Len(r)
<1>1. Smaller(n, Len(r)) \in 0..Len(r) /\ Len(r) \in Nat
  BY DEF Smaller
<1>2. Data(n, r) \in Seq(Bytes) /\ Len(Data(n, r)) = Smaller(n, Len(r))
  BY <1>1, TakeIs DEF Data
<1>3. Drop(r, Len(Data(n, r))) \in Seq(Bytes) /\ Len(Drop(r, Len(Data(n, r)))) = Len(r) - Smaller(n, Len(r))
  BY <1>1, <1>2, DropIs
<1> QED BY <1>1, <1>2, <1>3

LEMMA SizeTyped ==
  ASSUME NEW w \in Seq(Bytes)
  PROVE  Size(w) \in Nat
<1> DEFINE n == Digits(w)
<1>1. n \in 0..Len(w) /\ \A j \in 1..n : w[j] \in HexDigits
  BY DigitsCases DEF DigitsEnd
<1> HIDE DEF n
<1>2. SubSeq(w, 1, n) \in Seq(Bytes) /\ Len(SubSeq(w, 1, n)) = n /\ n \in Nat
      /\ \A i \in 1..n : SubSeq(w, 1, n)[i] = w[i]
  BY <1>1, TakeIs
<1>3. SubSeq(w, 1, n) \in Seq(HexDigits)
  BY <1>1, <1>2
<1> QED BY <1>3, NumberRec DEF Size, n

LEMMA TailTyped ==
  ASSUME NEW q \in Seq(Bytes), NEW f,
         DataEnd(q).kind = "ok" => f[Drop(q, DataEnd(q).used)] \in Outcomes
  PROVE  TailStep(q, f) \in Outcomes
  BY DataEndTyped, AfterTyped DEF TailStep

LEMMA BodyTyped ==
  ASSUME NEW n \in Nat, NEW trailers \in BOOLEAN, NEW r \in Seq(Bytes), NEW f,
         \A u \in Seq(Bytes) : Len(u) < Len(r) => f[u] \in Outcomes
  PROVE  BodyStep(n, trailers, r, f) \in Outcomes
<1>1. CASE n # 0
  <2> DEFINE q == Drop(r, Len(Data(n, r)))
  <2>1. Data(n, r) \in Seq(Bytes) /\ q \in Seq(Bytes) /\ Len(q) <= Len(r) /\ Len(q) \in Nat /\ Len(r) \in Nat
    BY DataTyped
  <2> HIDE DEF q
  <2>2. PieceOf(DataEnd(q), q)
    BY <2>1, DataEndTyped
  <2>3. Drop(q, DataEnd(q).used) \in Seq(Bytes) /\ (DataEnd(q).kind = "ok" => Len(Drop(q, DataEnd(q).used)) < Len(q))
    BY <2>1, <2>2, DropShorter
  <2>4. DataEnd(q).kind = "ok" => Len(Drop(q, DataEnd(q).used)) < Len(r)
    BY <2>1, <2>3
  <2>5. TailStep(q, f) \in Outcomes
    BY <2>1, <2>3, <2>4, TailTyped
  <2>6. Prepend(Data(n, r), TailStep(q, f)) \in Outcomes
    BY <2>1, <2>5, PrependTyped
  <2> QED BY <1>1, <2>6 DEF BodyStep, q
<1>2. CASE n = 0
  <2>1. Trailer[r] \in Outcomes
    BY TrailerRec
  <2>2. Outcome("done", <<>>, r) \in Outcomes
    <3>1. <<>> \in Seq(Bytes)
      OBVIOUS
    <3> QED BY <3>1, OutcomeTyped
  <2> QED BY <1>2, <2>1, <2>2 DEF BodyStep
<1> QED BY <1>1, <1>2

LEMMA BodySame ==
  ASSUME NEW n \in Nat, NEW trailers \in BOOLEAN, NEW r \in Seq(Bytes), NEW f, NEW g,
         \A u \in Seq(Bytes) : Len(u) < Len(r) => f[u] = g[u]
  PROVE  BodyStep(n, trailers, r, f) = BodyStep(n, trailers, r, g)
<1>1. CASE n # 0
  <2> DEFINE q == Drop(r, Len(Data(n, r)))
  <2>1. q \in Seq(Bytes) /\ Len(q) <= Len(r) /\ Len(q) \in Nat /\ Len(r) \in Nat
    BY DataTyped
  <2> HIDE DEF q
  <2>2. PieceOf(DataEnd(q), q)
    BY <2>1, DataEndTyped
  <2>3. Drop(q, DataEnd(q).used) \in Seq(Bytes) /\ (DataEnd(q).kind = "ok" => Len(Drop(q, DataEnd(q).used)) < Len(q))
    BY <2>1, <2>2, DropShorter
  <2>4. DataEnd(q).kind = "ok" => Len(Drop(q, DataEnd(q).used)) < Len(r)
    BY <2>1, <2>3
  <2>5. TailStep(q, f) = TailStep(q, g)
    BY <2>3, <2>4 DEF TailStep, After
  <2> QED BY <1>1, <2>5 DEF BodyStep, q
<1>2. CASE n = 0
  BY <1>2 DEF BodyStep
<1> QED BY <1>1, <1>2

LEMMA DecodeTyped ==
  ASSUME NEW trailers \in BOOLEAN, NEW w \in Seq(Bytes), NEW f,
         \A u \in Seq(Bytes) : Len(u) < Len(w) => f[u] \in Outcomes
  PROVE  DecodeStep(trailers, w, f) \in Outcomes
<1> DEFINE p == SizeLine(w, FALSE)
           r == Drop(w, p.used)
<1>1. PieceOf(p, w)
  BY SizeLineTyped
<1> HIDE DEF p
<1>2. r \in Seq(Bytes) /\ (p.kind = "ok" => Len(r) < Len(w))
  BY <1>1, DropShorter
<1> HIDE DEF r
<1>3. ASSUME p.kind = "ok" PROVE BodyStep(Size(w), trailers, r, f) \in Outcomes
  <2>1. Len(r) \in Nat /\ Len(w) \in Nat /\ Len(r) < Len(w)
    BY <1>2, <1>3
  <2>2. \A u \in Seq(Bytes) : Len(u) < Len(r) => f[u] \in Outcomes
    BY <2>1
  <2> QED BY <1>2, <2>2, BodyTyped, SizeTyped
<1> QED BY <1>1, <1>3, AfterTyped DEF DecodeStep, p, r

LEMMA DecodeSame ==
  ASSUME NEW trailers \in BOOLEAN, NEW w \in Seq(Bytes), NEW f, NEW g,
         \A u \in Seq(Bytes) : Len(u) < Len(w) => f[u] = g[u]
  PROVE  DecodeStep(trailers, w, f) = DecodeStep(trailers, w, g)
<1> DEFINE p == SizeLine(w, FALSE)
           r == Drop(w, p.used)
<1>1. PieceOf(p, w)
  BY SizeLineTyped
<1> HIDE DEF p
<1>2. r \in Seq(Bytes) /\ (p.kind = "ok" => Len(r) < Len(w))
  BY <1>1, DropShorter
<1> HIDE DEF r
<1>3. ASSUME p.kind = "ok" PROVE BodyStep(Size(w), trailers, r, f) = BodyStep(Size(w), trailers, r, g)
  <2>1. Len(r) \in Nat /\ Len(w) \in Nat /\ Len(r) < Len(w)
    BY <1>2, <1>3
  <2>2. \A u \in Seq(Bytes) : Len(u) < Len(r) => f[u] = g[u]
    BY <2>1
  <2> QED BY <1>2, <2>2, BodySame, SizeTyped
<1> QED BY <1>3 DEF DecodeStep, After, p, r

Whole(trailers) == RefDecode(FALSE, trailers)

LEMMA DecodeRec ==
  ASSUME NEW trailers \in BOOLEAN
  PROVE  /\ \A w \in Seq(Bytes) : Whole(trailers)[w] \in Outcomes
         /\ \A w \in Seq(Bytes) : Whole(trailers)[w] = DecodeStep(trailers, w, Whole(trailers))
<1> DEFINE W    == Seq(Bytes)
           step == [w \in W |-> [f \in [W -> Outcomes] |-> DecodeStep(trailers, w, f)]]
           v    == Outcome("more", <<>>, <<>>)
<1>1. ASSUME NEW w \in W, NEW f \in [W -> Outcomes]
      PROVE  DecodeStep(trailers, w, f) \in Outcomes
  BY DecodeTyped
<1>2. v \in Outcomes
  <2>1. <<>> \in Seq(Bytes)
    OBVIOUS
  <2> QED BY <2>1, OutcomeTyped
<1>3. \A w \in W, f \in [W -> Outcomes] : step[w][f] = DecodeStep(trailers, w, f)
  OBVIOUS
<1>4. step \in [W -> [[W -> Outcomes] -> Outcomes]]
  <2>1. ASSUME NEW w \in W PROVE [f \in [W -> Outcomes] |-> DecodeStep(trailers, w, f)] \in [[W -> Outcomes] -> Outcomes]
    BY <1>1
  <2> HIDE DEF W
  <2> QED BY <2>1
<1> HIDE DEF step, v
<1>5. Recursive(Bytes, Outcomes, v, step)
  <2>1. ASSUME NEW w \in W, NEW f \in [W -> Outcomes], NEW g \in [W -> Outcomes],
               \A u \in W : Len(u) < Len(w) => f[u] = g[u]
        PROVE  step[w][f] = step[w][g]
    BY <1>3, <2>1, DecodeSame
  <2> QED BY <1>2, <1>4, <2>1 DEF Recursive
<1>6. PICK f : f \in [Seq(Bytes) -> Outcomes] /\ \A w \in Seq(Bytes) : f[w] = step[w][f]
  BY <1>5, Recursion
<1>7. f = [w \in Seq(Bytes) |-> DecodeStep(trailers, w, f)]
  BY <1>3, <1>6
<1>8. Whole(trailers) = [w \in Seq(Bytes) |-> DecodeStep(trailers, w, Whole(trailers))]
  BY <1>7 DEF Whole, RefDecode, DecodeStep, BodyStep, TailStep, Data, Size
<1> DEFINE g == Whole(trailers)
           S == {n \in Nat : \A x \in W : Len(x) < n => g[x] \in Outcomes}
<1> HIDE DEF g
<1>9. \A x \in W : g[x] = DecodeStep(trailers, x, g)
  BY <1>8 DEF g
<1>10. \A n \in Nat : n \in S
  <2>1. 0 \in S
    OBVIOUS
  <2>2. ASSUME NEW n \in Nat, n \in S PROVE n + 1 \in S
    <3> SUFFICES ASSUME NEW x \in W, Len(x) < n + 1 PROVE g[x] \in Outcomes
      OBVIOUS
    <3>1. \A u \in Seq(Bytes) : Len(u) < Len(x) => g[u] \in Outcomes
      BY <2>2
    <3>2. DecodeStep(trailers, x, g) \in Outcomes
      BY <3>1, DecodeTyped
    <3> QED BY <1>9, <3>2
  <2> HIDE DEF S
  <2> QED BY <2>1, <2>2, Induction
<1>11. ASSUME NEW x \in W PROVE g[x] \in Outcomes
  <2>1. Len(x) + 1 \in Nat /\ Len(x) < Len(x) + 1
    OBVIOUS
  <2> QED BY <1>10, <2>1
<1> QED BY <1>9, <1>11 DEF g

-----------------------------------------------------------------------------
(* What the grammar makes of the bytes to come, when it is in the middle   *)
(* of a body: one byte at a time, in every phase.                          *)
LEMMA AfterJoin ==
  ASSUME NEW x \in Seq(Bytes), NEW y \in Seq(Bytes), NEW p, PieceOf(p, y)
  PROVE  /\ Drop(x \o y, Len(x) + p.used) = Drop(y, p.used)
         /\ \A o : After(Piece(p.kind, Len(x) + p.used), x \o y, o) = After(p, y, o)
<1>1. Drop(x \o y, Len(x) + p.used) = Drop(y, p.used)
  BY DropJoin DEF PieceOf
<1>2. Piece(p.kind, Len(x) + p.used).kind = p.kind /\ Piece(p.kind, Len(x) + p.used).used = Len(x) + p.used
  BY DEF Piece
<1> QED BY <1>1, <1>2 DEF After

LEMMA Alphabets ==
  /\ CR \in Bytes /\ LF \in Bytes /\ SEMI \in Bytes /\ HexDigits \subseteq Bytes
  /\ CR # LF /\ CR # SEMI /\ LF # SEMI
  /\ CR \notin HexDigits /\ LF \notin HexDigits /\ SEMI \notin HexDigits
<1>1. CR \in {CR, LF, SEMI} /\ LF \in {CR, LF, SEMI} /\ SEMI \in {CR, LF, SEMI}
  OBVIOUS
<1>2. CR \notin HexDigits /\ LF \notin HexDigits /\ SEMI \notin HexDigits
  BY <1>1, DigitAssumption, Zenon
<1>3. CR \in Bytes /\ LF \in Bytes /\ SEMI \in Bytes /\ HexDigits \subseteq Bytes
  BY DEF Bytes
<1>4. CR # LF /\ CR # SEMI /\ LF # SEMI
  BY DEF CR, LF, SEMI
<1> QED BY <1>2, <1>3, <1>4

LEMMA FeedStep ==
  ASSUME NEW b \in Bytes, NEW z \in Seq(Bytes)
  PROVE  /\ b = LF => /\ Drop(<<b>> \o z, LineFeed(<<b>> \o z).used) = z
                      /\ \A o : After(LineFeed(<<b>> \o z), <<b>> \o z, o) = o
         /\ b # LF => \A o : After(LineFeed(<<b>> \o z), <<b>> \o z, o) = Outcome("bad", <<>>, z)
<1>1. Drop(<<b>> \o z, 1) = z
  <2>1. 0 \in 0..Len(z) /\ 1 + 0 = 1 /\ Drop(z, 0) = z
    BY DropNone
  <2> QED BY <2>1, FrontIs
<1> DEFINE w == <<b>> \o z
           p == LineFeed(w)
<1>2. p.kind = (IF b = LF THEN "ok" ELSE "bad") /\ p.used = 1
  <2>1. p = Piece(IF b = LF THEN "ok" ELSE "bad", 1)
    BY LineFeedFront
  <2> HIDE DEF p
  <2> QED BY <2>1 DEF Piece
<1> HIDE DEF p
<1> QED BY <1>1, <1>2 DEF After, p

LEMMA NothingLeft ==
  /\ \A o : After(LineFeed(<<>>), <<>>, o) = Outcome("more", <<>>, <<>>)
  /\ \A o : After(Line(<<>>), <<>>, o) = Outcome("more", <<>>, <<>>)
<1>1. <<>> \in Seq(Bytes)
  OBVIOUS
<1>2. Drop(<<>>, 0) = <<>>
  BY <1>1, DropNone
<1> QED BY <1>2, LineFeedEmpty, LineEmpty DEF After, Piece

LEMMA LineStep ==
  ASSUME NEW b \in Bytes, NEW z \in Seq(Bytes)
  PROVE  /\ b = LF => \A o : After(Line(<<b>> \o z), <<b>> \o z, o) = Outcome("bad", <<>>, z)
         /\ b = CR => /\ Drop(<<b>> \o z, Line(<<b>> \o z).used) = Drop(z, LineFeed(z).used)
                      /\ \A o : After(Line(<<b>> \o z), <<b>> \o z, o) = After(LineFeed(z), z, o)
         /\ b \notin {CR, LF} =>
              /\ Drop(<<b>> \o z, Line(<<b>> \o z).used) = Drop(z, Line(z).used)
              /\ \A o : After(Line(<<b>> \o z), <<b>> \o z, o) = After(Line(z), z, o)
<1>1. <<b>> \in Seq(Bytes) /\ Len(<<b>>) = 1 /\ <<b>>[1] = b
  OBVIOUS
<1>2. ASSUME b = LF PROVE \A o : After(Line(<<b>> \o z), <<b>> \o z, o) = Outcome("bad", <<>>, z)
  <2>1. Drop(<<b>> \o z, 1) = z
    <3>1. 0 \in 0..Len(z) /\ 1 + 0 = 1 /\ Drop(z, 0) = z
      BY DropNone
    <3> QED BY <3>1, FrontIs
  <2>2. Line(<<b>> \o z) = Piece("bad", 1)
    BY <1>2, LineFront
  <2> QED BY <2>1, <2>2 DEF After, Piece
<1>3. ASSUME b = CR
      PROVE  /\ Drop(<<b>> \o z, Line(<<b>> \o z).used) = Drop(z, LineFeed(z).used)
             /\ \A o : After(Line(<<b>> \o z), <<b>> \o z, o) = After(LineFeed(z), z, o)
  <2> DEFINE p == LineFeed(z)
  <2>1. PieceOf(p, z)
    BY LineFeedTyped
  <2>2. Line(<<b>> \o z) = Piece(p.kind, Len(<<b>>) + p.used)
    BY <1>1, <1>3, LineFront
  <2> HIDE DEF p
  <2>3. Line(<<b>> \o z).used = Len(<<b>>) + p.used
    BY <2>2 DEF Piece
  <2>5. /\ Drop(<<b>> \o z, Len(<<b>>) + p.used) = Drop(z, p.used)
        /\ \A o : After(Piece(p.kind, Len(<<b>>) + p.used), <<b>> \o z, o) = After(p, z, o)
    <3> DEFINE x == <<b>>
    <3>1. x \in Seq(Bytes)
      BY <1>1
    <3> HIDE DEF x
    <3>2. /\ Drop(x \o z, Len(x) + p.used) = Drop(z, p.used)
          /\ \A o : After(Piece(p.kind, Len(x) + p.used), x \o z, o) = After(p, z, o)
      BY <2>1, <3>1, AfterJoin
    <3> QED BY <3>2 DEF x
  <2> QED BY <2>2, <2>3, <2>5 DEF p
<1>4. ASSUME b \notin {CR, LF}
      PROVE  /\ Drop(<<b>> \o z, Line(<<b>> \o z).used) = Drop(z, Line(z).used)
             /\ \A o : After(Line(<<b>> \o z), <<b>> \o z, o) = After(Line(z), z, o)
  <2> DEFINE p == Line(z)
  <2>1. PieceOf(p, z)
    BY LineTyped
  <2>2. PlainText(<<b>>)
    BY <1>1, <1>4 DEF PlainText
  <2>3. Line(<<b>> \o z) = Piece(p.kind, Len(<<b>>) + p.used)
    BY <1>1, <2>2, LineText
  <2> HIDE DEF p
  <2>4. Line(<<b>> \o z).used = Len(<<b>>) + p.used
    BY <2>3 DEF Piece
  <2>5. /\ Drop(<<b>> \o z, Len(<<b>>) + p.used) = Drop(z, p.used)
        /\ \A o : After(Piece(p.kind, Len(<<b>>) + p.used), <<b>> \o z, o) = After(p, z, o)
    <3> DEFINE x == <<b>>
    <3>1. x \in Seq(Bytes)
      BY <1>1
    <3> HIDE DEF x
    <3>2. /\ Drop(x \o z, Len(x) + p.used) = Drop(z, p.used)
          /\ \A o : After(Piece(p.kind, Len(x) + p.used), x \o z, o) = After(p, z, o)
      BY <2>1, <3>1, AfterJoin
    <3> QED BY <3>2 DEF x
  <2> QED BY <2>3, <2>4, <2>5 DEF p
<1> QED BY <1>2, <1>3, <1>4

Body(n, trailers, r) == BodyStep(n, trailers, r, Whole(trailers))
ChunkTail(trailers, q) == TailStep(q, Whole(trailers))

LineThenBody(n, trailers, z) == After(Line(z), z, Body(n, trailers, Drop(z, Line(z).used)))
FeedThenBody(n, trailers, z) == After(LineFeed(z), z, Body(n, trailers, Drop(z, LineFeed(z).used)))
FeedThenNext(trailers, z)    == After(LineFeed(z), z, Whole(trailers)[Drop(z, LineFeed(z).used)])
LineThenTrailer(z)           == After(Line(z), z, Trailer[Drop(z, Line(z).used)])
FeedThenTrailer(z)           == After(LineFeed(z), z, Trailer[Drop(z, LineFeed(z).used)])
FeedThenDone(z)              == After(LineFeed(z), z, Outcome("done", <<>>, Drop(z, LineFeed(z).used)))

More == Outcome("more", <<>>, <<>>)

LEMMA ExtensionStep ==
  ASSUME NEW n, NEW trailers, NEW b \in Bytes, NEW z \in Seq(Bytes)
  PROVE  /\ b \notin {CR, LF} => LineThenBody(n, trailers, <<b>> \o z) = LineThenBody(n, trailers, z)
         /\ b = CR => LineThenBody(n, trailers, <<b>> \o z) = FeedThenBody(n, trailers, z)
         /\ b = LF => LineThenBody(n, trailers, <<b>> \o z) = Outcome("bad", <<>>, z)
         /\ LineThenBody(n, trailers, <<>>) = More
  BY LineStep, NothingLeft DEF LineThenBody, FeedThenBody, More

LEMMA SizeLFStep ==
  ASSUME NEW n, NEW trailers, NEW b \in Bytes, NEW z \in Seq(Bytes)
  PROVE  /\ b = LF => FeedThenBody(n, trailers, <<b>> \o z) = Body(n, trailers, z)
         /\ b # LF => FeedThenBody(n, trailers, <<b>> \o z) = Outcome("bad", <<>>, z)
         /\ FeedThenBody(n, trailers, <<>>) = More
  BY FeedStep, NothingLeft DEF FeedThenBody, More

LEMMA DataLFStep ==
  ASSUME NEW trailers, NEW b \in Bytes, NEW z \in Seq(Bytes)
  PROVE  /\ b = LF => FeedThenNext(trailers, <<b>> \o z) = Whole(trailers)[z]
         /\ b # LF => FeedThenNext(trailers, <<b>> \o z) = Outcome("bad", <<>>, z)
         /\ FeedThenNext(trailers, <<>>) = More
  BY FeedStep, NothingLeft DEF FeedThenNext, More

LEMMA DataCRStep ==
  ASSUME NEW trailers, NEW b \in Bytes, NEW z \in Seq(Bytes)
  PROVE  /\ b = CR => ChunkTail(trailers, <<b>> \o z) = FeedThenNext(trailers, z)
         /\ b # CR => ChunkTail(trailers, <<b>> \o z) = Outcome("bad", <<>>, z)
         /\ ChunkTail(trailers, <<>>) = More
<1>1. (<<b>> \o z)[1] = b /\ <<b>> \o z # <<>> /\ Drop(<<b>> \o z, 1) = z
  <2>1. 0 \in 0..Len(z) /\ 1 + 0 = 1 /\ Drop(z, 0) = z
    BY DropNone
  <2> QED BY <2>1, FrontIs
<1>2. b = CR => DataEnd(<<b>> \o z) = Line(<<b>> \o z)
  BY <1>1 DEF DataEnd
<1>3. b # CR => DataEnd(<<b>> \o z) = Piece("bad", 1)
  BY <1>1 DEF DataEnd
<1>4. DataEnd(<<>>) = Line(<<>>)
  BY DEF DataEnd
<1>5. b # CR => ChunkTail(trailers, <<b>> \o z) = Outcome("bad", <<>>, z)
  BY <1>1, <1>3 DEF ChunkTail, TailStep, After, Piece
<1>6. b = CR => ChunkTail(trailers, <<b>> \o z) = FeedThenNext(trailers, z)
  BY <1>2, LineStep DEF ChunkTail, TailStep, FeedThenNext
<1>7. ChunkTail(trailers, <<>>) = More
  BY <1>4, NothingLeft DEF ChunkTail, TailStep, More
<1> QED BY <1>5, <1>6, <1>7

LEMMA TrailerFirst ==
  ASSUME NEW b \in Bytes, NEW z \in Seq(Bytes)
  PROVE  /\ b \notin {CR, LF} => Trailer[<<b>> \o z] = LineThenTrailer(z)
         /\ b = CR => Trailer[<<b>> \o z] = FeedThenDone(z)
         /\ b = LF => Trailer[<<b>> \o z] = Outcome("bad", <<>>, z)
         /\ Trailer[<<>>] = More
<1>1. (<<b>> \o z)[1] = b /\ <<b>> \o z \in Seq(Bytes) /\ <<>> \in Seq(Bytes)
  BY FrontIs
<1>2. Trailer[<<b>> \o z] = TrailerStep(<<b>> \o z, Trailer) /\ Trailer[<<>>] = TrailerStep(<<>>, Trailer)
  BY <1>1, TrailerRec
<1>3. Trailer[<<>>] = More
  BY <1>2, NothingLeft DEF TrailerStep, More
<1>4. b \notin {CR, LF} => TrailerStep(<<b>> \o z, Trailer) = LineThenTrailer(z)
  BY <1>1, LineStep DEF TrailerStep, LineThenTrailer
<1>5. b = CR => TrailerStep(<<b>> \o z, Trailer) = FeedThenDone(z)
  BY <1>1, LineStep DEF TrailerStep, FeedThenDone
<1>6. b = LF => TrailerStep(<<b>> \o z, Trailer) = Outcome("bad", <<>>, z)
  BY LineStep DEF TrailerStep
<1> QED BY <1>2, <1>3, <1>4, <1>5, <1>6

LEMMA TrailerNext ==
  ASSUME NEW b \in Bytes, NEW z \in Seq(Bytes)
  PROVE  /\ b \notin {CR, LF} => LineThenTrailer(<<b>> \o z) = LineThenTrailer(z)
         /\ b = CR => LineThenTrailer(<<b>> \o z) = FeedThenTrailer(z)
         /\ b = LF => LineThenTrailer(<<b>> \o z) = Outcome("bad", <<>>, z)
         /\ LineThenTrailer(<<>>) = More
         /\ b = LF => FeedThenTrailer(<<b>> \o z) = Trailer[z]
         /\ b # LF => FeedThenTrailer(<<b>> \o z) = Outcome("bad", <<>>, z)
         /\ FeedThenTrailer(<<>>) = More
         /\ b = LF => FeedThenDone(<<b>> \o z) = Outcome("done", <<>>, z)
         /\ b # LF => FeedThenDone(<<b>> \o z) = Outcome("bad", <<>>, z)
         /\ FeedThenDone(<<>>) = More
<1>1. /\ b \notin {CR, LF} => LineThenTrailer(<<b>> \o z) = LineThenTrailer(z)
      /\ b = CR => LineThenTrailer(<<b>> \o z) = FeedThenTrailer(z)
      /\ b = LF => LineThenTrailer(<<b>> \o z) = Outcome("bad", <<>>, z)
      /\ LineThenTrailer(<<>>) = More
  BY LineStep, NothingLeft DEF LineThenTrailer, FeedThenTrailer, More
<1>2. /\ b = LF => FeedThenTrailer(<<b>> \o z) = Trailer[z]
      /\ b # LF => FeedThenTrailer(<<b>> \o z) = Outcome("bad", <<>>, z)
      /\ FeedThenTrailer(<<>>) = More
  BY FeedStep, NothingLeft DEF FeedThenTrailer, More
<1>3. /\ b = LF => FeedThenDone(<<b>> \o z) = Outcome("done", <<>>, z)
      /\ b # LF => FeedThenDone(<<b>> \o z) = Outcome("bad", <<>>, z)
      /\ FeedThenDone(<<>>) = More
  BY FeedStep, NothingLeft DEF FeedThenDone, More
<1> QED BY <1>1, <1>2, <1>3

(* The size line after some of its digits have been read.                  *)
Spells(ds, n) ==
  ds \in Seq(HexDigits) /\ Len(ds) <= MaxHexDigits /\ Number[ds] = n

LEMMA DigitsText ==
  ASSUME NEW ds \in Seq(HexDigits)
  PROVE  ds \in Seq(Bytes) /\ PlainText(ds)
<1>1. \A i \in 1..Len(ds) : ds[i] \in HexDigits
  OBVIOUS
<1>2. ds \in Seq(Bytes)
  BY Alphabets
<1> QED BY <1>1, <1>2, Alphabets DEF PlainText

LEMMA BytesJoin ==
  ASSUME NEW x \in Seq(Bytes), NEW y \in Seq(Bytes), NEW w, w = x \o y
  PROVE  /\ w \in Seq(Bytes) /\ Len(w) = Len(x) + Len(y)
         /\ \A i \in 1..Len(x) : w[i] = x[i]
         /\ \A i \in 1..Len(y) : w[Len(x) + i] = y[i]
  OBVIOUS

LEMMA SizeSplit ==
  ASSUME NEW ds \in Seq(HexDigits), NEW b \in Bytes, b \notin HexDigits, NEW z \in Seq(Bytes)
  PROVE  /\ ds \o (<<b>> \o z) \in Seq(Bytes) /\ Len(ds) \in Nat
         /\ Digits(ds \o (<<b>> \o z)) = Len(ds)
         /\ Len(ds) # Len(ds \o (<<b>> \o z))
         /\ (ds \o (<<b>> \o z))[Len(ds) + 1] = b
         /\ Size(ds \o (<<b>> \o z)) = Number[ds]
         /\ Drop(ds \o (<<b>> \o z), Len(ds) + 1) = z
<1> DEFINE y == <<b>> \o z
           w == ds \o y
<1>1. y \in Seq(Bytes) /\ Len(y) = 1 + Len(z) /\ y[1] = b /\ Drop(y, 1) = z /\ Len(z) \in Nat
  <2>1. 0 \in 0..Len(z) /\ 1 + 0 = 1 /\ Drop(z, 0) = z
    BY DropNone
  <2> QED BY <2>1, FrontIs
<1>2. ds \in Seq(Bytes) /\ \A i \in 1..Len(ds) : ds[i] \in HexDigits
  BY DigitsText
<1> HIDE DEF y
<1>3. w \in Seq(Bytes) /\ Len(w) = Len(ds) + Len(y) /\ Len(ds) \in Nat
      /\ (\A i \in 1..Len(ds) : w[i] = ds[i]) /\ w[Len(ds) + 1] = b
  <2>1. 1 \in 1..Len(y)
    BY <1>1
  <2>2. w \in Seq(Bytes) /\ Len(w) = Len(ds) + Len(y) /\ (\A i \in 1..Len(ds) : w[i] = ds[i])
        /\ \A i \in 1..Len(y) : w[Len(ds) + i] = y[i]
    <3>1. w = ds \o y
      OBVIOUS
    <3> HIDE DEF w
    <3> QED BY <1>1, <1>2, <3>1, BytesJoin
  <2> HIDE DEF w
  <2> QED BY <1>1, <2>1, <2>2
<1>4. Drop(w, Len(ds) + 1) = z
  <2>1. 1 \in 0..Len(y)
    BY <1>1
  <2> QED BY <1>1, <1>2, <2>1, DropJoin
<1> HIDE DEF w
<1>5. DigitsEnd(w, Len(ds))
  <2>1. Len(ds) \in 0..Len(w) /\ \A j \in 1..Len(ds) : w[j] \in HexDigits
    BY <1>1, <1>2, <1>3
  <2> QED BY <1>3, <2>1 DEF DigitsEnd
<1>6. Digits(w) = Len(ds)
  BY <1>3, <1>5, DigitsIs
<1>7. SubSeq(w, 1, Len(ds)) = ds
  <2>1. Len(ds) \in 0..Len(w)
    BY <1>1, <1>3
  <2>2. SubSeq(w, 1, Len(ds)) \in Seq(Bytes) /\ Len(SubSeq(w, 1, Len(ds))) = Len(ds)
        /\ \A i \in 1..Len(ds) : SubSeq(w, 1, Len(ds))[i] = w[i]
    BY <1>3, <2>1, TakeIs
  <2> QED BY <1>2, <1>3, <2>2, SameSeq
<1>8. Size(w) = Number[ds]
  BY <1>6, <1>7 DEF Size
<1>9. Len(ds) # Len(w)
  BY <1>1, <1>3
<1> QED BY <1>3, <1>4, <1>6, <1>8, <1>9 DEF w, y

LEMMA SizeEnds ==
  ASSUME NEW trailers \in BOOLEAN, NEW ds, NEW n, Spells(ds, n), NEW z \in Seq(Bytes)
  PROVE  /\ Whole(trailers)[ds \o (<<SEMI>> \o z)] = LineThenBody(n, trailers, z)
         /\ Len(ds) > 0 => Whole(trailers)[ds \o (<<CR>> \o z)] = FeedThenBody(n, trailers, z)
<1>0. ds \in Seq(HexDigits) /\ Len(ds) \in Nat /\ Len(ds) <= MaxHexDigits /\ MaxHexDigits \in Nat /\ Number[ds] = n
      /\ ds \in Seq(Bytes) /\ PlainText(ds)
  BY WidthAssumption, DigitsText DEF Spells
<1>1. ASSUME NEW b \in {SEMI, CR}, b = CR => Len(ds) > 0
      PROVE  Whole(trailers)[ds \o (<<b>> \o z)] = LineThenBody(n, trailers, <<b>> \o z)
  <2> DEFINE y == <<b>> \o z
             w == ds \o y
  <2>1. b \in Bytes /\ b \notin HexDigits
    BY Alphabets
  <2>2. w \in Seq(Bytes) /\ Digits(w) = Len(ds) /\ Len(ds) # Len(w) /\ w[Len(ds) + 1] = b /\ Size(w) = n
    BY <1>0, <2>1, SizeSplit
  <2>3. y \in Seq(Bytes)
    BY <2>1, FrontIs
  <2> HIDE DEF y
  <2>4. Line(w) = Piece(Line(y).kind, Len(ds) + Line(y).used) /\ PieceOf(Line(y), y)
    BY <1>0, <2>3, LineText, LineTyped
  <2>5. /\ Drop(w, Len(ds) + Line(y).used) = Drop(y, Line(y).used)
        /\ \A o : After(Piece(Line(y).kind, Len(ds) + Line(y).used), w, o) = After(Line(y), y, o)
    BY <1>0, <2>3, <2>4, AfterJoin
  <2> HIDE DEF w
  <2>6. SizeLine(w, FALSE) = Line(w)
    BY <1>0, <1>1, <2>2, Alphabets DEF SizeLine
  <2>7. Line(w).used = Len(ds) + Line(y).used
    BY <2>4 DEF Piece
  <2>8. Whole(trailers)[w] = After(Line(w), w, Body(n, trailers, Drop(w, Line(w).used)))
    BY <2>2, <2>6, DecodeRec DEF DecodeStep, Body
  <2>9. Whole(trailers)[w] = LineThenBody(n, trailers, y)
    BY <2>4, <2>5, <2>7, <2>8 DEF LineThenBody
  <2> QED BY <2>9 DEF w, y
<1>2. LineThenBody(n, trailers, <<SEMI>> \o z) = LineThenBody(n, trailers, z)
      /\ LineThenBody(n, trailers, <<CR>> \o z) = FeedThenBody(n, trailers, z)
  BY Alphabets, ExtensionStep
<1> QED BY <1>1, <1>2, Alphabets

LEMMA SizeMore ==
  ASSUME NEW trailers \in BOOLEAN, NEW ds, NEW n, Spells(ds, n)
  PROVE  Whole(trailers)[ds] = More
<1>0. ds \in Seq(HexDigits) /\ Len(ds) \in Nat /\ Len(ds) <= MaxHexDigits /\ MaxHexDigits \in Nat
      /\ ds \in Seq(Bytes)
  BY WidthAssumption, DigitsText DEF Spells
<1>1. DigitsEnd(ds, Len(ds))
  BY <1>0 DEF DigitsEnd
<1>2. Digits(ds) = Len(ds)
  BY <1>0, <1>1, DigitsIs
<1>3. SizeLine(ds, FALSE) = Piece("more", Len(ds))
  BY <1>0, <1>2 DEF SizeLine
<1>4. Drop(ds, Len(ds)) = <<>>
  BY <1>0, DropNone
<1>5. DecodeStep(trailers, ds, Whole(trailers)) = More
  <2> DEFINE p == SizeLine(ds, FALSE)
  <2> HIDE DEF p
  <2>1. p = Piece("more", Len(ds))
    BY <1>3 DEF p
  <2>2. p.kind = "more" /\ p.used = Len(ds)
    BY <2>1 DEF Piece
  <2> QED BY <1>4, <2>2 DEF DecodeStep, After, More, p
<1> QED BY <1>0, <1>5, DecodeRec

LEMMA SizeBad ==
  ASSUME NEW trailers \in BOOLEAN, NEW ds, NEW n, Spells(ds, n), NEW b \in Bytes, NEW z \in Seq(Bytes),
         b \in HexDigits => Len(ds) = MaxHexDigits, b # SEMI, b = CR => Len(ds) = 0
  PROVE  Whole(trailers)[ds \o (<<b>> \o z)] = Outcome("bad", <<>>, z)
<1> DEFINE y == <<b>> \o z
           w == ds \o y
<1>0. ds \in Seq(HexDigits) /\ Len(ds) \in Nat /\ Len(ds) <= MaxHexDigits /\ MaxHexDigits \in Nat
      /\ ds \in Seq(Bytes)
  BY WidthAssumption, DigitsText DEF Spells
<1>1. y \in Seq(Bytes) /\ Len(y) = 1 + Len(z) /\ y[1] = b /\ Drop(y, 1) = z /\ Len(z) \in Nat
  <2>1. 0 \in 0..Len(z) /\ 1 + 0 = 1 /\ Drop(z, 0) = z
    BY DropNone
  <2> QED BY <2>1, FrontIs
<1> HIDE DEF y
<1>2. w \in Seq(Bytes) /\ Len(w) = Len(ds) + Len(y) /\ (\A i \in 1..Len(ds) : w[i] = ds[i])
      /\ w[Len(ds) + 1] = b /\ Drop(w, Len(ds) + 1) = z
  <2>1. 1 \in 1..Len(y) /\ 1 \in 0..Len(y)
    BY <1>1
  <2>2. w \in Seq(Bytes) /\ Len(w) = Len(ds) + Len(y) /\ (\A i \in 1..Len(ds) : w[i] = ds[i])
        /\ \A i \in 1..Len(y) : w[Len(ds) + i] = y[i]
    <3>1. w = ds \o y
      OBVIOUS
    <3> HIDE DEF w
    <3>2. ds \in Seq(Bytes) /\ y \in Seq(Bytes)
      BY <1>0, <1>1
    <3> QED BY <3>1, <3>2, BytesJoin
  <2>3. Drop(w, Len(ds) + 1) = z
    BY <1>0, <1>1, <2>1, DropJoin
  <2> HIDE DEF w
  <2> QED BY <1>1, <2>1, <2>2, <2>3
<1>3. SizeLine(w, FALSE) = Piece("bad", Len(ds) + 1)
  <2>1. CASE b \in HexDigits
    <3> DEFINE k == Digits(w)
    <3> HIDE DEF w
    <3>1. k \in 0..Len(w) /\ k \in Nat /\ (k < Len(w) => w[k + 1] \notin HexDigits)
      BY <1>2, DigitsCases DEF DigitsEnd
    <3> HIDE DEF k
    <3>2. \A i \in 1..Len(ds) + 1 : w[i] \in HexDigits
      BY <1>0, <1>2, <2>1
    <3>3. k > Len(ds)
      <4> SUFFICES ASSUME k <= Len(ds) PROVE FALSE
        BY <1>0, <3>1
      <4>1. k < Len(w) /\ k + 1 \in 1..Len(ds) + 1
        BY <1>0, <1>1, <1>2, <3>1
      <4> QED BY <3>1, <3>2, <4>1
    <3>4. Digits(w) > MaxHexDigits /\ MaxHexDigits + 1 = Len(ds) + 1
      BY <2>1, <3>3 DEF k
    <3> QED BY <3>4 DEF SizeLine
  <2>2. CASE b \notin HexDigits
    <3>1. Digits(w) = Len(ds) /\ Len(ds) # Len(w)
      BY <1>0, <2>2, SizeSplit DEF w, y
    <3> HIDE DEF w
    <3>2. w[Len(ds) + 1] # SEMI /\ ~(w[Len(ds) + 1] = CR /\ Len(ds) > 0)
      BY <1>0, <1>2
    <3> QED BY <1>0, <3>1, <3>2 DEF SizeLine
  <2> QED BY <2>1, <2>2
<1> HIDE DEF w
<1>4. DecodeStep(trailers, w, Whole(trailers)) = Outcome("bad", <<>>, z)
  <2> DEFINE p == SizeLine(w, FALSE)
  <2> HIDE DEF p
  <2>1. p = Piece("bad", Len(ds) + 1)
    BY <1>3 DEF p
  <2>2. p.kind = "bad" /\ p.used = Len(ds) + 1
    BY <2>1 DEF Piece
  <2> QED BY <1>2, <2>2 DEF DecodeStep, After, p
<1>5. Whole(trailers)[w] = Outcome("bad", <<>>, z)
  BY <1>2, <1>4, DecodeRec
<1> QED BY <1>5 DEF w, y

(* The data of a chunk, one or many bytes at a time.                       *)
LEMMA PrependTwice ==
  ASSUME NEW x \in Seq(Bytes), NEW y \in Seq(Bytes), NEW o \in Outcomes
  PROVE  Prepend(x, Prepend(y, o)) = Prepend(x \o y, o)
<1>1. o.payload \in Seq(Bytes)
  BY OutcomeParts
<1>2. x \o (y \o o.payload) = (x \o y) \o o.payload
  <2> DEFINE p == o.payload
  <2>1. p \in Seq(Bytes)
    BY <1>1
  <2> HIDE DEF p
  <2>2. (x \o y) \o p = x \o (y \o p)
    BY <2>1, JoinAssoc
  <2> QED BY <2>2 DEF p
<1> QED BY <1>2 DEF Prepend, Outcome

LEMMA PrependNothing ==
  ASSUME NEW o \in Outcomes
  PROVE  Prepend(<<>>, o) = o
<1>1. o.payload \in Seq(Bytes) /\ o = Outcome(o.kind, o.payload, o.rest)
  BY OutcomeParts
<1>2. <<>> \o o.payload = o.payload
  BY <1>1, JoinEmpty
<1> QED BY <1>1, <1>2 DEF Prepend

LEMMA RestTyped ==
  ASSUME NEW n \in Nat, NEW trailers \in BOOLEAN, NEW z \in Seq(Bytes)
  PROVE  Body(n, trailers, z) \in Outcomes /\ ChunkTail(trailers, z) \in Outcomes
<1>1. Body(n, trailers, z) \in Outcomes
  BY DecodeRec, BodyTyped DEF Body
<1>2. Drop(z, DataEnd(z).used) \in Seq(Bytes)
  BY DataEndTyped, DropShorter
<1>3. ChunkTail(trailers, z) \in Outcomes
  BY <1>2, DecodeRec, TailTyped DEF ChunkTail
<1> QED BY <1>1, <1>3

LEMMA TakeJoin ==
  ASSUME NEW x \in Seq(Bytes), NEW z \in Seq(Bytes), NEW k \in 0..Len(z)
  PROVE  SubSeq(x \o z, 1, Len(x) + k) = x \o SubSeq(z, 1, k)
<1> DEFINE w == x \o z
           u == SubSeq(z, 1, k)
<1>1. w = x \o z /\ Len(x) \in Nat /\ Len(z) \in Nat /\ k \in Nat
  OBVIOUS
<1>2. u \in Seq(Bytes) /\ Len(u) = k /\ \A i \in 1..k : u[i] = z[i]
  BY TakeIs
<1> HIDE DEF w, u
<1>3. w \in Seq(Bytes) /\ Len(w) = Len(x) + Len(z) /\ (\A i \in 1..Len(x) : w[i] = x[i])
      /\ \A i \in 1..Len(z) : w[Len(x) + i] = z[i]
  BY <1>1, BytesJoin
<1> DEFINE l == SubSeq(w, 1, Len(x) + k)
           r == x \o u
<1>4. Len(x) + k \in 0..Len(w)
  BY <1>1, <1>3
<1>5. l \in Seq(Bytes) /\ Len(l) = Len(x) + k /\ \A i \in 1..Len(x) + k : l[i] = w[i]
  BY <1>3, <1>4, TakeIs
<1>6. r = x \o u
  OBVIOUS
<1> HIDE DEF l, r
<1>7. r \in Seq(Bytes) /\ Len(r) = Len(x) + k /\ (\A i \in 1..Len(x) : r[i] = x[i])
      /\ \A i \in 1..k : r[Len(x) + i] = u[i]
  <2>1. r \in Seq(Bytes) /\ Len(r) = Len(x) + Len(u) /\ (\A i \in 1..Len(x) : r[i] = x[i])
        /\ \A i \in 1..Len(u) : r[Len(x) + i] = u[i]
    <3>1. u \in Seq(Bytes)
      BY <1>2
    <3> QED BY <1>6, <3>1, BytesJoin
  <2> QED BY <1>2, <2>1
<1>8. ASSUME NEW i \in 1..Len(x) + k PROVE l[i] = r[i]
  <2>1. CASE i <= Len(x)
    <3>1. i \in 1..Len(x)
      BY <1>1, <2>1
    <3> QED BY <1>3, <1>5, <1>7, <3>1
  <2>2. CASE i > Len(x)
    <3>1. i - Len(x) \in 1..k /\ i - Len(x) \in 1..Len(z) /\ Len(x) + (i - Len(x)) = i
      BY <1>1, <2>2
    <3>2. w[i] = z[i - Len(x)] /\ r[i] = u[i - Len(x)]
      BY <1>3, <1>7, <3>1
    <3> QED BY <1>2, <1>5, <3>1, <3>2
  <2> QED BY <1>1, <2>1, <2>2
<1>9. l = r
  BY <1>5, <1>7, <1>8, SameSeq
<1> QED BY <1>9 DEF l, r, w, u

LEMMA DataStep ==
  ASSUME NEW n \in Nat, NEW trailers \in BOOLEAN, NEW x \in Seq(Bytes), NEW z \in Seq(Bytes),
         Len(x) \in 1..n
  PROVE  Body(n, trailers, x \o z) =
           Prepend(x, IF n - Len(x) = 0 THEN ChunkTail(trailers, z)
                                        ELSE Body(n - Len(x), trailers, z))
<1> DEFINE m == n - Len(x)
           k == Smaller(m, Len(z))
           r == x \o z
<1>1. n # 0 /\ m \in Nat /\ k \in 0..Len(z) /\ Len(x) \in Nat /\ Len(z) \in Nat
  BY DEF Smaller
<1>2. r \in Seq(Bytes) /\ Len(r) = Len(x) + Len(z)
  BY JoinIs
<1>3. Smaller(n, Len(r)) = Len(x) + k
  BY <1>1, <1>2 DEF Smaller
<1>4. Drop(r, Len(x) + k) = Drop(z, k)
  BY <1>1, DropJoin
<1>5. SubSeq(r, 1, Len(x) + k) = x \o SubSeq(z, 1, k)
  BY <1>1, TakeJoin
<1>6. SubSeq(z, 1, k) \in Seq(Bytes) /\ Len(SubSeq(z, 1, k)) = k
  BY <1>1, TakeIs
<1> HIDE DEF m, k, r
<1>7. Data(n, r) = x \o SubSeq(z, 1, k)
  BY <1>3, <1>5 DEF Data
<1>8. Len(Data(n, r)) = Len(x) + k
  BY <1>6, <1>7, JoinIs
<1>9. Body(n, trailers, r) = Prepend(x \o SubSeq(z, 1, k), ChunkTail(trailers, Drop(z, k)))
  BY <1>1, <1>4, <1>7, <1>8 DEF Body, BodyStep, ChunkTail
<1>10. Drop(z, k) \in Seq(Bytes)
  BY <1>1, DropIs
<1>11. ChunkTail(trailers, Drop(z, k)) \in Outcomes
  BY <1>1, <1>10, RestTyped
<1>12. Body(n, trailers, r) = Prepend(x, Prepend(SubSeq(z, 1, k), ChunkTail(trailers, Drop(z, k))))
  BY <1>6, <1>9, <1>11, PrependTwice
<1>13. CASE m = 0
  <2>1. k = 0
    BY <1>1, <1>13 DEF k, Smaller
  <2>2. SubSeq(z, 1, 0) = <<>> /\ Drop(z, 0) = z
    <3>1. Len(SubSeq(z, 1, 0)) = 0 /\ SubSeq(z, 1, 0) \in Seq(Bytes)
      BY <1>6, <2>1
    <3> QED BY <3>1, EmptySeq, DropNone
  <2>3. Body(n, trailers, r) = Prepend(x, ChunkTail(trailers, z))
    BY <1>11, <1>12, <2>1, <2>2, PrependNothing
  <2> QED BY <1>13, <2>3 DEF m, r
<1>14. CASE m # 0
  <2>1. Body(m, trailers, z) = Prepend(SubSeq(z, 1, k), ChunkTail(trailers, Drop(z, k)))
    <3>1. Data(m, z) = SubSeq(z, 1, k)
      BY DEF Data, k
    <3> QED BY <1>6, <1>14, <3>1 DEF Body, BodyStep, ChunkTail
  <2> QED BY <1>12, <1>14, <2>1 DEF m, r
<1> QED BY <1>13, <1>14

LEMMA DataMore ==
  ASSUME NEW n \in Nat, n # 0, NEW trailers \in BOOLEAN
  PROVE  Body(n, trailers, <<>>) = More
<1>1. <<>> \in Seq(Bytes) /\ Len(<<>>) = 0 /\ CR \in Bytes
  BY Alphabets
<1>2. Smaller(n, 0) = 0
  BY DEF Smaller
<1>3. Data(n, <<>>) \in Seq(Bytes) /\ Len(Data(n, <<>>)) = 0
  BY <1>1, <1>2, DataTyped
<1>4. Data(n, <<>>) = <<>>
  BY <1>3, EmptySeq
<1>5. Drop(<<>>, 0) = <<>>
  BY <1>1, DropNone
<1>6. ChunkTail(trailers, <<>>) = More
  BY <1>1, DataCRStep
<1>7. Body(n, trailers, <<>>) = Prepend(<<>>, ChunkTail(trailers, <<>>))
  BY <1>1, <1>4, <1>5 DEF Body, BodyStep, ChunkTail
<1>8. More \in Outcomes
  BY <1>1, OutcomeTyped DEF More
<1> QED BY <1>6, <1>7, <1>8, PrependNothing

-----------------------------------------------------------------------------
(* What decoding in one piece makes of the bytes z to come, when the       *)
(* stream is in phase ph, has read the digits ds of a size, or is to read  *)
(* n bytes.                                                                *)
Resume(ph, ds, n, trailers, z) ==
  CASE ph = "size"         -> Whole(trailers)[ds \o z]
    [] ph = "extension"    -> LineThenBody(n, trailers, z)
    [] ph = "size LF"      -> FeedThenBody(n, trailers, z)
    [] ph = "data"         -> Body(n, trailers, z)
    [] ph = "data CR"      -> ChunkTail(trailers, z)
    [] ph = "data LF"      -> FeedThenNext(trailers, z)
    [] ph = "trailer"      -> Trailer[z]
    [] ph = "trailer line" -> LineThenTrailer(z)
    [] ph = "trailer LF"   -> FeedThenTrailer(z)
    [] ph = "last LF"      -> FeedThenDone(z)
    [] OTHER               -> Outcome("done", <<>>, z)

Framing == {"size", "extension", "size LF", "data CR", "data LF",
            "trailer", "trailer line", "trailer LF", "last LF"}

Continues(ph, ds, n, trailers, read, payload) ==
  \A z \in Seq(Bytes) :
    Whole(trailers)[read \o z] = Prepend(payload, Resume(ph, ds, n, trailers, z))

(* What has been read is, to the grammar, what the stream made of it:      *)
(* whatever comes next, decoding all in one piece gives the payload so far *)
(* and then what the phase makes of the rest.                              *)
Reads(ph, k, n, trailers, read, payload) ==
  IF ph = "bad" THEN Whole(trailers)[read].kind = "bad" /\ Whole(trailers)[read].rest = <<>>
  ELSE /\ ph \in Framing \cup {"data", "done"}
       /\ ph # "size" => k = 0
       /\ ph = "data" => n # 0
       /\ ph \in {"data CR", "data LF"} => n = 0
       /\ \E ds : /\ ph = "size" => Spells(ds, n) /\ Len(ds) = k
                  /\ Continues(ph, ds, n, trailers, read, payload)

(* One byte more: b takes the stream from phase ph to phase to.            *)
Takes(b, ph, ds, n, to, ds2, n2, trailers) ==
  \A z \in Seq(Bytes) : Resume(ph, ds, n, trailers, <<b>> \o z) = Resume(to, ds2, n2, trailers, z)

LEMMA ByteContinues ==
  ASSUME NEW ph, NEW ds, NEW n, NEW trailers, NEW read \in Seq(Bytes), NEW payload,
         Continues(ph, ds, n, trailers, read, payload),
         NEW ph2, NEW ds2, NEW n2, NEW b \in Bytes, Takes(b, ph, ds, n, ph2, ds2, n2, trailers)
  PROVE  Continues(ph2, ds2, n2, trailers, Append(read, b), payload)
<1> SUFFICES ASSUME NEW z \in Seq(Bytes)
             PROVE  Whole(trailers)[Append(read, b) \o z] = Prepend(payload, Resume(ph2, ds2, n2, trailers, z))
  BY DEF Continues
<1>1. <<b>> \o z \in Seq(Bytes) /\ <<b>> \in Seq(Bytes)
  BY FrontIs
<1>2. Append(read, b) = read \o <<b>>
  BY AppendIsConcat
<1>3. (read \o <<b>>) \o z = read \o (<<b>> \o z)
  <2> DEFINE x == <<b>>
  <2> HIDE DEF x
  <2>1. x \in Seq(Bytes)
    BY <1>1 DEF x
  <2>2. (read \o x) \o z = read \o (x \o z)
    BY <2>1, JoinAssoc
  <2> QED BY <2>2 DEF x
<1>4. Append(read, b) \o z = read \o (<<b>> \o z)
  BY <1>2, <1>3, Zenon
<1>5. Whole(trailers)[read \o (<<b>> \o z)] = Prepend(payload, Resume(ph, ds, n, trailers, <<b>> \o z))
  BY <1>1, Zenon DEF Continues
<1>6. Resume(ph, ds, n, trailers, <<b>> \o z) = Resume(ph2, ds2, n2, trailers, z)
  BY DEF Takes
<1> QED BY <1>4, <1>5, <1>6, Zenon

LEMMA ByteBad ==
  ASSUME NEW ph, NEW ds, NEW n, NEW trailers, NEW read \in Seq(Bytes), NEW payload,
         Continues(ph, ds, n, trailers, read, payload),
         NEW b \in Bytes, Resume(ph, ds, n, trailers, <<b>> \o <<>>) = Outcome("bad", <<>>, <<>>)
  PROVE  Whole(trailers)[Append(read, b)].kind = "bad" /\ Whole(trailers)[Append(read, b)].rest = <<>>
<1>1. <<b>> \o <<>> \in Seq(Bytes) /\ <<b>> \o <<>> = <<b>>
  OBVIOUS
<1>2. Append(read, b) = read \o <<b>>
  BY AppendIsConcat
<1>3. Whole(trailers)[read \o (<<b>> \o <<>>)] = Prepend(payload, Resume(ph, ds, n, trailers, <<b>> \o <<>>))
  BY <1>1, Zenon DEF Continues
<1>4. Whole(trailers)[Append(read, b)] = Prepend(payload, Outcome("bad", <<>>, <<>>))
  BY <1>1, <1>2, <1>3, Zenon
<1> DEFINE o == Whole(trailers)[Append(read, b)]
<1> HIDE DEF o
<1>5. o = Prepend(payload, Outcome("bad", <<>>, <<>>))
  BY <1>4 DEF o
<1>6. o.kind = "bad" /\ o.rest = <<>>
  BY <1>5 DEF Prepend, Outcome
<1> QED BY <1>6 DEF o

LEMMA DigitReads ==
  ASSUME NEW k \in Nat, NEW n \in Nat, NEW trailers, NEW read \in Seq(Bytes), NEW payload,
         Reads("size", k, n, trailers, read, payload), NEW b \in HexDigits, k < MaxHexDigits
  PROVE  Reads("size", k + 1, 16 * n + HexValue[b], trailers, Append(read, b), payload)
<1>1. PICK ds : Spells(ds, n) /\ Len(ds) = k /\ Continues("size", ds, n, trailers, read, payload)
  BY DEF Reads
<1>2. ds \in Seq(HexDigits) /\ b \in Bytes /\ Number[ds] = n /\ ds \in Seq(Bytes)
  BY <1>1, Alphabets, DigitsText DEF Spells
<1>3. ds \o <<b>> \in Seq(HexDigits) /\ Len(ds \o <<b>>) = k + 1
  BY <1>1, <1>2, LastIs
<1>4. Number[ds \o <<b>>] = 16 * n + HexValue[b]
  BY <1>2, NumberRec
<1>5. Spells(ds \o <<b>>, 16 * n + HexValue[b])
  BY <1>3, <1>4, WidthAssumption DEF Spells
<1>6. ASSUME NEW z \in Seq(Bytes)
      PROVE  Resume("size", ds, n, trailers, <<b>> \o z) = Resume("size", ds \o <<b>>, 16 * n + HexValue[b], trailers, z)
  <2> DEFINE x == <<b>>
  <2>1. x \in Seq(Bytes)
    BY <1>2
  <2> HIDE DEF x
  <2>2. (ds \o x) \o z = ds \o (x \o z)
    BY <1>2, <2>1, JoinAssoc
  <2>3. /\ Resume("size", ds, n, trailers, x \o z) = Whole(trailers)[ds \o (x \o z)]
        /\ Resume("size", ds \o x, 16 * n + HexValue[b], trailers, z) = Whole(trailers)[(ds \o x) \o z]
    BY DEF Resume
  <2>4. Resume("size", ds, n, trailers, x \o z) = Resume("size", ds \o x, 16 * n + HexValue[b], trailers, z)
    BY <2>2, <2>3, Zenon
  <2> QED BY <2>4 DEF x
<1>7. Continues("size", ds \o <<b>>, 16 * n + HexValue[b], trailers, Append(read, b), payload)
  <2>1. Takes(b, "size", ds, n, "size", ds \o <<b>>, 16 * n + HexValue[b], trailers)
    BY <1>6 DEF Takes
  <2> QED BY <1>1, <1>2, <2>1, ByteContinues
<1> QED BY <1>3, <1>5, <1>7 DEF Reads, Framing

(* The same, whatever the digits read.                                     *)
DigitsOf(ph, ds, k, n) == ph = "size" => Spells(ds, n) /\ Len(ds) = k
CanTake(b, ph, k, n, to, trailers) ==
  \A ds : DigitsOf(ph, ds, k, n) => Takes(b, ph, ds, n, to, ds, n, trailers)
CannotTake(b, ph, k, n, trailers) ==
  \A ds : DigitsOf(ph, ds, k, n) => Resume(ph, ds, n, trailers, <<b>> \o <<>>) = Outcome("bad", <<>>, <<>>)

LEMMA MoveReads ==
  ASSUME NEW ph, NEW k, NEW n, NEW trailers, NEW read \in Seq(Bytes), NEW payload,
         ph # "bad", Reads(ph, k, n, trailers, read, payload),
         NEW b \in Bytes, NEW to \in (Framing \cup {"data", "done"}) \ {"size"},
         to = "data" => n # 0, to \in {"data CR", "data LF"} => n = 0,
         CanTake(b, ph, k, n, to, trailers)
  PROVE  Reads(to, 0, n, trailers, Append(read, b), payload)
<1>1. PICK ds : /\ DigitsOf(ph, ds, k, n)
                /\ Continues(ph, ds, n, trailers, read, payload)
  BY DEF Reads, DigitsOf
<1>2. Takes(b, ph, ds, n, to, ds, n, trailers)
  BY <1>1, Zenon DEF CanTake
<1>3. Continues(to, ds, n, trailers, Append(read, b), payload)
  BY <1>1, <1>2, ByteContinues
<1>4. to # "bad" /\ to # "size"
  BY DEF Framing
<1> QED BY <1>3, <1>4 DEF Reads

LEMMA MoveBad ==
  ASSUME NEW ph, NEW k, NEW n, NEW trailers, NEW read \in Seq(Bytes), NEW payload,
         ph # "bad", Reads(ph, k, n, trailers, read, payload), NEW b \in Bytes,
         CannotTake(b, ph, k, n, trailers)
  PROVE  \A k2, n2, p2 : Reads("bad", k2, n2, trailers, Append(read, b), p2)
<1>1. PICK ds : /\ DigitsOf(ph, ds, k, n)
                /\ Continues(ph, ds, n, trailers, read, payload)
  BY DEF Reads, DigitsOf
<1>2. Resume(ph, ds, n, trailers, <<b>> \o <<>>) = Outcome("bad", <<>>, <<>>)
  BY <1>1, Zenon DEF CannotTake
<1>3. Whole(trailers)[Append(read, b)].kind = "bad" /\ Whole(trailers)[Append(read, b)].rest = <<>>
  BY <1>1, <1>2, ByteBad
<1> QED BY <1>3 DEF Reads

(* The size has ended.                                                     *)
LEMMA SizeEndReads ==
  ASSUME NEW k \in Nat, NEW n \in Nat, NEW trailers \in BOOLEAN, NEW read \in Seq(Bytes), NEW payload,
         Reads("size", k, n, trailers, read, payload)
  PROVE  /\ Reads("extension", 0, n, trailers, Append(read, SEMI), payload)
         /\ k > 0 => Reads("size LF", 0, n, trailers, Append(read, CR), payload)
<1>1. ASSUME NEW ds, Spells(ds, n), NEW z \in Seq(Bytes)
      PROVE  /\ Resume("size", ds, n, trailers, <<SEMI>> \o z) = Resume("extension", ds, n, trailers, z)
             /\ Len(ds) > 0 => Resume("size", ds, n, trailers, <<CR>> \o z) = Resume("size LF", ds, n, trailers, z)
  <2>1. /\ Whole(trailers)[ds \o (<<SEMI>> \o z)] = LineThenBody(n, trailers, z)
        /\ Len(ds) > 0 => Whole(trailers)[ds \o (<<CR>> \o z)] = FeedThenBody(n, trailers, z)
    BY <1>1, SizeEnds
  <2> QED BY <2>1, Zenon DEF Resume
<1>2. SEMI \in Bytes /\ CR \in Bytes
  BY Alphabets
<1>3. {"extension", "size LF"} \subseteq (Framing \cup {"data", "done"}) \ {"size"}
  BY DEF Framing
<1>4. Reads("extension", 0, n, trailers, Append(read, SEMI), payload)
  <2>1. CanTake(SEMI, "size", k, n, "extension", trailers)
    BY <1>1, Zenon DEF CanTake, Takes, DigitsOf
  <2> QED BY <1>2, <1>3, <2>1, MoveReads
<1>5. k > 0 => Reads("size LF", 0, n, trailers, Append(read, CR), payload)
  <2>1. k > 0 => CanTake(CR, "size", k, n, "size LF", trailers)
    BY <1>1, Zenon DEF CanTake, Takes, DigitsOf
  <2> QED BY <1>2, <1>3, <2>1, MoveReads
<1> QED BY <1>4, <1>5

(* The moves of the stream on a byte b from one phase to another.          *)
Moves(b, ph, n, to, trailers) ==
  \/ ph = "extension" /\ to = "extension" /\ b \notin {CR, LF}
  \/ ph = "extension" /\ to = "size LF" /\ b = CR
  \/ ph = "size LF" /\ to = "data" /\ b = LF /\ n > 0
  \/ ph = "size LF" /\ to = "trailer" /\ b = LF /\ n = 0 /\ trailers = TRUE
  \/ ph = "size LF" /\ to = "done" /\ b = LF /\ n = 0 /\ trailers = FALSE
  \/ ph = "data CR" /\ to = "data LF" /\ b = CR
  \/ ph = "trailer" /\ to = "trailer line" /\ b \notin {CR, LF}
  \/ ph = "trailer" /\ to = "last LF" /\ b = CR
  \/ ph = "trailer line" /\ to = "trailer line" /\ b \notin {CR, LF}
  \/ ph = "trailer line" /\ to = "trailer LF" /\ b = CR
  \/ ph = "trailer LF" /\ to = "trailer" /\ b = LF
  \/ ph = "last LF" /\ to = "done" /\ b = LF

LEMMA BodyNone ==
  ASSUME NEW trailers \in BOOLEAN, NEW z
  PROVE  Body(0, trailers, z) = IF trailers THEN Trailer[z] ELSE Outcome("done", <<>>, z)
BY DEF Body, BodyStep

LEMMA MoveResumes ==
  ASSUME NEW n \in Nat, NEW trailers \in BOOLEAN, NEW b \in Bytes, NEW ph, NEW to,
         Moves(b, ph, n, to, trailers), NEW ds, NEW z \in Seq(Bytes)
  PROVE  Resume(ph, ds, n, trailers, <<b>> \o z) = Resume(to, ds, n, trailers, z)
<1> DEFINE y == <<b>> \o z
<1>1. /\ b \notin {CR, LF} => LineThenBody(n, trailers, y) = LineThenBody(n, trailers, z)
      /\ b = CR => LineThenBody(n, trailers, y) = FeedThenBody(n, trailers, z)
      /\ b = LF => FeedThenBody(n, trailers, y) = Body(n, trailers, z)
      /\ b = CR => ChunkTail(trailers, y) = FeedThenNext(trailers, z)
  BY ExtensionStep, SizeLFStep, DataCRStep
<1>2. /\ b \notin {CR, LF} => Trailer[y] = LineThenTrailer(z)
      /\ b = CR => Trailer[y] = FeedThenDone(z)
      /\ b \notin {CR, LF} => LineThenTrailer(y) = LineThenTrailer(z)
      /\ b = CR => LineThenTrailer(y) = FeedThenTrailer(z)
      /\ b = LF => FeedThenTrailer(y) = Trailer[z]
      /\ b = LF => FeedThenDone(y) = Outcome("done", <<>>, z)
  BY TrailerFirst, TrailerNext
<1>3. n = 0 => Body(n, trailers, z) = IF trailers THEN Trailer[z] ELSE Outcome("done", <<>>, z)
  BY BodyNone
<1> HIDE DEF y
<1>4. ASSUME NEW v
      PROVE  /\ Resume("extension", ds, n, trailers, v) = LineThenBody(n, trailers, v)
             /\ Resume("size LF", ds, n, trailers, v) = FeedThenBody(n, trailers, v)
             /\ Resume("data", ds, n, trailers, v) = Body(n, trailers, v)
             /\ Resume("data CR", ds, n, trailers, v) = ChunkTail(trailers, v)
             /\ Resume("data LF", ds, n, trailers, v) = FeedThenNext(trailers, v)
             /\ Resume("trailer", ds, n, trailers, v) = Trailer[v]
             /\ Resume("trailer line", ds, n, trailers, v) = LineThenTrailer(v)
             /\ Resume("trailer LF", ds, n, trailers, v) = FeedThenTrailer(v)
             /\ Resume("last LF", ds, n, trailers, v) = FeedThenDone(v)
             /\ Resume("done", ds, n, trailers, v) = Outcome("done", <<>>, v)
  BY DEF Resume
<1>5. Resume(ph, ds, n, trailers, y) = Resume(to, ds, n, trailers, z)
  <2>1. CASE ph = "extension" /\ to = "extension" /\ b \notin {CR, LF}
    BY <1>1, <1>4, <2>1, Zenon
  <2>2. CASE ph = "extension" /\ to = "size LF" /\ b = CR
    BY <1>1, <1>4, <2>2, Zenon
  <2>3. CASE ph = "size LF" /\ to = "data" /\ b = LF
    BY <1>1, <1>4, <2>3, Zenon
  <2>4. CASE ph = "size LF" /\ to = "trailer" /\ b = LF /\ n = 0 /\ trailers = TRUE
    <3>1. Body(n, trailers, z) = Trailer[z]
      BY <1>3, <2>4
    <3>2. ph = "size LF" /\ to = "trailer" /\ b = LF
      BY <2>4, Zenon
    <3>3. Resume(ph, ds, n, trailers, y) = Body(n, trailers, z)
      BY <1>1, <1>4, <3>2, Zenon
    <3>4. Resume(to, ds, n, trailers, z) = Trailer[z]
      BY <1>4, <3>2, Zenon
    <3> QED BY <3>1, <3>3, <3>4, Zenon
  <2>5. CASE ph = "size LF" /\ to = "done" /\ b = LF /\ n = 0 /\ trailers = FALSE
    <3>1. Body(n, trailers, z) = Outcome("done", <<>>, z)
      BY <1>3, <2>5
    <3>2. ph = "size LF" /\ to = "done" /\ b = LF
      BY <2>5, Zenon
    <3>3. Resume(ph, ds, n, trailers, y) = Body(n, trailers, z)
      BY <1>1, <1>4, <3>2, Zenon
    <3>4. Resume(to, ds, n, trailers, z) = Outcome("done", <<>>, z)
      BY <1>4, <3>2, Zenon
    <3> QED BY <3>1, <3>3, <3>4, Zenon
  <2>6. CASE ph = "data CR" /\ to = "data LF" /\ b = CR
    BY <1>1, <1>4, <2>6, Zenon
  <2>7. CASE ph = "trailer" /\ to = "trailer line" /\ b \notin {CR, LF}
    BY <1>2, <1>4, <2>7, Zenon
  <2>8. CASE ph = "trailer" /\ to = "last LF" /\ b = CR
    BY <1>2, <1>4, <2>8, Zenon
  <2>9. CASE ph = "trailer line" /\ to = "trailer line" /\ b \notin {CR, LF}
    BY <1>2, <1>4, <2>9, Zenon
  <2>10. CASE ph = "trailer line" /\ to = "trailer LF" /\ b = CR
    BY <1>2, <1>4, <2>10, Zenon
  <2>11. CASE ph = "trailer LF" /\ to = "trailer" /\ b = LF
    BY <1>2, <1>4, <2>11, Zenon
  <2>12. CASE ph = "last LF" /\ to = "done" /\ b = LF
    BY <1>2, <1>4, <2>12, Zenon
  <2> QED BY <2>1, <2>2, <2>3, <2>4, <2>5, <2>6, <2>7, <2>8, <2>9, <2>10, <2>11, <2>12, Zenon DEF Moves
<1> QED BY <1>5 DEF y

LEMMA FrameReadsOn ==
  ASSUME NEW k, NEW n \in Nat, NEW trailers \in BOOLEAN, NEW read \in Seq(Bytes), NEW payload,
         NEW b \in Bytes, NEW ph, NEW to, Moves(b, ph, n, to, trailers),
         Reads(ph, k, n, trailers, read, payload)
  PROVE  Reads(to, 0, n, trailers, Append(read, b), payload)
<1>1. /\ ph # "bad" /\ ph # "size"
      /\ to \in (Framing \cup {"data", "done"}) \ {"size"}
      /\ to = "data" => n # 0
      /\ to \in {"data CR", "data LF"} => ph = "data CR"
  <2>1. n > 0 => n # 0
    OBVIOUS
  <2>2. to = "data" => n # 0
    BY <2>1, Zenon DEF Moves
  <2>3. \/ ph = "extension" /\ to \in {"extension", "size LF"}
        \/ ph = "size LF" /\ to \in {"data", "trailer", "done"}
        \/ ph = "data CR" /\ to = "data LF"
        \/ ph = "trailer" /\ to \in {"trailer line", "last LF"}
        \/ ph = "trailer line" /\ to \in {"trailer line", "trailer LF"}
        \/ ph = "trailer LF" /\ to = "trailer"
        \/ ph = "last LF" /\ to = "done"
    BY Zenon DEF Moves
  <2> QED BY <2>2, <2>3 DEF Framing
<1>2. ph = "data CR" => n = 0
  BY DEF Reads
<1>3. CanTake(b, ph, k, n, to, trailers)
  BY MoveResumes DEF CanTake, Takes
<1> QED BY <1>1, <1>2, <1>3, MoveReads

(* The next chunk.                                                         *)
LEMMA NoDigits == Spells(<<>>, 0) /\ Len(<<>>) = 0
<1>1. <<>> \in Seq(HexDigits) /\ Len(<<>>) = 0
  OBVIOUS
<1>2. Number[<<>>] = 0
  BY NumberRec, Zenon
<1>3. MaxHexDigits \in Nat
  BY WidthAssumption
<1>4. 0 <= MaxHexDigits
  BY <1>3
<1> QED BY <1>1, <1>2, <1>4, Zenon DEF Spells

LEMMA ChunkReads ==
  ASSUME NEW k, NEW n \in Nat, NEW trailers \in BOOLEAN, NEW read \in Seq(Bytes), NEW payload,
         Reads("data LF", k, n, trailers, read, payload)
  PROVE  n = 0 /\ Reads("size", 0, n, trailers, Append(read, LF), payload)
<1>1. PICK ds : n = 0 /\ Continues("data LF", ds, n, trailers, read, payload)
  BY DEF Reads
<1>2. Spells(<<>>, 0) /\ Len(<<>>) = 0
  BY NoDigits
<1>4. LF \in Bytes
  BY Alphabets
<1>5. ASSUME NEW z \in Seq(Bytes)
      PROVE  Resume("data LF", ds, n, trailers, <<LF>> \o z) = Resume("size", <<>>, n, trailers, z)
  <2>1. FeedThenNext(trailers, <<LF>> \o z) = Whole(trailers)[z]
    BY <1>4, DataLFStep
  <2>2. <<>> \o z = z
    BY JoinEmpty
  <2> QED BY <2>1, <2>2, Zenon DEF Resume
<1>6. Continues("size", <<>>, n, trailers, Append(read, LF), payload)
  <2>1. Takes(LF, "data LF", ds, n, "size", <<>>, n, trailers)
    BY <1>5 DEF Takes
  <2> QED BY <1>1, <1>4, <2>1, ByteContinues
<1> QED BY <1>1, <1>2, <1>6 DEF Reads, Framing

(* A byte that the phase does not allow.                                   *)
Rejects(b, ph, k) ==
  \/ /\ ph = "size"
     /\ b \in HexDigits => k = MaxHexDigits
     /\ b # SEMI /\ (b = CR => k = 0)
  \/ ph \in {"extension", "trailer", "trailer line"} /\ b = LF
  \/ ph \in {"size LF", "data LF", "trailer LF", "last LF"} /\ b # LF
  \/ ph = "data CR" /\ b # CR

LEMMA BadReads ==
  ASSUME NEW k \in Nat, NEW n \in Nat, NEW trailers \in BOOLEAN, NEW read \in Seq(Bytes), NEW payload,
         NEW b \in Bytes, NEW ph, Rejects(b, ph, k), Reads(ph, k, n, trailers, read, payload)
  PROVE  \A k2, n2, p2 : Reads("bad", k2, n2, trailers, Append(read, b), p2)
<1> DEFINE Bad == Outcome("bad", <<>>, <<>>)
           y == <<b>> \o <<>>
<1>1. <<>> \in Seq(Bytes)
  OBVIOUS
<1>2. ASSUME NEW ds, DigitsOf(ph, ds, k, n)
      PROVE  Resume(ph, ds, n, trailers, y) = Bad
  <2>1. CASE /\ ph = "size"
             /\ b \in HexDigits => k = MaxHexDigits
             /\ b # SEMI /\ (b = CR => k = 0)
    <3>1. Spells(ds, n) /\ Len(ds) = k
      BY <1>2, <2>1 DEF DigitsOf
    <3>2. Whole(trailers)[ds \o y] = Bad
      BY <1>1, <2>1, <3>1, SizeBad
    <3> QED BY <2>1, <3>2, Zenon DEF Resume
  <2>2. CASE ph \in {"extension", "trailer", "trailer line"} /\ b = LF
    <3>1. LineThenBody(n, trailers, y) = Bad /\ Trailer[y] = Bad /\ LineThenTrailer(y) = Bad
      <4>1. LineThenBody(n, trailers, y) = Bad
        BY <1>1, <2>2, ExtensionStep
      <4>2. Trailer[y] = Bad
        BY <1>1, <2>2, TrailerFirst
      <4>3. LineThenTrailer(y) = Bad
        BY <1>1, <2>2, TrailerNext
      <4> QED BY <4>1, <4>2, <4>3
    <3> HIDE DEF y, Bad
    <3> QED BY <2>2, <3>1 DEF Resume
  <2>3. CASE ph \in {"size LF", "data LF", "trailer LF", "last LF"} /\ b # LF
    <3>1. /\ FeedThenBody(n, trailers, y) = Bad /\ FeedThenNext(trailers, y) = Bad
          /\ FeedThenTrailer(y) = Bad /\ FeedThenDone(y) = Bad
      <4>1. FeedThenBody(n, trailers, y) = Bad
        BY <1>1, <2>3, SizeLFStep
      <4>2. FeedThenNext(trailers, y) = Bad
        BY <1>1, <2>3, DataLFStep
      <4>3. FeedThenTrailer(y) = Bad /\ FeedThenDone(y) = Bad
        BY <1>1, <2>3, TrailerNext
      <4> QED BY <4>1, <4>2, <4>3
    <3> HIDE DEF y, Bad
    <3> QED BY <2>3, <3>1 DEF Resume
  <2>4. CASE ph = "data CR" /\ b # CR
    <3>1. ChunkTail(trailers, y) = Bad
      BY <1>1, <2>4, DataCRStep
    <3> HIDE DEF y, Bad
    <3> QED BY <2>4, <3>1 DEF Resume
  <2> QED BY <2>1, <2>2, <2>3, <2>4, Zenon DEF Rejects
<1>3. CannotTake(b, ph, k, n, trailers)
  BY <1>2, Zenon DEF CannotTake
<1>4. ph # "bad"
  BY DEF Rejects
<1> QED BY <1>3, <1>4, MoveBad

LEMMA BytesAssoc == \A x, y, z \in Seq(Bytes) : (x \o y) \o z = x \o (y \o z)
BY JoinAssoc

(* Data of a chunk: many bytes in one step.                                *)
LEMMA DataReadsOn ==
  ASSUME NEW k, NEW n \in Nat, NEW trailers \in BOOLEAN, NEW read \in Seq(Bytes), NEW payload \in Seq(Bytes),
         NEW x \in Seq(Bytes), Len(x) \in 1..n, Reads("data", k, n, trailers, read, payload)
  PROVE  Reads(IF n - Len(x) = 0 THEN "data CR" ELSE "data", 0, n - Len(x), trailers, read \o x, payload \o x)
<1> DEFINE m == n - Len(x)
           to == IF m = 0 THEN "data CR" ELSE "data"
<1>1. PICK ds : Continues("data", ds, n, trailers, read, payload)
  BY DEF Reads
<1>2. m \in Nat
  OBVIOUS
<1>3. ASSUME NEW z \in Seq(Bytes)
      PROVE  Whole(trailers)[(read \o x) \o z] = Prepend(payload \o x, Resume(to, ds, m, trailers, z))
  <2> DEFINE o == IF m = 0 THEN ChunkTail(trailers, z) ELSE Body(m, trailers, z)
  <2>1. x \o z \in Seq(Bytes)
    BY JoinIs
  <2>2. (read \o x) \o z = read \o (x \o z)
    BY BytesAssoc, Zenon
  <2>3. Whole(trailers)[read \o (x \o z)] = Prepend(payload, Resume("data", ds, n, trailers, x \o z))
    BY <1>1, <2>1, Zenon DEF Continues
  <2>4. Resume("data", ds, n, trailers, x \o z) = Body(n, trailers, x \o z)
    BY Zenon DEF Resume
  <2>5. Body(n, trailers, x \o z) = Prepend(x, o)
    BY DataStep
  <2>6. o \in Outcomes
    BY <1>2, RestTyped
  <2>7. Resume(to, ds, m, trailers, z) = o
    <3>1. CASE m = 0
      BY <3>1 DEF Resume
    <3>2. CASE m # 0
      BY <3>2 DEF Resume
    <3> QED BY <3>1, <3>2
  <2> HIDE DEF o, m, to
  <2>8. Prepend(payload, Prepend(x, o)) = Prepend(payload \o x, o)
    BY <2>6, PrependTwice
  <2> QED BY <2>2, <2>3, <2>4, <2>5, <2>7, <2>8, Zenon
<1>4. Continues(to, ds, m, trailers, read \o x, payload \o x)
  BY <1>3 DEF Continues
<1> HIDE DEF m
<1>5. Reads(to, 0, m, trailers, read \o x, payload \o x)
  <2>1. CASE m = 0
    BY <1>4, <2>1 DEF Reads, Framing
  <2>2. CASE m # 0
    BY <1>4, <2>2 DEF Reads, Framing
  <2> QED BY <2>1, <2>2
<1> QED BY <1>5 DEF m

(* Nothing is to come: decoding in one piece gives the payload so far.     *)
LEMMA NothingMore ==
  ASSUME NEW k, NEW n \in Nat, NEW trailers \in BOOLEAN, NEW read \in Seq(Bytes), NEW payload \in Seq(Bytes),
         NEW ph, ph # "bad", Reads(ph, k, n, trailers, read, payload)
  PROVE  Whole(trailers)[read] = Outcome(IF ph = "done" THEN "done" ELSE "more", payload, <<>>)
<1>1. PICK ds : DigitsOf(ph, ds, k, n) /\ Continues(ph, ds, n, trailers, read, payload)
  BY DEF Reads, DigitsOf
<1>2. <<>> \in Seq(Bytes) /\ read \o <<>> = read /\ payload \o <<>> = payload
  BY JoinEmpty
<1>3. Resume(ph, ds, n, trailers, <<>>) = Outcome(IF ph = "done" THEN "done" ELSE "more", <<>>, <<>>)
  <2>1. CASE ph = "size"
    <3>1. Spells(ds, n) /\ ds \in Seq(HexDigits)
      BY <1>1, <2>1 DEF DigitsOf, Spells
    <3>2. ds \o <<>> = ds
      BY <3>1, JoinEmpty
    <3>3. Whole(trailers)[ds] = More
      BY <3>1, SizeMore
    <3> QED BY <2>1, <3>2, <3>3 DEF Resume, More
  <2>2. CASE ph = "data"
    <3>1. n # 0
      BY <2>2 DEF Reads
    <3>2. Body(n, trailers, <<>>) = More
      BY <3>1, DataMore
    <3> QED BY <2>2, <3>2 DEF Resume, More
  <2>3. CASE ph \in Framing \ {"size"}
    <3>1. CR \in Bytes
      BY Alphabets
    <3>2. /\ LineThenBody(n, trailers, <<>>) = More /\ FeedThenBody(n, trailers, <<>>) = More
          /\ FeedThenNext(trailers, <<>>) = More /\ ChunkTail(trailers, <<>>) = More
      BY <1>2, <3>1, ExtensionStep, SizeLFStep, DataLFStep, DataCRStep
    <3>3. /\ Trailer[<<>>] = More /\ LineThenTrailer(<<>>) = More
          /\ FeedThenTrailer(<<>>) = More /\ FeedThenDone(<<>>) = More
      BY <1>2, <3>1, TrailerFirst, TrailerNext
    <3>4. Resume(ph, ds, n, trailers, <<>>) = More
      <4> HIDE DEF More
      <4> QED BY <2>3, <3>2, <3>3 DEF Resume, Framing
    <3> QED BY <2>3, <3>4 DEF More, Framing
  <2>4. CASE ph = "done"
    BY <2>4 DEF Resume
  <2> QED BY <2>1, <2>2, <2>3, <2>4 DEF Reads
<1>4. Whole(trailers)[read] = Prepend(payload, Resume(ph, ds, n, trailers, <<>>))
  BY <1>1, <1>2, Zenon DEF Continues
<1> QED BY <1>2, <1>3, <1>4 DEF Prepend, Outcome

-----------------------------------------------------------------------------
(* The decoder, step by step.                                              *)
digitsRead == IF state = CHUNK_SIZE THEN hex_count ELSE 0

ReadSoFar == Reads(streamPhase, digitsRead, bytes_left_in_chunk, consume_trailer, streamRead, streamPayload)

SInv == RInv /\ ReadSoFar

LEMMA StreamTyped ==
  IInv => /\ streamRead \in Seq(Bytes) /\ streamPayload \in Seq(Bytes)
          /\ bytes_left_in_chunk \in Nat /\ hex_count \in Nat /\ consume_trailer \in BOOLEAN
<1> SUFFICES ASSUME IInv PROVE /\ streamRead \in Seq(Bytes) /\ streamPayload \in Seq(Bytes)
          /\ bytes_left_in_chunk \in Nat /\ hex_count \in Nat /\ consume_trailer \in BOOLEAN
  OBVIOUS
<1>1. /\ consumed \in Seq(Bytes) /\ delivered \in Seq(Bytes) /\ bytes_left_in_chunk \in Nat
      /\ hex_count \in Nat /\ consume_trailer \in BOOLEAN
  BY WidthAssumption DEF IInv, TypeOK
<1>2. pc = "decoding" => SubSeq(input, 1, src) \in Seq(Bytes) /\ SubSeq(buf, 1, dst) \in Seq(Bytes)
  BY PrefixTyped, LenProperties DEF IInv, TypeOK, InPlace
<1>3. CASE pc = "decoding"
  BY <1>1, <1>2, <1>3, ConcatProperties DEF streamRead, streamPayload
<1>4. CASE pc # "decoding"
  BY <1>1, <1>4, NoBytes DEF streamRead, streamPayload
<1> QED BY <1>1, <1>3, <1>4


LEMMA FramingIs ==
  ASSUME NEW b, Stream!Framing(b)
  PROVE  /\ streamRead' = Append(streamRead, b)
         /\ UNCHANGED <<streamPayload, consume_trailer>>
  BY DEF Stream!Framing

LEMMA GotoIs ==
  ASSUME NEW b, NEW ph, NEW to, Stream!Goto(ph, b, to)
  PROVE  /\ streamPhase = ph /\ streamPhase' = to
         /\ streamRead' = Append(streamRead, b)
         /\ UNCHANGED <<digitsRead, bytes_left_in_chunk, streamPayload, consume_trailer>>
  BY FramingIs DEF Stream!Goto, digitsRead

LEMMA SInvTyped ==
  ASSUME SInv
  PROVE  /\ streamRead \in Seq(Bytes) /\ streamPayload \in Seq(Bytes)
         /\ bytes_left_in_chunk \in Nat /\ digitsRead \in Nat /\ consume_trailer \in BOOLEAN
         /\ Reads(streamPhase, digitsRead, bytes_left_in_chunk, consume_trailer, streamRead, streamPayload)
<1>1. /\ streamRead \in Seq(Bytes) /\ streamPayload \in Seq(Bytes)
      /\ bytes_left_in_chunk \in Nat /\ hex_count \in Nat /\ consume_trailer \in BOOLEAN
  BY StreamTyped DEF SInv, RInv
<1>2. digitsRead \in Nat
  BY <1>1 DEF digitsRead
<1> QED BY <1>1, <1>2 DEF SInv, ReadSoFar

LEMMA MoveKeeps ==
  ASSUME SInv, NEW b \in Bytes, NEW ph, NEW to, Stream!Goto(ph, b, to),
         Moves(b, ph, bytes_left_in_chunk, to, consume_trailer)
  PROVE  ReadSoFar'
<1>1. Reads(ph, digitsRead, bytes_left_in_chunk, consume_trailer, streamRead, streamPayload)
  BY GotoIs, SInvTyped
<1>2. Reads(to, 0, bytes_left_in_chunk, consume_trailer, Append(streamRead, b), streamPayload)
  BY <1>1, SInvTyped, FrameReadsOn
<1>3. digitsRead = 0
  <2>1. ph # "size" /\ ph # "bad"
    BY Zenon DEF Moves
  <2> QED BY <1>1, <2>1 DEF Reads
<1> QED BY <1>2, <1>3, GotoIs DEF ReadSoFar

LEMMA DigitKeeps ==
  ASSUME SInv, NEW b \in Bytes, Stream!Digit(b)
  PROVE  ReadSoFar'
<1>1. /\ streamPhase = "size" /\ b \in HexDigits /\ digitsRead < MaxHexDigits
      /\ digitsRead' = digitsRead + 1
      /\ bytes_left_in_chunk' = 16 * bytes_left_in_chunk + HexValue[b]
      /\ Stream!Framing(b) /\ streamPhase' = "size"
  BY DEF Stream!Digit, digitsRead
<1>2. Reads("size", digitsRead + 1, 16 * bytes_left_in_chunk + HexValue[b], consume_trailer,
            Append(streamRead, b), streamPayload)
  BY <1>1, SInvTyped, DigitReads
<1> QED BY <1>1, <1>2, FramingIs DEF ReadSoFar

LEMMA SizeEndKeeps ==
  ASSUME SInv, NEW b \in Bytes, Stream!SizeEnd(b)
  PROVE  ReadSoFar'
<1>1. /\ streamPhase = "size" /\ digitsRead' = 0 /\ bytes_left_in_chunk' = bytes_left_in_chunk
      /\ \/ b = SEMI /\ streamPhase' = "extension"
         \/ b = CR /\ digitsRead > 0 /\ streamPhase' = "size LF"
      /\ Stream!Framing(b)
  BY Alphabet DEF Stream!SizeEnd, digitsRead
<1>2. /\ Reads("extension", 0, bytes_left_in_chunk, consume_trailer, Append(streamRead, SEMI), streamPayload)
      /\ digitsRead > 0 =>
           Reads("size LF", 0, bytes_left_in_chunk, consume_trailer, Append(streamRead, CR), streamPayload)
  BY <1>1, SInvTyped, SizeEndReads
<1> QED BY <1>1, <1>2, FramingIs DEF ReadSoFar

LEMMA FramingKeeps ==
  ASSUME SInv, NEW b \in Bytes, Stream!Extension(b) \/ Stream!LineEnd(b) \/ Stream!Trailer(b)
  PROVE  ReadSoFar'
<1>1. consume_trailer \in BOOLEAN
  BY SInvTyped
<1>2. CASE Stream!Extension(b)
  BY <1>2, MoveKeeps, Alphabet DEF Stream!Extension, Moves
<1>3. CASE Stream!LineEnd(b)
  BY <1>1, <1>3, MoveKeeps, Alphabet DEF Stream!LineEnd, Moves
<1>4. CASE Stream!Trailer(b)
  BY <1>4, MoveKeeps, Alphabet DEF Stream!Trailer, Moves
<1> QED BY <1>2, <1>3, <1>4

LEMMA DataEndKeeps ==
  ASSUME SInv, NEW b \in Bytes, Stream!DataEnd(b)
  PROVE  ReadSoFar'
<1>1. CASE b = CR /\ Stream!Goto("data CR", b, "data LF")
  BY <1>1, MoveKeeps DEF Moves
<1>2. CASE b = LF /\ Stream!Goto("data LF", b, "size")
  <2>1. Reads("data LF", digitsRead, bytes_left_in_chunk, consume_trailer, streamRead, streamPayload)
    BY <1>2, GotoIs, SInvTyped
  <2>2. Reads("size", 0, bytes_left_in_chunk, consume_trailer, Append(streamRead, LF), streamPayload)
    BY <2>1, SInvTyped, ChunkReads
  <2>3. digitsRead = 0
    BY <2>1 DEF Reads
  <2> QED BY <1>2, <2>2, <2>3, GotoIs DEF ReadSoFar
<1> QED BY <1>1, <1>2, Alphabet DEF Stream!DataEnd

LEMMA BadKeeps ==
  ASSUME SInv, NEW b \in Bytes, Stream!Bad(b)
  PROVE  ReadSoFar'
<1>1. /\ streamPhase \notin {"data", "done", "bad"} /\ b \notin Stream!Allowed
      /\ streamPhase' = "bad" /\ streamRead' = Append(streamRead, b)
      /\ UNCHANGED consume_trailer
  BY DEF Stream!Bad
<1>2. Reads(streamPhase, digitsRead, bytes_left_in_chunk, consume_trailer, streamRead, streamPayload)
      /\ digitsRead \in Nat /\ MaxHexDigits \in Nat
  BY SInvTyped, WidthAssumption
<1>3. streamPhase \in Framing
  BY <1>1, <1>2 DEF Reads
<1>4. streamPhase = "size" => digitsRead <= MaxHexDigits
  BY <1>2 DEF Reads, Spells
<1>5. Rejects(b, streamPhase, digitsRead)
  <2>1. CASE streamPhase = "size"
    <3>1. Stream!Allowed = (IF digitsRead < MaxHexDigits THEN HexDigits ELSE {})
                             \cup {SEMI} \cup (IF digitsRead > 0 THEN {CR} ELSE {})
      BY <2>1, Alphabet DEF Stream!Allowed, digitsRead
    <3> QED BY <1>1, <1>2, <1>4, <2>1, <3>1 DEF Rejects
  <2>2. CASE streamPhase \in {"extension", "trailer", "trailer line"}
    BY <1>1, <2>2, Alphabet DEF Stream!Allowed, Rejects
  <2>3. CASE streamPhase \in {"size LF", "data LF", "trailer LF", "last LF"}
    BY <1>1, <2>3, Alphabet DEF Stream!Allowed, Rejects
  <2>4. CASE streamPhase = "data CR"
    BY <1>1, <2>4, Alphabet DEF Stream!Allowed, Rejects
  <2> QED BY <1>3, <2>1, <2>2, <2>3, <2>4 DEF Framing
<1>6. \A k2, n2, p2 : Reads("bad", k2, n2, consume_trailer, Append(streamRead, b), p2)
  BY <1>2, <1>5, SInvTyped, BadReads
<1> QED BY <1>1, <1>6 DEF ReadSoFar

LEMMA DataKeeps ==
  ASSUME SInv, IInv', NEW n, Stream!Data(n)
  PROVE  ReadSoFar'
<1> DEFINE bytes == SubSeq(streamRead', Len(streamRead) + 1, Len(streamRead'))
<1>1. /\ streamPhase = "data" /\ n \in 1..bytes_left_in_chunk
      /\ Len(bytes) = n /\ streamRead' = streamRead \o bytes /\ streamPayload' = streamPayload \o bytes
      /\ bytes_left_in_chunk' = bytes_left_in_chunk - n
      /\ streamPhase' = IF bytes_left_in_chunk' = 0 THEN "data CR" ELSE "data"
      /\ UNCHANGED <<digitsRead, consume_trailer>>
  BY DEF Stream!Data, digitsRead
<1>2. streamRead' \in Seq(Bytes)
  <2>1. (IInv => streamRead \in Seq(Bytes))'
    BY StreamTyped, PTL
  <2> QED BY <2>1
<1>3. streamRead \in Seq(Bytes)
  BY SInvTyped
<1>4. bytes \in Seq(Bytes)
  BY <1>2, <1>3
<1> HIDE DEF bytes
<1>5. Reads("data", digitsRead, bytes_left_in_chunk, consume_trailer, streamRead, streamPayload)
  BY <1>1, SInvTyped
<1>6. Reads(IF bytes_left_in_chunk - Len(bytes) = 0 THEN "data CR" ELSE "data", 0, bytes_left_in_chunk - Len(bytes),
            consume_trailer, streamRead \o bytes, streamPayload \o bytes)
  BY <1>1, <1>4, <1>5, SInvTyped, DataReadsOn
<1>7. digitsRead = 0
  BY <1>5 DEF Reads
<1>8. Reads(streamPhase', digitsRead', bytes_left_in_chunk', consume_trailer', streamRead', streamPayload')
  BY <1>1, <1>6, <1>7
<1> QED BY <1>8 DEF ReadSoFar

LEMMA StepKeeps == SInv /\ RInv' /\ [Stream!Next]_Stream!vars => ReadSoFar'
<1> SUFFICES ASSUME SInv, IInv', Stream!Next \/ UNCHANGED Stream!vars PROVE ReadSoFar'
  BY DEF RInv
<1>1. CASE UNCHANGED Stream!vars
  BY <1>1 DEF Stream!vars, SInv, ReadSoFar, digitsRead
<1>2. ASSUME NEW b \in Bytes, \/ Stream!Digit(b) \/ Stream!SizeEnd(b) \/ Stream!Extension(b) \/ Stream!LineEnd(b)
                              \/ Stream!DataEnd(b) \/ Stream!Trailer(b) \/ Stream!Bad(b)
      PROVE  ReadSoFar'
  BY <1>2, DigitKeeps, SizeEndKeeps, FramingKeeps, DataEndKeeps, BadKeeps
<1>3. CASE Stream!Data(Len(streamRead') - Len(streamRead))
  BY <1>3, DataKeeps
<1> QED BY <1>1, <1>2, <1>3, Alphabet DEF Stream!Next

LEMMA InitReads == Init => ReadSoFar
<1> SUFFICES ASSUME Init PROVE ReadSoFar
  OBVIOUS
<1>1. /\ streamPhase = "size" /\ digitsRead = 0 /\ bytes_left_in_chunk = 0
      /\ streamRead = <<>> /\ streamPayload = <<>> /\ consume_trailer \in BOOLEAN
  BY InitRefines DEF Stream!Init, digitsRead
<1>2. ASSUME NEW t \in BOOLEAN PROVE Reads("size", 0, 0, t, <<>>, <<>>)
  <2>1. ASSUME NEW z \in Seq(Bytes)
        PROVE  Whole(t)[<<>> \o z] = Prepend(<<>>, Resume("size", <<>>, 0, t, z))
    <3>1. <<>> \o z = z
      BY JoinEmpty
    <3>2. Whole(t)[z] \in Outcomes
      BY DecodeRec
    <3> QED BY <3>1, <3>2, PrependNothing, Zenon DEF Resume
  <2>2. Continues("size", <<>>, 0, t, <<>>, <<>>)
    BY <2>1 DEF Continues
  <2> QED BY <2>2, NoDigits DEF Reads, Framing
<1> QED BY <1>1, <1>2 DEF ReadSoFar

LEMMA PhaseDone ==
  ASSUME IInv
  PROVE  /\ streamPhase = "bad" <=> status = IHTP_ERROR
         /\ streamPhase = "done" => state = CHUNK_DONE
         /\ status # IHTP_ERROR /\ state = CHUNK_DONE => streamPhase = "done"
<1>1. state \in {CHUNK_SIZE, CHUNK_EXT, CHUNK_SIZE_LF, CHUNK_DATA, CHUNK_DATA_CR, CHUNK_DATA_LF,
                 CHUNK_TRAILER, CHUNK_DONE}
  BY DEF IInv, TypeOK, ChunkStates
<1>2. trailerPhase \notin {"bad", "done"}
  BY DEF trailerPhase
<1>3. CASE status = IHTP_ERROR
  BY <1>3 DEF streamPhase
<1>4. CASE status # IHTP_ERROR
  BY <1>1, <1>2, <1>4, Phases
<1> QED BY <1>3, <1>4

(* Between two calls, what the calls reported is what decoding everything  *)
(* consumed in one piece gives.                                            *)
LEMMA ReadyAgrees == SInv => SliceIndependent
<1> SUFFICES ASSUME SInv, pc = "ready" PROVE AgreesWith(Whole(consume_trailer)[consumed])
  BY DEF SliceIndependent, Whole
<1>1. streamRead = consumed /\ streamPayload = delivered /\ consumed \in Seq(Bytes) /\ delivered \in Seq(Bytes)
  BY NoBytes DEF SInv, RInv, IInv, TypeOK, streamRead, streamPayload
<1>2. /\ streamPhase = "bad" <=> status = IHTP_ERROR
      /\ streamPhase = "done" => state = CHUNK_DONE
      /\ status # IHTP_ERROR /\ state = CHUNK_DONE => streamPhase = "done"
  BY PhaseDone DEF SInv, RInv
<1>3. /\ bytes_left_in_chunk \in Nat /\ consume_trailer \in BOOLEAN
      /\ Reads(streamPhase, digitsRead, bytes_left_in_chunk, consume_trailer, consumed, delivered)
  BY <1>1, SInvTyped
<1> DEFINE ref == Whole(consume_trailer)[consumed]
<1>4. CASE status = IHTP_ERROR
  <2>1. ref.kind = "bad" /\ ref.rest = <<>>
    BY <1>2, <1>3, <1>4 DEF Reads
  <2> QED BY <1>4, <2>1 DEF AgreesWith, ReportedKind
<1>5. CASE status # IHTP_ERROR
  <2>1. ref = Outcome(IF streamPhase = "done" THEN "done" ELSE "more", delivered, <<>>)
    BY <1>1, <1>2, <1>3, <1>5, NothingMore
  <2> HIDE DEF ref
  <2>2. ref.kind = ReportedKind /\ ref.rest = <<>> /\ ref.payload = delivered
    BY <1>2, <1>5, <2>1 DEF Outcome, ReportedKind
  <2>3. AgreesWith(ref)
    BY <2>2 DEF AgreesWith
  <2> QED BY <2>3 DEF ref
<1> QED BY <1>4, <1>5

(* However a body is cut into slices, ihtp_decode_chunked() returns the    *)
(* payload, finds the end and rejects a byte exactly as decoding all of it *)
(* in one piece by the grammar does: for bodies and slices of every        *)
(* length, for callers that stop at an error and whose slices an int can   *)
(* count.                                                                  *)
THEOREM SlicesDoNotMatter ==
  ASSUME RetryAfterError = FALSE, IntSlices
  PROVE  Spec => []SliceIndependent
<1>1. Init => SInv
  <2>1. Init => Healthy
    BY WidthAssumption DEF Init, Healthy
  <2> QED BY <2>1, InitEstablishes, InitReads DEF RInv, SInv
<1>2. SInv /\ [Next]_vars => SInv'
  <2>1. RInv /\ [Next]_vars => RInv'
    BY StepPreserves, StepHealthy DEF RInv
  <2> QED BY <2>1, StepRefines, StepKeeps DEF SInv
<1> QED BY <1>1, <1>2, ReadyAgrees, PTL DEF Spec
=============================================================================
