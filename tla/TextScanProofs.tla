---------------------------- MODULE TextScanProofs ----------------------------
(***************************************************************************)
(* Proofs about the scanning loops, for every text, every needle and every *)
(* size of word and block.  The first part is the arithmetic of a word     *)
(* whose bytes are tested together: the lowest byte below the limit is     *)
(* always marked, whatever the bytes above it are.                         *)
(***************************************************************************)
EXTENDS TextScan, WellFoundedInduction, SequenceTheorems, TLAPS

-----------------------------------------------------------------------------
(* Induction over the natural numbers, for a set of them.                  *)
LEMMA LessThanWellFounded == IsWellFoundedOn({ss \in Nat \X Nat : ss[1] < ss[2]}, Nat)
  BY NatLessThanWellFounded DEF OpToRel

LEMMA Induction ==
  ASSUME NEW S, 0 \in S, \A n \in Nat : n \in S => n + 1 \in S
  PROVE  \A n \in Nat : n \in S
<1> DEFINE R == {ss \in Nat \X Nat : ss[1] < ss[2]}
<1> HIDE DEF R
<1> SUFFICES ASSUME Nat \ S # {} PROVE FALSE
  OBVIOUS
<1>1. IsWellFoundedOn(R, Nat)
  BY LessThanWellFounded DEF R
<1>2. PICK x \in Nat \ S : \A y \in Nat \ S : ~(<<y, x>> \in R)
  BY <1>1, WFMin
<1>3. x - 1 \in Nat /\ x - 1 < x /\ (x - 1) + 1 = x
  OBVIOUS
<1>4. <<x - 1, x>> \in R
  BY <1>3 DEF R
<1>5. x - 1 \in S
  BY <1>2, <1>3, <1>4
<1> QED BY <1>2, <1>3, <1>5

(* A function over the natural numbers is defined by its first value and   *)
(* by how each value follows from the one before.                          *)
LEMMA Recursion ==
  ASSUME NEW a \in Int, NEW step \in [Nat -> [Int -> Int]]
  PROVE  \E f \in [Nat -> Int] : /\ f[0] = a
                                 /\ \A n \in Nat : f[n + 1] = step[n + 1][f[n]]
<1> DEFINE G(n) == {g \in [0..n -> Int] : g[0] = a /\ \A i \in 0..n - 1 : g[i + 1] = step[i + 1][g[i]]}
           S    == {n \in Nat : \E g : g \in G(n)}
           T    == {m \in Nat : \A n, o \in Nat : \A g \in G(n), h \in G(o) :
                                   m <= n /\ m <= o => g[m] = h[m]}
<1>1. ASSUME NEW n \in Nat, NEW g \in G(n)
      PROVE  g \in [0..n -> Int] /\ g[0] = a /\ \A i \in 0..n - 1 : g[i + 1] = step[i + 1][g[i]]
  OBVIOUS
<1>2. ASSUME NEW n \in Nat, NEW g \in [0..n -> Int], g[0] = a,
             \A i \in 0..n - 1 : g[i + 1] = step[i + 1][g[i]]
      PROVE  g \in G(n)
  BY <1>2
<1> HIDE DEF G
<1>3. \A n \in Nat : n \in S
  <2>1. 0 \in S
    <3>1. [i \in 0..0 |-> a] \in G(0)
      <4>1. [i \in 0..0 |-> a] \in [0..0 -> Int] /\ [i \in 0..0 |-> a][0] = a
        OBVIOUS
      <4>2. 0 \in Nat /\ 0..0 - 1 = {}
        OBVIOUS
      <4> QED BY <1>2, <4>1, <4>2
    <3> QED BY <3>1
  <2>2. ASSUME NEW n \in Nat, n \in S PROVE n + 1 \in S
    <3>1. PICK g : g \in G(n)
      BY <2>2
    <3> DEFINE h == [i \in 0..n + 1 |-> IF i = n + 1 THEN step[n + 1][g[n]] ELSE g[i]]
    <3>2. g \in [0..n -> Int] /\ g[0] = a /\ \A i \in 0..n - 1 : g[i + 1] = step[i + 1][g[i]]
      BY <1>1, <3>1
    <3>3. step[n + 1][g[n]] \in Int
      BY <3>2
    <3>4. h \in [0..n + 1 -> Int] /\ h[0] = a /\ h[n + 1] = step[n + 1][g[n]] /\ h[n] = g[n]
      BY <3>2, <3>3
    <3>5. \A i \in 0..n : h[i + 1] = step[i + 1][h[i]]
      <4> SUFFICES ASSUME NEW i \in 0..n PROVE h[i + 1] = step[i + 1][h[i]]
        OBVIOUS
      <4>1. CASE i = n
        BY <3>4, <4>1
      <4>2. CASE i # n
        <5>1. i \in 0..n - 1 /\ i + 1 \in 0..n + 1 /\ i + 1 # n + 1 /\ i # n + 1 /\ i \in 0..n + 1
          BY <4>2
        <5>2. h[i + 1] = g[i + 1] /\ h[i] = g[i]
          BY <5>1
        <5> QED BY <3>2, <5>1, <5>2
      <4> QED BY <4>1, <4>2
    <3> HIDE DEF h
    <3>6. n + 1 \in Nat /\ (n + 1) - 1 = n
      OBVIOUS
    <3>7. h \in G(n + 1)
      BY <1>2, <3>4, <3>5, <3>6
    <3> QED BY <3>6, <3>7
  <2> HIDE DEF S
  <2> QED BY <2>1, <2>2, Induction
<1>4. \A m \in Nat : m \in T
  <2>1. 0 \in T
    BY <1>1
  <2>2. ASSUME NEW m \in Nat, m \in T PROVE m + 1 \in T
    <3>1. ASSUME NEW n \in Nat, NEW o \in Nat, NEW g \in G(n), NEW h \in G(o),
                 m + 1 <= n, m + 1 <= o
          PROVE  g[m + 1] = h[m + 1]
      <4>1. m <= n /\ m <= o /\ m \in 0..n - 1 /\ m \in 0..o - 1
        BY <3>1
      <4>2. g[m] = h[m]
        BY <2>2, <4>1
      <4>3. g[m + 1] = step[m + 1][g[m]] /\ h[m + 1] = step[m + 1][h[m]]
        BY <1>1, <4>1
      <4> QED BY <4>2, <4>3
    <3> QED BY <3>1
  <2> HIDE DEF T
  <2> QED BY <2>1, <2>2, Induction
<1> DEFINE c(n) == CHOOSE g : g \in G(n)
           f    == [n \in Nat |-> c(n)[n]]
<1>5. \A n \in Nat : c(n) \in G(n)
  BY <1>3
<1> HIDE DEF c
<1>6. \A n \in Nat : c(n) \in [0..n -> Int] /\ c(n)[0] = a /\ c(n)[n] \in Int
  <2> SUFFICES ASSUME NEW n \in Nat PROVE c(n) \in [0..n -> Int] /\ c(n)[0] = a /\ c(n)[n] \in Int
    OBVIOUS
  <2>1. c(n) \in [0..n -> Int] /\ c(n)[0] = a
    BY <1>1, <1>5
  <2> QED BY <2>1
<1>7. ASSUME NEW n \in Nat PROVE c(n + 1)[n + 1] = step[n + 1][c(n)[n]]
  <2>1. n + 1 \in Nat /\ n <= n /\ n <= n + 1 /\ n \in 0..(n + 1) - 1
    OBVIOUS
  <2>2. c(n) \in G(n) /\ c(n + 1) \in G(n + 1)
    BY <1>5, <2>1
  <2>3. c(n + 1)[n] = c(n)[n]
    BY <1>4, <2>1, <2>2
  <2>4. c(n + 1)[n + 1] = step[n + 1][c(n + 1)[n]]
    BY <1>1, <2>1, <2>2
  <2> QED BY <2>3, <2>4
<1>8. f \in [Nat -> Int] /\ f[0] = a /\ \A n \in Nat : f[n + 1] = step[n + 1][f[n]]
  BY <1>6, <1>7
<1> HIDE DEF f
<1> QED BY <1>8

-----------------------------------------------------------------------------
LEMMA Sizes == WordBytes \in Nat /\ WordBytes > 0 /\ SseBlock \in Nat /\ SseBlock > 0 /\ AvxBlock \in Nat /\ AvxBlock > 0
  BY ScanAssumption

LEMMA ByteRange ==
  ASSUME NEW b \in Byte
  PROVE  b \in Int /\ 0 <= b /\ b <= 255
  BY DEF Byte

LEMMA ProductInt ==
  ASSUME NEW x \in Int, NEW y \in Int
  PROVE  x * y \in Int
  OBVIOUS

LEMMA ProductGrows ==
  ASSUME NEW a \in Int, NEW b \in Int, NEW w \in Int, a >= b, w > 0
  PROVE  a * w >= b * w
<1> DEFINE d == a - b
<1>1. d \in Int /\ d >= 0 /\ a = b + d
  OBVIOUS
<1> HIDE DEF d
<1>2. (b + d) * w = b * w + d * w
  BY <1>1
<1>3. d * w >= 0
  BY <1>1
<1>4. b * w \in Int /\ d * w \in Int
  BY <1>1, ProductInt
<1>5. b * w + d * w >= b * w
  BY <1>3, <1>4
<1> QED BY <1>1, <1>2, <1>5

LEMMA WeightRec ==
  /\ Weight[0] = 1
  /\ \A n \in Nat : Weight[n] \in Nat \ {0} /\ Weight[n + 1] = 256 * Weight[n]
<1> DEFINE step == [n \in Nat |-> [x \in Int |-> 256 * x]]
<1>0. \A n \in Nat, x \in Int : step[n][x] = 256 * x
  OBVIOUS
<1>1. step \in [Nat -> [Int -> Int]] /\ 1 \in Int
  OBVIOUS
<1> HIDE DEF step
<1>2. PICK f \in [Nat -> Int] : f[0] = 1 /\ \A n \in Nat : f[n + 1] = step[n + 1][f[n]]
  BY <1>1, Recursion, Zenon
<1>3. \A n \in Nat : f[n] = IF n = 0 THEN 1 ELSE 256 * f[n - 1]
  <2> SUFFICES ASSUME NEW n \in Nat, n # 0 PROVE f[n] = 256 * f[n - 1]
    BY <1>2
  <2>1. n - 1 \in Nat /\ (n - 1) + 1 = n
    OBVIOUS
  <2>2. f[n] = step[n][f[n - 1]] /\ f[n - 1] \in Int
    BY <1>2, <2>1
  <2> QED BY <1>0, <2>2
<1>4. f = [n \in Nat |-> IF n = 0 THEN 1 ELSE 256 * f[n - 1]]
  BY <1>3
<1>5. Weight = [n \in Nat |-> IF n = 0 THEN 1 ELSE 256 * Weight[n - 1]]
  BY <1>4 DEF Weight
<1>6. Weight[0] = 1 /\ \A n \in Nat : Weight[n + 1] = 256 * Weight[n]
  BY <1>5
<1> DEFINE S == {n \in Nat : Weight[n] \in Nat \ {0}}
<1>7. \A n \in Nat : n \in S
  <2>1. 0 \in S /\ \A n \in Nat : n \in S => n + 1 \in S
    BY <1>6
  <2> HIDE DEF S
  <2> QED BY <2>1, Induction
<1> QED BY <1>6, <1>7

LEMMA WeightPositive ==
  ASSUME NEW n \in Nat
  PROVE  Weight[n] \in Nat /\ Weight[n] > 0 /\ Weight[n] \in Int
<1>1. Weight[n] \in Nat \ {0}
  BY WeightRec
<1> HIDE DEF Weight
<1> QED BY <1>1

(* The n lowest bytes of a word, as a number.                              *)
Low(bytes) ==
  LET w[j \in 0..WordBytes] == IF j = 0 THEN 0 ELSE w[j - 1] + bytes[j] * Weight[j - 1]
  IN  w

LEMMA LowRec ==
  ASSUME NEW bytes \in [1..WordBytes -> Byte]
  PROVE  /\ Word(bytes) = Low(bytes)[WordBytes]
         /\ Low(bytes)[0] = 0
         /\ \A n \in 0..WordBytes - 1 :
              Low(bytes)[n + 1] = Low(bytes)[n] + bytes[n + 1] * Weight[n]
<1>1. \A n \in 1..WordBytes : bytes[n] * Weight[n - 1] \in Int
  <2> SUFFICES ASSUME NEW n \in 1..WordBytes PROVE bytes[n] * Weight[n - 1] \in Int
    OBVIOUS
  <2>1. bytes[n] \in Byte /\ n - 1 \in Nat
    BY Sizes
  <2>2. Weight[n - 1] \in Int
    BY <2>1, WeightPositive
  <2>3. bytes[n] \in Int
    BY <2>1, ByteRange
  <2> QED BY <2>2, <2>3, ProductInt
<1> DEFINE step == [n \in Nat |-> [x \in Int |-> IF n \in 1..WordBytes THEN x + bytes[n] * Weight[n - 1] ELSE 0]]
<1>2. step \in [Nat -> [Int -> Int]] /\ 0 \in Int
  BY <1>1
<1>3. \A n \in 1..WordBytes, x \in Int : step[n][x] = x + bytes[n] * Weight[n - 1]
  BY Sizes
<1> HIDE DEF step
<1>4. PICK f \in [Nat -> Int] : f[0] = 0 /\ \A n \in Nat : f[n + 1] = step[n + 1][f[n]]
  BY <1>2, Recursion, Zenon
<1> DEFINE g == [j \in 0..WordBytes |-> f[j]]
<1>5. g = [j \in 0..WordBytes |-> IF j = 0 THEN 0 ELSE g[j - 1] + bytes[j] * Weight[j - 1]]
  <2> SUFFICES ASSUME NEW j \in 0..WordBytes, j # 0
               PROVE  f[j] = f[j - 1] + bytes[j] * Weight[j - 1] /\ j - 1 \in 0..WordBytes
    BY <1>4, Sizes
  <2>1. j - 1 \in Nat /\ (j - 1) + 1 = j /\ j \in 1..WordBytes /\ j - 1 \in 0..WordBytes
    BY Sizes
  <2>2. f[j] = step[j][f[j - 1]] /\ f[j - 1] \in Int
    BY <1>4, <2>1
  <2> QED BY <1>3, <2>1, <2>2
<1> HIDE DEF g
<1>6. Low(bytes) = [j \in 0..WordBytes |-> IF j = 0 THEN 0 ELSE Low(bytes)[j - 1] + bytes[j] * Weight[j - 1]]
  BY <1>5 DEF Low
<1>7. Word(bytes) = Low(bytes)[WordBytes]
  BY DEF Word, Low
<1>8. Low(bytes)[0] = 0
  BY <1>6, Sizes
<1>9. ASSUME NEW n \in 0..WordBytes - 1
      PROVE  Low(bytes)[n + 1] = Low(bytes)[n] + bytes[n + 1] * Weight[n]
  <2>1. n + 1 \in 0..WordBytes /\ n + 1 # 0 /\ (n + 1) - 1 = n
    BY Sizes
  <2> QED BY <1>6, <2>1
<1> QED BY <1>7, <1>8, <1>9

(* Numbers alone: a digit b of weight P on top of x.                       *)
LEMMA DigitOnTop ==
  ASSUME NEW P \in Int, P > 0, NEW x \in Int, 0 <= x, x < P, NEW b \in Int, 0 <= b, b <= 255
  PROVE  0 <= x + b * P /\ x + b * P < 256 * P
<1>1. 0 <= b * P /\ b * P <= 255 * P
  OBVIOUS
<1> QED BY <1>1

LEMMA LowRange ==
  ASSUME NEW bytes \in [1..WordBytes -> Byte], NEW m \in 0..WordBytes
  PROVE  Low(bytes)[m] \in Int /\ 0 <= Low(bytes)[m] /\ Low(bytes)[m] < Weight[m]
<1> DEFINE L == Low(bytes)
           S == {n \in Nat : n <= WordBytes => L[n] \in Int /\ 0 <= L[n] /\ L[n] < Weight[n]}
<1>1. 0 \in S
  <2>1. L[0] = 0 /\ Weight[0] = 1
    BY LowRec, WeightRec
  <2> QED BY <2>1
<1>2. ASSUME NEW n \in Nat, n \in S PROVE n + 1 \in S
  <2> SUFFICES ASSUME n + 1 <= WordBytes
               PROVE  L[n + 1] \in Int /\ 0 <= L[n + 1] /\ L[n + 1] < Weight[n + 1]
    OBVIOUS
  <2>1. n \in 0..WordBytes - 1 /\ n + 1 \in 1..WordBytes /\ n <= WordBytes
    BY Sizes
  <2>2. L[n] \in Int /\ 0 <= L[n] /\ L[n] < Weight[n]
    BY <1>2, <2>1
  <2>3. bytes[n + 1] \in Int /\ 0 <= bytes[n + 1] /\ bytes[n + 1] <= 255
    BY <2>1, ByteRange
  <2>4. L[n + 1] = L[n] + bytes[n + 1] * Weight[n]
    BY <2>1, LowRec
  <2>5. Weight[n + 1] = 256 * Weight[n] /\ Weight[n] \in Int /\ Weight[n] > 0
    BY WeightRec, WeightPositive
  <2>6. 0 <= L[n] + bytes[n + 1] * Weight[n] /\ L[n] + bytes[n + 1] * Weight[n] < 256 * Weight[n]
    BY <2>2, <2>3, <2>5, DigitOnTop
  <2>7. L[n] + bytes[n + 1] * Weight[n] \in Int
    BY <2>2, <2>3, <2>5
  <2> HIDE DEF L
  <2> QED BY <2>4, <2>5, <2>6, <2>7
<1>3. \A n \in Nat : n \in S
  <2> HIDE DEF S
  <2> QED BY <1>1, <1>2, Induction
<1> QED BY <1>3, Sizes

(* 1 in each of the n lowest bytes.                                        *)
Ones(n) == (Weight[n] - 1) \div 255

LEMMA OnesRec ==
  ASSUME NEW m \in Nat
  PROVE  Ones(m) \in Int /\ Ones(m + 1) \in Int /\ Weight[m] = 255 * Ones(m) + 1 /\ Ones(m + 1) = Ones(m) + Weight[m]
<1> DEFINE S == {n \in Nat : \E k \in Int : Weight[n] = 255 * k + 1}
<1>1. 0 \in S
  <2>1. Weight[0] = 255 * 0 + 1
    BY WeightRec
  <2> QED BY <2>1
<1>2. ASSUME NEW n \in Nat, n \in S PROVE n + 1 \in S
  <2>1. PICK k \in Int : Weight[n] = 255 * k + 1
    BY <1>2
  <2> DEFINE up == 256 * k + 1
  <2>2. Weight[n + 1] = 255 * up + 1 /\ up \in Int
    BY <2>1, WeightRec
  <2> HIDE DEF up
  <2>3. \E x \in Int : Weight[n + 1] = 255 * x + 1
    BY <2>2, Zenon
  <2> QED BY <2>3
<1>3. \A n \in Nat : n \in S
  <2> HIDE DEF S
  <2> QED BY <1>1, <1>2, Induction
<1>4. PICK k \in Int : Weight[m] = 255 * k + 1
  BY <1>3
<1>5. Weight[m + 1] = 255 * (256 * k + 1) + 1
  BY <1>4, WeightRec
<1>6. Ones(m) = k /\ Ones(m + 1) = 256 * k + 1
  BY <1>4, <1>5 DEF Ones
<1> QED BY <1>4, <1>6

(* Bytes that are all k or more: no borrow leaves them.                    *)
LEMMA NoBorrow ==
  ASSUME NEW bytes \in [1..WordBytes -> Byte], NEW k \in Int, NEW m \in 0..WordBytes,
         \A i \in 1..m : bytes[i] >= k
  PROVE  Low(bytes)[m] >= k * Ones(m)
<1> DEFINE L == Low(bytes)
           S == {n \in Nat : n <= m => L[n] >= k * Ones(n)}
<1>1. 0 \in S
  <2>1. Ones(0) = 0
    BY WeightRec DEF Ones
  <2>2. L[0] = 0
    BY LowRec
  <2>3. L[0] >= k * Ones(0)
    <3> HIDE DEF L
    <3> QED BY <2>1, <2>2
  <2> QED BY <2>3
<1>2. ASSUME NEW n \in Nat, n \in S PROVE n + 1 \in S
  <2> SUFFICES ASSUME n + 1 <= m PROVE L[n + 1] >= k * Ones(n + 1)
    OBVIOUS
  <2>1. n \in 0..WordBytes - 1 /\ n + 1 \in 1..WordBytes /\ n <= m /\ n \in 0..WordBytes /\ n + 1 \in 1..m
    BY Sizes
  <2>2. L[n] >= k * Ones(n) /\ L[n] \in Int
    BY <1>2, <2>1, LowRange
  <2>3. L[n + 1] = L[n] + bytes[n + 1] * Weight[n]
    BY <2>1, LowRec
  <2>4. bytes[n + 1] \in Int /\ bytes[n + 1] >= k
    BY <2>1, ByteRange
  <2>5. Weight[n] \in Int /\ Weight[n] > 0
    BY WeightPositive
  <2>6. Ones(n) \in Int /\ Ones(n + 1) = Ones(n) + Weight[n]
    BY OnesRec
  <2>7. bytes[n + 1] * Weight[n] >= k * Weight[n]
    BY <2>4, <2>5, ProductGrows
  <2>8. k * (Ones(n) + Weight[n]) = k * Ones(n) + k * Weight[n]
    BY <2>5, <2>6
  <2> HIDE DEF L
  <2>9. bytes[n + 1] * Weight[n] \in Int /\ k * Weight[n] \in Int /\ k * Ones(n) \in Int
    BY <2>4, <2>5, <2>6, ProductInt
  <2> QED BY <2>2, <2>3, <2>6, <2>7, <2>8, <2>9
<1>3. \A n \in Nat : n \in S
  <2> HIDE DEF S
  <2> QED BY <1>1, <1>2, Induction
<1> QED BY <1>3, Sizes

(* From byte m on, g adds up the digits c by their weights.                *)
AddsUp(g, c, m, top) ==
  /\ m \in Nat /\ top \in Nat /\ m <= top
  /\ \A n \in m..top : g[n] \in Int
  /\ \A n \in m..top - 1 : c[n] \in Int /\ g[n + 1] = g[n] + c[n] * Weight[n]

(* What lies above byte m of such a sum is a multiple of its weight.       *)
LEMMA Above ==
  ASSUME NEW g, NEW c, NEW m, NEW top, AddsUp(g, c, m, top)
  PROVE  \E h, r \in Int : g[top] = g[m] + h * Weight[m] /\ Weight[top] = r * Weight[m]
<1> USE DEF AddsUp
<1> DEFINE S == {d \in Nat : m + d <= top => \E h, r \in Int : /\ g[m + d] = g[m] + h * Weight[m]
                                                              /\ Weight[m + d] = r * Weight[m]}
<1>0. Weight[m] \in Int
  BY WeightPositive
<1>1. 0 \in S
  <2>1. m + 0 = m /\ g[m] \in Int
    OBVIOUS
  <2>2. g[m] = g[m] + 0 * Weight[m] /\ Weight[m] = 1 * Weight[m]
    BY <1>0, <2>1
  <2> QED BY <2>1, <2>2
<1>2. ASSUME NEW d \in Nat, d \in S PROVE d + 1 \in S
  <2> SUFFICES ASSUME m + (d + 1) <= top
               PROVE  \E h, r \in Int : /\ g[m + (d + 1)] = g[m] + h * Weight[m]
                                        /\ Weight[m + (d + 1)] = r * Weight[m]
    OBVIOUS
  <2> DEFINE n == m + d
  <2>1. n \in Nat /\ n <= top /\ n \in m..top - 1 /\ m + (d + 1) = n + 1 /\ m \in m..top
    OBVIOUS
  <2>2. PICK h \in Int, r \in Int : g[n] = g[m] + h * Weight[m] /\ Weight[n] = r * Weight[m]
    BY <1>2, <2>1
  <2> HIDE DEF n
  <2>3. c[n] \in Int /\ g[n + 1] = g[n] + c[n] * Weight[n] /\ g[m] \in Int
    BY <2>1
  <2>4. Weight[n + 1] = 256 * Weight[n]
    BY <2>1, WeightRec
  <2>5. h + c[n] * r \in Int /\ 256 * r \in Int
    BY <2>3
  <2>6. g[n + 1] = g[m] + (h + c[n] * r) * Weight[m]
    BY <1>0, <2>2, <2>3
  <2>7. Weight[n + 1] = (256 * r) * Weight[m]
    BY <1>0, <2>2, <2>4
  <2> QED BY <2>1, <2>5, <2>6, <2>7
<1>3. \A d \in Nat : d \in S
  <2> HIDE DEF S
  <2> QED BY <1>1, <1>2, Induction
<1>4. top - m \in Nat /\ m + (top - m) = top
  OBVIOUS
<1> QED BY <1>3, <1>4

(* Numbers alone: dividing with a known rest.                              *)
LEMMA Quotient ==
  ASSUME NEW d \in Int, d > 0, NEW q \in Int, NEW r \in Int, 0 <= r, r < d, NEW a \in Int, a = q * d + r
  PROVE  a \div d = q
  OBVIOUS

LEMMA Modulo ==
  ASSUME NEW d \in Int, d > 0, NEW a \in Int
  PROVE  \E t \in Int : a % d = a - t * d
<1>1. a \div d \in Int /\ a = d * (a \div d) + (a % d) /\ a % d \in Int
  OBVIOUS
<1>2. a % d = a - (a \div d) * d
  BY <1>1
<1> QED BY <1>1, <1>2

(* c is byte j of x, h the number above it and r the number below it.      *)
IsByte(c, j, x, h, r) ==
  /\ j \in Nat /\ x \in Int /\ h \in Int /\ c \in Int /\ 0 <= c /\ c <= 255
  /\ r \in Int /\ 0 <= r /\ r < Weight[j] /\ x = (256 * h + c) * Weight[j] + r

LEMMA HighByte ==
  ASSUME NEW c, NEW j, NEW x, NEW h, NEW r, IsByte(c, j, x, h, r)
  PROVE  High(x, j) <=> c >= 128
<1> USE DEF IsByte
<1> DEFINE P == Weight[j]
<1>1. P \in Int /\ P > 0
  BY WeightPositive
<1>2. High(x, j) <=> (x \div (128 * P)) % 2 = 1
  BY DEF High
<1> HIDE DEF P
<1>3. ASSUME NEW e \in {0, 1}, 0 <= c - 128 * e, c - 128 * e <= 127
      PROVE  (x \div (128 * P)) % 2 = e
  <2> DEFINE d    == 128 * P
             q    == 2 * h + e
             rest == (c - 128 * e) * P + r
  <2>1. d \in Int /\ d > 0 /\ q \in Int /\ rest \in Int
    BY <1>1
  <2>2. 0 <= rest /\ rest < d
    <3>1. 0 <= (c - 128 * e) * P /\ (c - 128 * e) * P <= 127 * P
      BY <1>1, <1>3
    <3>2. r < P
      BY DEF P
    <3> QED BY <1>1, <3>1, <3>2
  <2>3. x = q * d + rest
    <3>1. x = (256 * h + c) * P + r
      BY DEF P
    <3>2. (256 * h + c) * P = (2 * h + e) * (128 * P) + (c - 128 * e) * P
      BY <1>1
    <3> QED BY <1>1, <3>1, <3>2
  <2>4. x \div d = q
    <3> HIDE DEF d, q, rest
    <3> QED BY <2>1, <2>2, <2>3, Quotient
  <2>5. q % 2 = e
    BY <1>3
  <2> HIDE DEF q
  <2> QED BY <2>4, <2>5
<1>4. CASE c >= 128
  BY <1>2, <1>3, <1>4
<1>5. CASE c < 128
  BY <1>2, <1>3, <1>5
<1> QED BY <1>4, <1>5

(* Byte j of a word and of the word less k in every byte, when the bytes   *)
(* below it are all k or more.                                             *)
LEMMA ByteMarked ==
  ASSUME NEW bytes \in [1..WordBytes -> Byte], NEW k \in 1..128, NEW j \in 0..WordBytes - 1,
         \A i \in 1..j : bytes[i] >= k, bytes[j + 1] < k
  PROVE  j \in Below(Word(bytes), k)
<1> DEFINE P == Weight[j]
           L == Low(bytes)
           b == bytes[j + 1]
           w == Word(bytes)
<1>1. /\ j \in Nat /\ j + 1 \in Nat /\ j + 1 <= WordBytes /\ j \in 0..WordBytes /\ j + 1 \in 1..WordBytes
      /\ WordBytes \in Nat /\ k \in Int
  BY Sizes
<1>2. P \in Int /\ P > 0 /\ Weight[j + 1] = 256 * P
  BY <1>1, WeightPositive, WeightRec
<1>3. b \in Int /\ 0 <= b /\ b < k /\ b < 128
  BY <1>1, ByteRange
<1>4. L[j] \in Int /\ 0 <= L[j] /\ L[j] < P /\ L[j + 1] = L[j] + b * P /\ w = L[WordBytes]
  BY <1>1, LowRange, LowRec
<1>5. PICK h \in Int, r \in Int : w = L[j + 1] + h * (256 * P) /\ WordSize = r * (256 * P)
  <2> DEFINE c == [n \in 0..WordBytes |-> bytes[n + 1]]
             m == j + 1
  <2>1. \A n \in m..WordBytes : L[n] \in Int
    BY <1>1, LowRange
  <2>2. \A n \in m..WordBytes - 1 : c[n] \in Int /\ L[n + 1] = L[n] + c[n] * Weight[n]
    <3> SUFFICES ASSUME NEW n \in m..WordBytes - 1
                 PROVE  c[n] \in Int /\ L[n + 1] = L[n] + c[n] * Weight[n]
      OBVIOUS
    <3>1. n \in 0..WordBytes /\ n \in 0..WordBytes - 1 /\ n + 1 \in 1..WordBytes
      BY <1>1
    <3>2. c[n] = bytes[n + 1] /\ bytes[n + 1] \in Int
      BY <3>1, ByteRange
    <3>3. L[n + 1] = L[n] + bytes[n + 1] * Weight[n]
      BY <3>1, LowRec
    <3> QED BY <3>2, <3>3
  <2>3. m \in Nat /\ m <= WordBytes /\ WordBytes \in Nat
    BY <1>1
  <2>4. Weight[m] = 256 * P
    BY <1>2
  <2> HIDE DEF c, m, L, P
  <2>5. PICK h \in Int, r \in Int : L[WordBytes] = L[m] + h * Weight[m] /\ Weight[WordBytes] = r * Weight[m]
    <3>1. AddsUp(L, c, m, WordBytes)
      BY <2>1, <2>2, <2>3, Zenon DEF AddsUp
    <3> QED BY <3>1, Above
  <2>6. w = L[m] + h * (256 * P) /\ WordSize = r * (256 * P)
    BY <1>4, <2>4, <2>5 DEF WordSize
  <2> QED BY <2>6 DEF m
<1>6. PICK s \in Int : ones = Ones(j) + P + s * (256 * P)
  <2> DEFINE g == [n \in 0..WordBytes |-> Ones(n)]
             c == [n \in 0..WordBytes |-> 1]
             m == j + 1
  <2>1. \A n \in m..WordBytes : g[n] \in Int
    BY <1>1, OnesRec
  <2>2. \A n \in m..WordBytes - 1 : c[n] \in Int /\ g[n + 1] = g[n] + c[n] * Weight[n]
    <3> SUFFICES ASSUME NEW n \in m..WordBytes - 1
                 PROVE  c[n] \in Int /\ g[n + 1] = g[n] + c[n] * Weight[n]
      OBVIOUS
    <3>1. n \in 0..WordBytes /\ n \in Nat /\ n + 1 \in 0..WordBytes
      BY <1>1
    <3>2. c[n] = 1 /\ g[n + 1] = Ones(n + 1) /\ g[n] = Ones(n)
      BY <3>1
    <3>3. Ones(n + 1) = Ones(n) + Weight[n] /\ Weight[n] \in Int
      BY <3>1, OnesRec, WeightPositive
    <3> QED BY <3>2, <3>3
  <2>3. m \in Nat /\ m <= WordBytes /\ WordBytes \in Nat
    BY <1>1
  <2>4. Weight[m] = 256 * P /\ g[m] = Ones(j) + P /\ g[WordBytes] = ones
    BY <1>1, <1>2, OnesRec DEF ones, Ones, WordSize
  <2> HIDE DEF c, m, g, P
  <2>5. PICK s \in Int, t \in Int : g[WordBytes] = g[m] + s * Weight[m] /\ Weight[WordBytes] = t * Weight[m]
    <3>1. AddsUp(g, c, m, WordBytes)
      BY <2>1, <2>2, <2>3, Zenon DEF AddsUp
    <3> QED BY <3>1, Above
  <2>6. ones = Ones(j) + P + s * (256 * P)
    BY <2>4, <2>5
  <2> QED BY <2>6
<1>7. Ones(j) \in Int /\ 0 <= Ones(j) /\ L[j] - k * Ones(j) \in Int /\ 0 <= L[j] - k * Ones(j) /\ L[j] - k * Ones(j) < P
  <2>1. Ones(j) \in Int /\ P = 255 * Ones(j) + 1
    BY <1>1, OnesRec
  <2>2. L[j] >= k * Ones(j)
    BY <1>1, NoBorrow
  <2> HIDE DEF P, L
  <2>3. 0 <= Ones(j)
    BY <1>2, <2>1
  <2>4. k * Ones(j) \in Int /\ 0 <= k * Ones(j)
    BY <2>1, <2>3
  <2> QED BY <1>4, <2>1, <2>2, <2>3, <2>4
<1> HIDE DEF P, L, b, w
<1>8. w = (256 * h + b) * P + L[j] /\ w \in Int
  BY <1>2, <1>3, <1>4, <1>5
<1>9. ~High(w, j)
  <2>1. IsByte(b, j, w, h, L[j])
    BY <1>1, <1>3, <1>4, <1>8 DEF P, IsByte
  <2>2. High(w, j) <=> b >= 128
    BY <2>1, HighByte
  <2> QED BY <1>3, <2>2
<1>10. WordSize \in Int /\ WordSize > 0 /\ k * ones \in Int
  <2>1. WordSize \in Int /\ WordSize > 0
    BY <1>1, WeightPositive DEF WordSize
  <2>2. ones \in Int
    BY <1>1, OnesRec DEF ones, Ones, WordSize
  <2> QED BY <1>1, <2>1, <2>2, ProductInt
<1>11. PICK t \in Int : Minus(w, k * ones) = (w - k * ones) - t * WordSize
  <2> DEFINE y == w - k * ones
  <2>1. y \in Int
    BY <1>8, <1>10
  <2> HIDE DEF y
  <2>2. \E t \in Int : y % WordSize = y - t * WordSize
    BY <1>10, <2>1, Modulo
  <2> QED BY <2>2 DEF y, Minus
<1> DEFINE up   == h - k * s - 1 - t * r
           rest == L[j] - k * Ones(j)
           c    == b - k + 256
           x    == Minus(w, k * ones)
<1>12. up \in Int /\ rest \in Int /\ 0 <= rest /\ rest < P /\ c \in Int /\ 128 <= c /\ c <= 255
  BY <1>1, <1>3, <1>7
<1>13. x = (256 * up + c) * P + rest /\ x \in Int
  <2> DEFINE A   == k * s
             B   == t * r
             K   == k * Ones(j)
             low == L[j]
  <2>1. A \in Int /\ B \in Int /\ K \in Int /\ low \in Int
    BY <1>1, <1>4, <1>7, ProductInt
  <2>2. x = (w - k * ones) - t * WordSize
    BY <1>11
  <2>3. k * ones = K + k * P + A * (256 * P)
    BY <1>1, <1>2, <1>6, <1>7
  <2>4. t * WordSize = B * (256 * P)
    BY <1>2, <1>5
  <2>5. w = (256 * h + b) * P + low
    BY <1>8
  <2>6. up = h - A - 1 - B /\ rest = low - K /\ c = b - k + 256
    OBVIOUS
  <2>7. x \in Int
    BY <1>5, <1>8, <1>10, <2>2, ProductInt
  <2> HIDE DEF A, B, K, low, up, rest, c, x
  <2>8. x = (((256 * h + b) * P + low) - (K + k * P + A * (256 * P))) - B * (256 * P)
    BY <2>2, <2>3, <2>4, <2>5, Zenon
  <2>9. (256 * up + c) * P = (256 * h + b - k - 256 * A - 256 * B) * P
    BY <1>1, <1>2, <1>3, <2>1, <2>6
  <2>10. (256 * h + b - k - 256 * A - 256 * B) * P
           = (256 * h + b) * P - k * P - A * (256 * P) - B * (256 * P)
    BY <1>1, <1>2, <1>3, <2>1
  <2> QED BY <1>1, <1>2, <1>3, <2>1, <2>6, <2>7, <2>8, <2>9, <2>10
<1>14. High(x, j)
  <2> HIDE DEF up, rest, c, x
  <2>1. IsByte(c, j, x, up, rest)
    BY <1>1, <1>12, <1>13 DEF P, IsByte
  <2>2. High(x, j) <=> c >= 128
    BY <2>1, HighByte
  <2> QED BY <1>12, <2>2
<1> QED BY <1>9, <1>14 DEF Below, w, x

(* No byte of the word is marked: every byte is k or more.                 *)
LEMMA NoneBelow ==
  ASSUME NEW bytes \in [1..WordBytes -> Byte], NEW k \in 1..128, Below(Word(bytes), k) = {}
  PROVE  \A i \in 1..WordBytes : bytes[i] >= k
<1> DEFINE S == {n \in Nat : n <= WordBytes => \A i \in 1..n : bytes[i] >= k}
<1>1. 0 \in S
  OBVIOUS
<1>2. ASSUME NEW n \in Nat, n \in S PROVE n + 1 \in S
  <2> SUFFICES ASSUME n + 1 <= WordBytes PROVE \A i \in 1..n + 1 : bytes[i] >= k
    OBVIOUS
  <2>1. n \in 0..WordBytes - 1 /\ n <= WordBytes /\ n + 1 \in 1..WordBytes
    BY Sizes
  <2>2. \A i \in 1..n : bytes[i] >= k
    BY <1>2, <2>1
  <2>3. ~(bytes[n + 1] < k)
    BY <2>1, <2>2, ByteMarked
  <2>4. bytes[n + 1] \in Int
    BY <2>1, ByteRange
  <2>5. bytes[n + 1] >= k
    BY <2>3, <2>4
  <2> QED BY <2>2, <2>5
<1>3. \A n \in Nat : n \in S
  <2> HIDE DEF S
  <2> QED BY <1>1, <1>2, Induction
<1> QED BY <1>3, Sizes

-----------------------------------------------------------------------------
TypeOK ==
  /\ fn \in {TARGET, FIELD, FIND, IS_TOKEN, SKIP_LWS}
  /\ text \in Seq(Byte) /\ allow_spaces \in BOOLEAN
  /\ stage \in {"called", "pairs", "words", "blocks", "bytes", "returned"}
  /\ p \in Nat /\ loaded \in Nat

(* Which function is in which loop.                                        *)
LoopOf ==
  /\ stage = "pairs"  => fn = FIELD
  /\ stage = "words"  => fn = FIELD \/ (fn = TARGET /\ ~allow_spaces)
  /\ stage = "blocks" => fn \in {FIND, IS_TOKEN}

(* What has been passed is free of bytes that end the scan.                *)
Passed == stage # "returned" => \A i \in 1..p : ~Rejected(text[i])

IInv == TypeOK /\ LoopOf /\ LoadsInside /\ Passed /\ VerdictExact

LEMMA Distinct ==
  /\ TARGET # FIELD /\ TARGET # FIND /\ TARGET # IS_TOKEN /\ TARGET # SKIP_LWS
  /\ FIELD # FIND /\ FIELD # IS_TOKEN /\ FIELD # SKIP_LWS
  /\ FIND # IS_TOKEN /\ FIND # SKIP_LWS /\ IS_TOKEN # SKIP_LWS
  BY DEF TARGET, FIELD, FIND, IS_TOKEN, SKIP_LWS

LEMMA RejectedWhen ==
  ASSUME NEW b
  PROVE  /\ fn = TARGET => (Rejected(b) <=> ~(b = 32 /\ allow_spaces) /\ (b <= 32 \/ b = 127))
         /\ fn = FIELD => (Rejected(b) <=> b # 9 /\ (b < 32 \/ b = 127))
         /\ fn = SKIP_LWS => (Rejected(b) <=> b \notin Lws)
         /\ fn = FIND => (Rejected(b) <=> b \in delimiter)
         /\ fn = IS_TOKEN => (Rejected(b) <=> b \notin TokenChar)
         /\ fn \in {FIND, IS_TOKEN} => (Rejected(b) <=> Stops(b))
  BY Distinct DEF Rejected, Stops

LEMMA ValidWhen ==
  ASSUME NEW b \in Byte, fn \in {TARGET, FIELD, IS_TOKEN}, allow_spaces \in BOOLEAN
  PROVE  Valid(b) <=> ~Rejected(b)
<1>1. CASE fn = TARGET
  BY <1>1, Distinct DEF Valid, Rejected, Byte
<1>2. CASE fn = FIELD
  BY <1>2, Distinct DEF Valid, Rejected, Byte
<1>3. CASE fn = IS_TOKEN
  BY <1>3, Distinct DEF Valid, Rejected, Stops
<1> QED BY <1>1, <1>2, <1>3

LEMMA TextBytes ==
  ASSUME TypeOK
  PROVE  len \in Nat /\ \A i \in 1..len : text[i] \in Byte
  BY LenProperties DEF TypeOK, len

LEMMA FirstAtNone ==
  ASSUME NEW S, \A i \in 1..len : text[i] \notin S
  PROVE  FirstAt(S) = len
  BY DEF FirstAt

LEMMA FirstAtFound ==
  ASSUME TypeOK, NEW S, NEW q \in Nat, q < len, text[q + 1] \in S, \A i \in 1..q : text[i] \notin S
  PROVE  FirstAt(S) = q
<1>1. len \in Nat /\ q + 1 \in 1..len
  BY TextBytes
<1> DEFINE c == CHOOSE i \in 1..len : text[i] \in S /\ \A j \in 1..i - 1 : text[j] \notin S
<1>2. FirstAt(S) = c - 1
  BY <1>1 DEF FirstAt
<1>3. \E i \in 1..len : text[i] \in S /\ \A j \in 1..i - 1 : text[j] \notin S
  <2>1. (q + 1) - 1 = q
    OBVIOUS
  <2> QED BY <1>1, <2>1
<1>4. c \in 1..len /\ text[c] \in S /\ \A j \in 1..c - 1 : text[j] \notin S
  BY <1>3
<1> HIDE DEF c
<1>5. c \notin 1..q /\ q + 1 \notin 1..c - 1
  BY <1>4
<1>6. c = q + 1
  BY <1>1, <1>4, <1>5
<1> QED BY <1>2, <1>6

(* What the call should answer.                                            *)
Verdict ==
  CASE fn = FIND     -> <<FirstAt(delimiter)>>
    [] fn = SKIP_LWS -> <<FirstAt(Byte \ Lws)>>
    [] OTHER         -> <<\A i \in 1..len : Valid(text[i])>>

LEMMA VerdictWhen ==
  /\ fn = FIND => Verdict = <<FirstAt(delimiter)>>
  /\ fn = SKIP_LWS => Verdict = <<FirstAt(Byte \ Lws)>>
  /\ fn \in {TARGET, FIELD, IS_TOKEN} => Verdict = <<\A i \in 1..len : Valid(text[i])>>
  BY Distinct DEF Verdict

(* Nothing in the text ends the scan: the answer at the end is right.      *)
LEMMA EndVerdict ==
  ASSUME TypeOK, \A i \in 1..len : ~Rejected(text[i])
  PROVE  Verdict = <<EndAnswer>>
<1>1. CASE fn = FIND
  <2>1. \A i \in 1..len : text[i] \notin delimiter
    BY <1>1, RejectedWhen
  <2> QED BY <1>1, <2>1, FirstAtNone, VerdictWhen DEF EndAnswer
<1>2. CASE fn = SKIP_LWS
  <2>1. \A i \in 1..len : text[i] \notin Byte \ Lws
    BY <1>2, RejectedWhen
  <2> QED BY <1>2, <2>1, FirstAtNone, VerdictWhen DEF EndAnswer
<1>3. CASE fn \in {TARGET, FIELD, IS_TOKEN}
  <2>1. \A i \in 1..len : Valid(text[i])
    BY <1>3, TextBytes, ValidWhen DEF TypeOK
  <2>2. (\A i \in 1..len : Valid(text[i])) = TRUE
    BY <2>1
  <2>3. EndAnswer = TRUE
    BY <1>3, Distinct DEF EndAnswer
  <2> QED BY <1>3, <2>2, <2>3, VerdictWhen, Zenon
<1> QED BY <1>1, <1>2, <1>3 DEF TypeOK

(* The first byte that ends the scan is at q: the early answer is right.   *)
LEMMA EarlyVerdict ==
  ASSUME TypeOK, NEW q \in Nat, q < len, Rejected(text[q + 1]), \A i \in 1..q : ~Rejected(text[i])
  PROVE  Verdict = <<IF fn \in {FIND, SKIP_LWS} THEN q ELSE FALSE>>
<1>0. len \in Nat /\ q + 1 \in 1..len /\ text[q + 1] \in Byte
  BY TextBytes
<1>1. CASE fn = FIND
  <2>1. text[q + 1] \in delimiter /\ \A i \in 1..q : text[i] \notin delimiter
    BY <1>1, RejectedWhen
  <2> QED BY <1>1, <2>1, FirstAtFound, VerdictWhen
<1>2. CASE fn = SKIP_LWS
  <2>1. text[q + 1] \in Byte \ Lws /\ \A i \in 1..q : text[i] \notin Byte \ Lws
    BY <1>0, <1>2, RejectedWhen
  <2> QED BY <1>2, <2>1, FirstAtFound, VerdictWhen
<1>3. CASE fn \in {TARGET, FIELD, IS_TOKEN}
  <2>1. ~Valid(text[q + 1])
    BY <1>0, <1>3, ValidWhen DEF TypeOK
  <2>2. (\A i \in 1..len : Valid(text[i])) = FALSE
    BY <1>0, <2>1, Zenon
  <2>3. (IF fn \in {FIND, SKIP_LWS} THEN q ELSE FALSE) = FALSE
    BY <1>3, Distinct
  <2> QED BY <1>3, <2>2, <2>3, VerdictWhen, Zenon
<1> QED BY <1>1, <1>2, <1>3 DEF TypeOK

(* A word that raises no suspicion has no byte below k and no DEL.         *)
LEMMA WordClean ==
  ASSUME TypeOK, NEW n \in Nat, NEW k \in {32, 33}, p + n + WordBytes <= len, ~Suspect(n, k)
  PROVE  \A i \in 1..WordBytes : /\ text[p + n + i] \in Byte /\ text[p + n + i] >= k
                                 /\ text[p + n + i] # 127
<1> DEFINE B == Chunk(n)
           X == Xor7f(B)
<1>1. \A i \in 1..WordBytes : B[i] = text[p + n + i] /\ text[p + n + i] \in Byte
  <2> SUFFICES ASSUME NEW i \in 1..WordBytes PROVE B[i] = text[p + n + i] /\ text[p + n + i] \in Byte
    OBVIOUS
  <2>1. p + n + i \in 1..len
    BY Sizes, TextBytes DEF TypeOK
  <2> QED BY <2>1, TextBytes DEF Chunk
<1>2. B \in [1..WordBytes -> Byte]
  BY <1>1 DEF Chunk
<1>3. \A i \in 1..WordBytes : X[i] \in Byte /\ (X[i] >= 1 => B[i] # 127)
  <2> SUFFICES ASSUME NEW i \in 1..WordBytes PROVE X[i] \in Byte /\ (X[i] >= 1 => B[i] # 127)
    OBVIOUS
  <2>1. X[i] = IF B[i] < 128 THEN 127 - B[i] ELSE 383 - B[i]
    BY DEF Xor7f
  <2>2. B[i] \in Byte
    BY <1>2
  <2> HIDE DEF B, X
  <2> QED BY <2>1, <2>2 DEF Byte
<1>4. X \in [1..WordBytes -> Byte]
  BY <1>3 DEF Xor7f
<1>5. Below(Word(B), k) = {} /\ Below(Word(X), 1) = {}
  BY DEF Suspect
<1> HIDE DEF B, X
<1>6. k \in 1..128 /\ 1 \in 1..128
  OBVIOUS
<1>7. (\A i \in 1..WordBytes : B[i] >= k) /\ (\A i \in 1..WordBytes : X[i] >= 1)
  BY <1>2, <1>4, <1>5, <1>6, NoneBelow
<1> QED BY <1>1, <1>3, <1>7

(* No first hit in a block: no hit in it at all.                           *)
LEMMA NoHits ==
  ASSUME NEW n \in Nat, Hits(n) = {}
  PROVE  \A j \in 0..n - 1 : ~Stops(text[p + j + 1])
<1> DEFINE S == {m \in Nat : m <= n => \A j \in 0..m - 1 : ~Stops(text[p + j + 1])}
<1>1. 0 \in S
  OBVIOUS
<1>2. ASSUME NEW m \in Nat, m \in S PROVE m + 1 \in S
  <2> SUFFICES ASSUME m + 1 <= n PROVE \A j \in 0..m : ~Stops(text[p + j + 1])
    OBVIOUS
  <2>1. m \in 0..n - 1 /\ \A j \in 0..m - 1 : ~Stops(text[p + j + 1])
    BY <1>2
  <2>2. ~Stops(text[p + m + 1])
    BY <2>1 DEF Hits
  <2>3. \A j \in 0..m : j = m \/ j \in 0..m - 1
    OBVIOUS
  <2> QED BY <2>1, <2>2, <2>3
<1>3. \A m \in Nat : m \in S
  <2> HIDE DEF S
  <2> QED BY <1>1, <1>2, Induction
<1> QED BY <1>3

-----------------------------------------------------------------------------
LEMMA InitIInv == Init => IInv
<1> SUFFICES ASSUME Init PROVE IInv
  OBVIOUS
<1>1. TypeOK
  <2>1. text \in Seq(Byte)
    BY ScanAssumption DEF Init
  <2>2. allow_spaces \in BOOLEAN
    BY DEF Init
  <2> QED BY <2>1, <2>2 DEF Init, TypeOK
<1>2. LoopOf /\ Passed /\ VerdictExact
  BY DEF Init, LoopOf, Passed, VerdictExact
<1>3. LoadsInside
  BY <1>1, TextBytes DEF Init, LoadsInside
<1> QED BY <1>1, <1>2, <1>3 DEF IInv

(* A step leaves the arguments alone, and with them every judgement about  *)
(* the text.                                                               *)
LEMMA SameArguments ==
  ASSUME UNCHANGED args
  PROVE  /\ fn' = fn /\ text' = text /\ allow_spaces' = allow_spaces /\ len' = len
         /\ \A b : Rejected(b)' = Rejected(b)
         /\ Verdict' = Verdict
  BY DEF args, len, Rejected, Stops, delimiter, Verdict, FirstAt, Valid

(* Loading up to end, an offset inside the text.                           *)
LEMMA LoadInside ==
  ASSUME IInv, NEW end \in Nat, end <= len, Load(end) \/ UNCHANGED loaded
  PROVE  loaded' \in Nat /\ loaded' <= len
  BY TextBytes DEF IInv, TypeOK, LoadsInside, Load, Max2

(* Going on to another loop.                                               *)
LEMMA GotoPreserves ==
  ASSUME IInv, stage # "returned", NEW s \in {"pairs", "words", "blocks", "bytes"}, Goto(s),
         NEW end \in Nat, end <= len, Load(end) \/ UNCHANGED loaded,
         s = "pairs" => fn = FIELD,
         s = "words" => fn = FIELD \/ (fn = TARGET /\ ~allow_spaces),
         s = "blocks" => fn \in {FIND, IS_TOKEN}
  PROVE  IInv'
<1> USE DEF Goto
<1>1. loaded' \in Nat /\ loaded' <= len
  BY LoadInside
<1>2. TypeOK'
  BY <1>1, SameArguments DEF IInv, TypeOK
<1>3. LoopOf'
  BY SameArguments DEF LoopOf
<1>4. LoadsInside'
  BY <1>1, SameArguments DEF IInv, LoadsInside
<1>5. Passed'
  BY SameArguments DEF IInv, Passed
<1>6. VerdictExact'
  BY DEF VerdictExact
<1> QED BY <1>2, <1>3, <1>4, <1>5, <1>6 DEF IInv

(* Moving on over n bytes none of which ends the scan.                     *)
LEMMA AdvancePreserves ==
  ASSUME IInv, stage # "returned", NEW n \in Nat, p + n <= len, Advance(n),
         NEW end \in Nat, end <= len, Load(end) \/ UNCHANGED loaded,
         \A i \in p + 1..p + n : ~Rejected(text[i])
  PROVE  IInv'
<1> USE DEF Advance
<1>1. loaded' \in Nat /\ loaded' <= len
  BY LoadInside
<1>2. TypeOK'
  BY <1>1, SameArguments DEF IInv, TypeOK
<1>3. LoopOf'
  BY SameArguments DEF IInv, LoopOf
<1>4. LoadsInside'
  BY <1>1, SameArguments DEF IInv, LoadsInside
<1>5. Passed'
  <2>1. \A i \in 1..p + n : i \in 1..p \/ i \in p + 1..p + n
    BY DEF IInv, TypeOK
  <2>2. \A i \in 1..p + n : ~Rejected(text[i])
    BY <2>1 DEF IInv, Passed
  <2> QED BY <2>2, SameArguments DEF Passed
<1>6. VerdictExact'
  BY DEF VerdictExact
<1> QED BY <1>2, <1>3, <1>4, <1>5, <1>6 DEF IInv

(* Returning the right answer.                                             *)
LEMMA ReturnPreserves ==
  ASSUME IInv, NEW a, Return(a), Verdict = <<a>>,
         NEW end \in Nat, end <= len, Load(end) \/ UNCHANGED loaded
  PROVE  IInv'
<1> USE DEF Return
<1>1. loaded' \in Nat /\ loaded' <= len
  BY LoadInside
<1>2. TypeOK'
  BY <1>1, SameArguments DEF IInv, TypeOK
<1>3. LoopOf' /\ Passed'
  BY DEF LoopOf, Passed
<1>4. LoadsInside'
  BY <1>1, SameArguments DEF IInv, LoadsInside
<1>5. VerdictExact'
  <2>1. answer' = Verdict'
    BY SameArguments
  <2> QED BY <2>1 DEF VerdictExact, Verdict
<1> QED BY <1>2, <1>3, <1>4, <1>5 DEF IInv

LEMMA BeginPreserves == ASSUME IInv, Begin PROVE IInv'
<1>1. /\ FirstLoop \in {"pairs", "words", "blocks", "bytes"}
      /\ FirstLoop = "pairs" => fn = FIELD
      /\ FirstLoop = "words" => fn = FIELD \/ (fn = TARGET /\ ~allow_spaces)
      /\ FirstLoop = "blocks" => fn \in {FIND, IS_TOKEN}
  BY Distinct DEF IInv, TypeOK, FirstLoop
<1>2. 0 \in Nat /\ 0 <= len
  BY TextBytes DEF IInv
<1> QED BY <1>1, <1>2, GotoPreserves DEF Begin

LEMMA PairsPreserves == ASSUME IInv, Pairs PROVE IInv'
<1>1. stage = "pairs" /\ fn = FIELD /\ p \in Nat /\ len \in Nat /\ p <= len /\ WordBytes \in Nat
  BY TextBytes, Sizes DEF Pairs, IInv, LoopOf, TypeOK, LoadsInside
<1>2. CASE Goto("words") /\ UNCHANGED loaded
  BY <1>1, <1>2, GotoPreserves
<1> DEFINE end == p + 2 * WordBytes
<1>3. CASE PairsFit /\ Load(end)
  <2>1. end \in Nat /\ end <= len /\ 2 * WordBytes \in Nat
    BY <1>1, <1>3 DEF PairsFit, left
  <2>2. CASE Goto("words")
    <3> HIDE DEF end
    <3> QED BY <1>1, <1>3, <2>1, <2>2, GotoPreserves
  <2>3. CASE ~Suspect(0, 32) /\ ~Suspect(WordBytes, 32) /\ Advance(2 * WordBytes)
    <3>1. p + 0 + WordBytes <= len /\ p + WordBytes + WordBytes <= len /\ 0 \in Nat /\ 32 \in {32, 33}
      BY <1>1, <2>1
    <3>2. \A i \in 1..WordBytes : /\ text[p + 0 + i] \in Byte /\ text[p + 0 + i] >= 32
                                  /\ text[p + 0 + i] # 127
      BY <2>3, <3>1, WordClean DEF IInv
    <3>3. \A i \in 1..WordBytes : /\ text[p + WordBytes + i] \in Byte
                                  /\ text[p + WordBytes + i] >= 32 /\ text[p + WordBytes + i] # 127
      BY <1>1, <2>3, <3>1, WordClean DEF IInv
    <3>4. ASSUME NEW i \in p + 1..end PROVE text[i] \in Byte /\ text[i] >= 32 /\ text[i] # 127
      <4>1. CASE i <= p + WordBytes
        <5>1. i - p \in 1..WordBytes /\ p + 0 + (i - p) = i
          BY <1>1, <4>1
        <5> QED BY <3>2, <5>1
      <4>2. CASE i > p + WordBytes
        <5>1. i - p - WordBytes \in 1..WordBytes /\ p + WordBytes + (i - p - WordBytes) = i
          BY <1>1, <4>2
        <5> QED BY <3>3, <5>1
      <4> QED BY <1>1, <4>1, <4>2
    <3>5. \A i \in p + 1..p + 2 * WordBytes : ~Rejected(text[i])
      <4> SUFFICES ASSUME NEW i \in p + 1..p + 2 * WordBytes PROVE ~Rejected(text[i])
        OBVIOUS
      <4>1. text[i] \in Byte /\ text[i] >= 32 /\ text[i] # 127
        BY <3>4
      <4> QED BY <1>1, <4>1, RejectedWhen, ByteRange
    <3> DEFINE n == 2 * WordBytes
    <3>6. n \in Nat /\ p + n <= len /\ Advance(n) /\ \A i \in p + 1..p + n : ~Rejected(text[i])
      BY <2>1, <2>3, <3>5
    <3> HIDE DEF n, end
    <3> QED BY <1>1, <1>3, <2>1, <3>6, AdvancePreserves
  <2> QED BY <1>1, <1>3, <2>2, <2>3 DEF Pairs
<1> QED BY <1>2, <1>3 DEF Pairs

LEMMA WordsPreserves == ASSUME IInv, Words PROVE IInv'
<1>1. /\ stage = "words" /\ (fn = FIELD \/ (fn = TARGET /\ ~allow_spaces))
      /\ p \in Nat /\ len \in Nat /\ p <= len /\ WordBytes \in Nat
  BY TextBytes, Sizes DEF Words, IInv, LoopOf, TypeOK, LoadsInside
<1>2. CASE Goto("bytes") /\ UNCHANGED loaded
  BY <1>1, <1>2, GotoPreserves
<1> DEFINE end == p + WordBytes
           k   == IF fn = TARGET THEN 33 ELSE 32
<1>3. CASE left >= WordBytes /\ Load(end)
  <2>1. end \in Nat /\ end <= len /\ p + 0 + WordBytes <= len
    BY <1>1, <1>3 DEF left
  <2>2. CASE Goto("bytes")
    <3> HIDE DEF end
    <3> QED BY <1>1, <1>3, <2>1, <2>2, GotoPreserves
  <2>3. CASE ~Suspect(0, k) /\ WordPassed
    <3>1. k \in {32, 33} /\ 0 \in Nat
      OBVIOUS
    <3>2. \A i \in 1..WordBytes : /\ text[p + 0 + i] \in Byte /\ text[p + 0 + i] >= k
                                  /\ text[p + 0 + i] # 127
      <4> HIDE DEF k
      <4> QED BY <2>1, <2>3, <3>1, WordClean DEF IInv
    <3>3. ASSUME NEW i \in p + 1..p + WordBytes PROVE ~Rejected(text[i])
      <4>1. i - p \in 1..WordBytes /\ p + 0 + (i - p) = i
        BY <1>1
      <4>2. text[i] \in Byte /\ text[i] >= k /\ text[i] # 127
        BY <3>2, <4>1
      <4>3. text[i] \in Int
        BY <4>2, ByteRange
      <4> QED BY <1>1, <4>2, <4>3, RejectedWhen, Distinct
    <3>4. Advance(WordBytes) /\ p + WordBytes <= len
      BY <2>1, <2>3 DEF WordPassed
    <3> HIDE DEF end
    <3> QED BY <1>1, <1>3, <2>1, <3>3, <3>4, AdvancePreserves
  <2> QED BY <1>1, <1>3, <2>2, <2>3 DEF Words
<1> QED BY <1>2, <1>3 DEF Words

LEMMA BlocksPreserves == ASSUME IInv, Blocks PROVE IInv'
<1>1. /\ stage = "blocks" /\ fn \in {FIND, IS_TOKEN} /\ block \in Nat
      /\ p \in Nat /\ len \in Nat /\ p <= len /\ \A i \in 1..p : ~Rejected(text[i])
  BY TextBytes, Sizes DEF Blocks, IInv, LoopOf, TypeOK, LoadsInside, Passed, block
<1>2. CASE Goto("bytes") /\ UNCHANGED loaded
  BY <1>1, <1>2, GotoPreserves
<1> DEFINE end == p + block
<1>3. CASE p + block <= len /\ Load(end)
  <2>1. end \in Nat /\ end <= len
    BY <1>1, <1>3
  <2>2. CASE Hits(block) = {} /\ Advance(block)
    <3>1. \A j \in 0..block - 1 : ~Stops(text[p + j + 1])
      BY <1>1, <2>2, NoHits
    <3>2. ASSUME NEW i \in p + 1..p + block PROVE ~Rejected(text[i])
      <4>1. i - p - 1 \in 0..block - 1 /\ p + (i - p - 1) + 1 = i
        BY <1>1
      <4>2. ~Stops(text[i])
        BY <3>1, <4>1
      <4> QED BY <1>1, <4>2, RejectedWhen
    <3> HIDE DEF end
    <3> QED BY <1>1, <1>3, <2>1, <2>2, <3>2, AdvancePreserves
  <2>3. ASSUME NEW j \in Hits(block), Return(IF fn = FIND THEN p + j ELSE FALSE) PROVE IInv'
    <3>1. /\ j \in 0..block - 1 /\ Stops(text[p + j + 1])
          /\ \A i \in 0..j - 1 : ~Stops(text[p + i + 1])
      BY DEF Hits
    <3> DEFINE q == p + j
    <3>2. q \in Nat /\ q < len
      BY <1>1, <1>3, <3>1
    <3>3. Rejected(text[q + 1])
      BY <1>1, <3>1, RejectedWhen
    <3>4. \A i \in 1..q : ~Rejected(text[i])
      <4> SUFFICES ASSUME NEW i \in 1..q PROVE ~Rejected(text[i])
        OBVIOUS
      <4>1. CASE i <= p
        BY <1>1, <4>1
      <4>2. CASE i > p
        <5>1. i - p - 1 \in 0..j - 1 /\ p + (i - p - 1) + 1 = i
          BY <1>1, <3>1, <4>2
        <5>2. ~Stops(text[i])
          BY <3>1, <5>1
        <5> QED BY <1>1, <5>2, RejectedWhen
      <4> QED BY <1>1, <3>2, <4>1, <4>2
    <3> DEFINE a == IF fn = FIND THEN q ELSE FALSE
    <3>5. Return(a)
      BY <2>3
    <3> HIDE DEF q, end
    <3>6. Verdict = <<IF fn \in {FIND, SKIP_LWS} THEN q ELSE FALSE>>
      BY <3>2, <3>3, <3>4, EarlyVerdict DEF IInv
    <3>7. (IF fn \in {FIND, SKIP_LWS} THEN q ELSE FALSE) = a
      BY <1>1, Distinct
    <3>8. Verdict = <<a>>
      BY <3>6, <3>7, Zenon
    <3> HIDE DEF a
    <3> QED BY <1>3, <2>1, <3>5, <3>8, ReturnPreserves
  <2>4. CASE \E j \in Hits(block) : Return(IF fn = FIND THEN p + j ELSE FALSE)
    BY <2>3, <2>4, Zenon
  <2>5. ~(p + block > len)
    BY <1>1, <1>3
  <2> QED BY <2>2, <2>4, <2>5, Zenon DEF Blocks
<1> QED BY <1>2, <1>3 DEF Blocks

LEMMA BytesPreserves == ASSUME IInv, Bytes PROVE IInv'
<1>1. /\ stage = "bytes" /\ p \in Nat /\ len \in Nat /\ p <= len
      /\ \A i \in 1..p : ~Rejected(text[i])
  BY TextBytes DEF Bytes, IInv, TypeOK, LoadsInside, Passed
<1>2. CASE p >= len /\ Return(EndAnswer) /\ UNCHANGED loaded
  <2>1. \A i \in 1..len : ~Rejected(text[i])
    BY <1>1, <1>2
  <2>2. Verdict = <<EndAnswer>>
    BY <2>1, EndVerdict DEF IInv
  <2> QED BY <1>1, <1>2, <2>2, ReturnPreserves
<1> DEFINE end == p + 1
<1>3. CASE p < len /\ Load(end)
  <2>1. end \in Nat /\ end <= len /\ 1 \in Nat /\ p + 1 <= len
    BY <1>1, <1>3
  <2>2. CASE Rejected(at) /\ Return(EarlyAnswer)
    <3>1. Verdict = <<EarlyAnswer>>
      BY <1>1, <1>3, <2>2, EarlyVerdict DEF IInv, EarlyAnswer, at
    <3> HIDE DEF end
    <3> QED BY <1>3, <2>1, <2>2, <3>1, ReturnPreserves
  <2>3. CASE ~Rejected(at) /\ Advance(1)
    <3>1. \A i \in p + 1..p + 1 : ~Rejected(text[i])
      <4>1. \A i \in p + 1..p + 1 : i = p + 1
        BY <1>1
      <4> QED BY <2>3, <4>1 DEF at
    <3> HIDE DEF end
    <3> QED BY <1>1, <1>3, <2>1, <2>3, <3>1, AdvancePreserves
  <2> QED BY <1>1, <1>3, <2>2, <2>3 DEF Bytes
<1> QED BY <1>2, <1>3 DEF Bytes

LEMMA NextIInv == ASSUME IInv, [Next]_vars PROVE IInv'
<1>1. CASE UNCHANGED vars
  <2>1. UNCHANGED args /\ UNCHANGED <<stage, p, answer, loaded>>
    BY <1>1 DEF vars
  <2>2. TypeOK' /\ LoopOf' /\ LoadsInside' /\ Passed'
    BY <2>1, SameArguments DEF IInv, TypeOK, LoopOf, LoadsInside, Passed
  <2>3. VerdictExact'
    <3>1. VerdictExact <=> (stage = "returned" => answer = Verdict)
      BY DEF VerdictExact, Verdict
    <3>2. VerdictExact' <=> (stage' = "returned" => answer' = Verdict')
      BY DEF VerdictExact, Verdict
    <3> QED BY <2>1, <3>1, <3>2, SameArguments DEF IInv
  <2> QED BY <2>2, <2>3 DEF IInv
<1> QED BY <1>1, BeginPreserves, PairsPreserves, WordsPreserves, BlocksPreserves, BytesPreserves
        DEF Next

-----------------------------------------------------------------------------
(* The inductive invariant holds throughout: each loop passes only bytes   *)
(* the byte loop would have passed.                                        *)
THEOREM Invariance == Spec => []IInv
  BY InitIInv, NextIInv, PTL DEF Spec

(* A validator that tests a word or a pair of words at once, and a kernel  *)
(* that tests a block, answer what testing every byte by itself would      *)
(* (src/ihtp_parser.c:235-343 and the kernels): for every text and every   *)
(* size of word, the eight bytes of a uint64_t among them.                 *)
THEOREM Exact == Spec => []VerdictExact
<1>1. IInv => VerdictExact
  BY DEF IInv
<1> QED BY <1>1, Invariance, PTL

(* No loop loads a byte past the end of the text, in whichever order the   *)
(* wide loops hand over to the narrow ones.                                *)
THEOREM Inside == Spec => []LoadsInside
<1>1. IInv => LoadsInside
  BY DEF IInv
<1> QED BY <1>1, Invariance, PTL
=============================================================================
