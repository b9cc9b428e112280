---------------------------- MODULE SequenceLemmas ----------------------------
(***************************************************************************)
(* What the proofs about recursive functions and about sequences put       *)
(* together need: the least of a set of numbers (by which they go by       *)
(* induction), that a recursive function exists, and where the elements of *)
(* pieces are once these are one after another.                            *)
(***************************************************************************)
EXTENDS SequencesExt, SequenceTheorems, WellFoundedInduction, TLAPS

-----------------------------------------------------------------------------
(* Numbers *)

(* A set of numbers has a least one.                                       *)
LEMMA LeastOf ==
  ASSUME NEW S, S \subseteq Nat, S # {}
  PROVE  \E i \in S : \A j \in S : i <= j
<1>1. IsWellFoundedOn(OpToRel(<, Nat), Nat)
  BY NatLessThanWellFounded
<1>2. PICK i \in S : \A j \in S : ~(<<j, i>> \in OpToRel(<, Nat))
  BY <1>1, WFMin
<1>3. OpToRel(<, Nat) = {ss \in Nat \X Nat : ss[1] < ss[2]}
  BY DEF OpToRel
<1>4. ASSUME NEW j \in S PROVE i <= j
  <2>1. <<j, i>> \in Nat \X Nat /\ i \in Nat /\ j \in Nat
    OBVIOUS
  <2>2. ~(j < i)
    BY <1>2, <1>3, <2>1
  <2> QED  BY <2>1, <2>2
<1> QED  BY <1>4

(* What holds of m, and of each number whose predecessor it holds of,      *)
(* holds up to n.                                                          *)
LEMMA Climbs ==
  ASSUME NEW m \in Nat, NEW n \in Nat, NEW S, m \in S,
         \A i \in (m + 1)..n : i - 1 \in S => i \in S
  PROVE  m..n \subseteq S
<1> DEFINE Bad == (m..n) \ S
<1> SUFFICES ASSUME Bad # {} PROVE FALSE
  OBVIOUS
<1>1. PICK i \in Bad : \A k \in Bad : i <= k
  <2>1. Bad \subseteq Nat
    OBVIOUS
  <2> QED  BY <2>1, LeastOf
<1>2. i \in (m + 1)..n /\ i - 1 \in m..n /\ ~(i <= i - 1)
  BY <1>1
<1>3. i - 1 \in S
  BY <1>1, <1>2
<1> QED  BY <1>1, <1>2, <1>3

(* The least and the greatest of numbers are among them.                   *)
LEMMA MinOf ==
  ASSUME NEW S, S \subseteq Nat, S # {}
  PROVE  Min(S) \in S /\ \A j \in S : Min(S) <= j
BY LeastOf DEF Min

LEMMA MaxOf ==
  ASSUME NEW n \in Nat, NEW S, S \subseteq 1..n, S # {}
  PROVE  Max(S) \in S /\ \A j \in S : Max(S) >= j
<1> DEFINE Down == {n - i : i \in S}
<1>1. Down \subseteq Nat /\ Down # {}
  <2>1. \A i \in S : n - i \in Nat
    OBVIOUS
  <2> QED  BY <2>1
<1>2. PICK m \in Down : \A d \in Down : m <= d
  BY <1>1, LeastOf
<1>3. PICK i \in S : m = n - i
  BY <1>2
<1>4. ASSUME NEW j \in S PROVE i >= j
  <2>1. n - j \in Down
    OBVIOUS
  <2>2. n - i <= n - j
    BY <1>2, <1>3, <2>1
  <2> QED  BY <2>2
<1> QED  BY <1>4 DEF Max

-----------------------------------------------------------------------------
(* Recursive functions *)

(* A value for each number from 0 to n is defined by the first and by what *)
(* G makes of each number and of the value before.                         *)
Chain(f, V, v0, n, G) ==
  f \in [0..n -> V] /\ f[0] = v0 /\ \A i \in 1..n : f[i] = G[<<i, f[i - 1]>>]

LEMMA OneAfterAnother ==
  ASSUME NEW V, NEW v0 \in V, NEW n \in Nat, NEW G \in [(1..n) \X V -> V]
  PROVE  \E f : Chain(f, V, v0, n, G)
<1> DEFINE Up(m) == \E f \in [0..m -> V] : f[0] = v0 /\ \A i \in 1..m : f[i] = G[<<i, f[i - 1]>>]
           Bad == {m \in 0..n : ~Up(m)}
<1> SUFFICES ASSUME Bad # {} PROVE FALSE
  <2>1. n \in 0..n
    OBVIOUS
  <2>2. SUFFICES Up(n)
    BY DEF Chain
  <2> HIDE DEF Up
  <2> QED  BY <2>1
<1>0. Bad \subseteq 0..n /\ \A m \in 0..n : m \in Bad <=> ~Up(m)
  OBVIOUS
<1> HIDE DEF Up, Bad
<1>1. PICK m \in Bad : \A k \in Bad : m <= k
  <2>1. Bad \subseteq Nat /\ Bad # {}
    BY <1>0
  <2> QED  BY <2>1, LeastOf
<1>2. m # 0
  <2> DEFINE f0 == [i \in 0..0 |-> v0]
  <2>1. f0 \in [0..0 -> V] /\ f0[0] = v0 /\ 1..0 = {}
    OBVIOUS
  <2> HIDE DEF f0
  <2>2. Up(0)
    BY <2>1 DEF Up
  <2> QED  BY <1>0, <1>1, <2>2
<1>3. m - 1 \in 0..n /\ m \in 1..n
  BY <1>0, <1>1, <1>2
<1>4. PICK f \in [0..(m - 1) -> V] : f[0] = v0 /\ \A i \in 1..(m - 1) : f[i] = G[<<i, f[i - 1]>>]
  <2>1. m - 1 \notin Bad
    BY <1>0, <1>1, <1>3
  <2> QED  BY <1>0, <1>3, <2>1 DEF Up
<1> DEFINE g == [i \in 0..m |-> IF i = m THEN G[<<m, f[m - 1]>>] ELSE f[i]]
<1>5. g \in [0..m -> V]
  <2>1. G[<<m, f[m - 1]>>] \in V
    BY <1>3, <1>4
  <2>2. \A i \in 0..m : i # m => f[i] \in V
    BY <1>3, <1>4
  <2> QED  BY <2>1, <2>2
<1>6. g[0] = v0
  BY <1>3, <1>4
<1>7. ASSUME NEW i \in 1..m PROVE g[i] = G[<<i, g[i - 1]>>]
  <2>1. i - 1 \in 0..m /\ i - 1 # m /\ g[i - 1] = f[i - 1]
    BY <1>3
  <2>2. CASE i = m
    BY <1>3, <2>1, <2>2 DEF g
  <2>3. CASE i # m
    <3>1. i \in 1..(m - 1) /\ g[i] = f[i]
      BY <1>3, <2>3
    <3> QED  BY <1>4, <2>1, <3>1
  <2> QED  BY <2>2, <2>3
<1>8. Up(m)
  <2> HIDE DEF g
  <2> QED  BY <1>5, <1>6, <1>7 DEF Up
<1> QED  BY <1>0, <1>1, <1>3, <1>8

-----------------------------------------------------------------------------
(* Sequences put together *)

(* Where the elements of two sequences are in the two together.          *)
LEMMA PlacesOfConcat ==
  ASSUME NEW S, NEW s \in Seq(S), NEW t \in Seq(S)
  PROVE  /\ Len(s) \in Nat /\ Len(t) \in Nat
         /\ Len(s \o t) = Len(s) + Len(t) /\ Len(s) <= Len(s \o t)
         /\ \A x \in 1..Len(s) : (s \o t)[x] = s[x]
         /\ \A x \in 1..Len(t) : (s \o t)[Len(s) + x] = t[x]
<1>1. Len(s) \in Nat /\ Len(t) \in Nat
  BY LenProperties
<1>2. /\ Len(s \o t) = Len(s) + Len(t)
      /\ \A x \in 1 .. Len(s) + Len(t) : (s \o t)[x] = IF x <= Len(s) THEN s[x] ELSE t[x - Len(s)]
  BY ConcatProperties
<1> DEFINE k == Len(s)
           l == Len(t)
           u == s \o t
<1>3. k \in Nat /\ l \in Nat /\ Len(u) = k + l
      /\ \A x \in 1 .. k + l : u[x] = IF x <= k THEN s[x] ELSE t[x - k]
  BY <1>1, <1>2
<1> HIDE DEF k, l, u
<1>4. ASSUME NEW x \in 1..k PROVE u[x] = s[x]
  <2>1. x \in 1 .. k + l /\ x <= k
    BY <1>3
  <2> QED  BY <1>3, <2>1
<1>5. ASSUME NEW x \in 1..l PROVE u[k + x] = t[x]
  <2>1. k + x \in 1 .. k + l /\ ~(k + x <= k) /\ k + x - k = x
    BY <1>3
  <2> QED  BY <1>3, <2>1
<1>6. k <= Len(u)
  BY <1>3
<1> QED  BY <1>3, <1>4, <1>5, <1>6 DEF k, l, u

(* How a sequence of pieces is put together, one after another.            *)
Together(pieces, f) ==
  /\ f[0] = <<>>
  /\ \A i \in 1..Len(pieces) : f[i] = f[i - 1] \o pieces[i]

(* What is put together begins with each of its beginnings.                *)
Begins(f, n) ==
  \A m \in 0..n : \A k \in 0..m :
    Len(f[k]) <= Len(f[m]) /\ \A x \in 1..Len(f[k]) : f[m][x] = f[k][x]

LEMMA Beginnings ==
  ASSUME NEW S, NEW pieces \in Seq(Seq(S)), NEW f, f \in [0..Len(pieces) -> Seq(S)],
         Together(pieces, f)
  PROVE  Begins(f, Len(pieces))
<1> DEFINE n == Len(pieces)
           Fine(m) == \A k \in 0..m : /\ Len(f[k]) <= Len(f[m])
                                      /\ \A x \in 1..Len(f[k]) : f[m][x] = f[k][x]
           Bad == {m \in 0..n : ~Fine(m)}
<1>0. n \in Nat /\ (\A m \in 0..n : f[m] \in Seq(S) /\ Len(f[m]) \in Nat)
      /\ \A i \in 1..n : pieces[i] \in Seq(S)
  BY LenProperties, ElementOfSeq
<1> SUFFICES ASSUME Bad # {} PROVE FALSE
  BY DEF Begins
<1>1. Bad \subseteq 0..n /\ \A m \in 0..n : m \in Bad <=> ~Fine(m)
  OBVIOUS
<1> HIDE DEF Bad
<1>2. PICK m \in Bad : \A k \in Bad : m <= k
  <2>1. Bad \subseteq Nat
    BY <1>1
  <2> QED  BY <2>1, LeastOf
<1>3. m # 0
  <2>1. Fine(0)
    BY <1>0
  <2> QED  BY <1>1, <1>2, <2>1
<1>4. m - 1 \in 0..n /\ m \in 1..n /\ Fine(m - 1)
  <2>1. m - 1 \in 0..n /\ m \in 1..n /\ ~(m <= m - 1)
    BY <1>1, <1>2, <1>3
  <2>2. m - 1 \notin Bad
    BY <1>2, <2>1
  <2> HIDE DEF Fine
  <2> QED  BY <1>1, <2>1, <2>2
<1>5. f[m] = f[m - 1] \o pieces[m]
  BY <1>4 DEF Together
<1>6. /\ Len(f[m - 1]) <= Len(f[m])
      /\ \A x \in 1..Len(f[m - 1]) : f[m][x] = f[m - 1][x]
  <2>1. f[m - 1] \in Seq(S) /\ pieces[m] \in Seq(S) /\ Len(f[m - 1]) \in Nat /\ Len(pieces[m]) \in Nat
    BY <1>0, <1>4
  <2> DEFINE s == f[m - 1]
             t == pieces[m]
  <2>2. s \in Seq(S) /\ t \in Seq(S) /\ f[m] = s \o t
    BY <1>5, <2>1
  <2> HIDE DEF s, t
  <2>3. Len(s) <= Len(f[m]) /\ \A x \in 1..Len(s) : f[m][x] = s[x]
    BY <2>2, PlacesOfConcat
  <2> QED  BY <2>3 DEF s
<1>7. Fine(m)
  <2> SUFFICES ASSUME NEW k \in 0..m PROVE /\ Len(f[k]) <= Len(f[m])
                                           /\ \A x \in 1..Len(f[k]) : f[m][x] = f[k][x]
    OBVIOUS
  <2>1. CASE k = m
    BY <1>0, <1>4, <2>1
  <2>2. CASE k # m
    <3>1. k \in 0..(m - 1) /\ k \in 0..n
      BY <1>4, <2>2
    <3>2. /\ Len(f[k]) <= Len(f[m - 1])
          /\ \A x \in 1..Len(f[k]) : f[m - 1][x] = f[k][x]
      BY <1>4, <3>1
    <3>3. Len(f[k]) \in Nat /\ Len(f[m - 1]) \in Nat /\ Len(f[m]) \in Nat
      BY <1>0, <1>4, <3>1
    <3> QED  BY <1>6, <3>2, <3>3
  <2> QED  BY <2>1, <2>2
<1> HIDE DEF Fine
<1> QED  BY <1>1, <1>2, <1>7

=============================================================================
