------------------------ MODULE AccountSumsTheorems ------------------------
(***************************************************************************)
(* What AccountTotal computes, for every n: the lemmas the conservation    *)
(* proofs of the components cite.                                          *)
(***************************************************************************)
EXTENDS AccountSums, TLAPS, WellFoundedInduction, FiniteSetTheorems

(* Induction over an initial segment of the naturals, stated about a set   *)
(* instead of a predicate: a minimal element outside S contradicts the     *)
(* step.  It carries every lemma below.                                    *)
LEMMA SegmentInduction ==
  ASSUME NEW n \in Nat, NEW S,
         0 \in S,
         \A i \in 1..n : i-1 \in S => i \in S
  PROVE  \A i \in 0..n : i \in S
<1> DEFINE Missing == {i \in 0..n : i \notin S}
<1>1. SUFFICES ASSUME Missing # {} PROVE FALSE
  OBVIOUS
<1>2. Missing \subseteq Nat
  OBVIOUS
<1>3. PICK i \in Missing : \A j \in Missing : ~ (<<j, i>> \in OpToRel(<, Nat))
  BY <1>1, <1>2, NatLessThanWellFounded, WFMin, Zenon
<1>4. i \in 1..n /\ i-1 \in 0..n /\ i-1 \in Nat /\ i \in Nat /\ i-1 < i
  OBVIOUS
<1>5. <<i-1, i>> \in OpToRel(<, Nat)
  BY <1>4 DEF OpToRel
<1>6. i-1 \notin Missing
  BY <1>3, <1>5, Zenon
<1>7. QED
  BY <1>4, <1>6

(* The defining equation has a solution, so AccountTotal is the running    *)
(* total it looks like: 0 at 0, and f[i] more at each i.                   *)
LEMMA AccountTotalDef ==
  ASSUME NEW n \in Nat, NEW f, \A i \in 1..n : f[i] \in Int
  PROVE  \E t \in [0..n -> Int] :
           /\ t[0] = 0
           /\ \A i \in 1..n : t[i] = t[i-1] + f[i]
           /\ AccountTotal(f, n) = t[n]
<1> DEFINE Solves(t, m) == /\ t \in [0..m -> Int]
                           /\ t = [i \in 0..m |-> IF i = 0 THEN 0 ELSE t[i-1] + f[i]]
<1> DEFINE Solvable == {m \in 0..n : \E t : Solves(t, m)}
<1>1. 0 \in Solvable
  <2>1. Solves([i \in 0..0 |-> 0], 0)
    OBVIOUS
  <2>2. QED
    <3> HIDE DEF Solves
    <3>1. QED  BY <2>1
<1>2. ASSUME NEW m \in 1..n, m-1 \in Solvable
      PROVE  m \in Solvable
  <2>1. PICK t : Solves(t, m-1)
    BY <1>2
  <2> DEFINE u == [i \in 0..m |-> IF i = m THEN t[m-1] + f[m] ELSE t[i]]
  <2>2. u \in [0..m -> Int]
    BY <2>1
  <2>3. \A i \in 0..m : u[i] = IF i = 0 THEN 0 ELSE u[i-1] + f[i]
    BY <2>1
  <2>4. u = [i \in 0..m |-> IF i = 0 THEN 0 ELSE u[i-1] + f[i]]
    BY <2>3
  <2>5. Solves(u, m)
    BY <2>2, <2>4
  <2>6. QED
    <3> HIDE DEF Solves, u
    <3>1. QED  BY <2>5
<1>3. n \in Solvable
  <2>1. \A i \in 0..n : i \in Solvable
    <3> HIDE DEF Solvable
    <3>1. QED  BY <1>1, <1>2, SegmentInduction
  <2>2. QED  BY <2>1
<1> DEFINE upTo == CHOOSE t : t = [i \in 0..n |-> IF i = 0 THEN 0 ELSE t[i-1] + f[i]]
<1>4. upTo = [i \in 0..n |-> IF i = 0 THEN 0 ELSE upTo[i-1] + f[i]]
  BY <1>3
<1>5. AccountTotal(f, n) = upTo[n]
  BY Zenon DEF AccountTotal
<1>6. upTo[0] = 0 /\ \A i \in 1..n : upTo[i] = upTo[i-1] + f[i]
  <2> HIDE DEF upTo
  <2>1. QED  BY <1>4
<1>7. upTo \in [0..n -> Int]
  <2> DEFINE Good == {i \in 0..n : upTo[i] \in Int}
  <2> HIDE DEF upTo
  <2>1. 0 \in Good /\ \A i \in 1..n : i-1 \in Good => i \in Good
    BY <1>6
  <2>2. \A i \in 0..n : i \in Good
    <3> HIDE DEF Good
    <3>1. QED  BY <2>1, SegmentInduction
  <2>3. \A i \in 0..n : upTo[i] \in Int
    BY <2>2
  <2>4. QED
    BY <1>4, <2>3
<1>8. QED
  <2> HIDE DEF upTo
  <2>1. QED  BY <1>5, <1>6, <1>7

(* Changing one account's value changes the total by the difference: what  *)
(* every conservation proof comes down to.                                 *)
LEMMA AccountTotalChange ==
  ASSUME NEW n \in Nat, NEW f, NEW g, NEW k \in 1..n,
         \A i \in 1..n : f[i] \in Int /\ g[i] \in Int,
         \A i \in 1..n : i # k => g[i] = f[i]
  PROVE  AccountTotal(g, n) = AccountTotal(f, n) - f[k] + g[k]
<1>1. PICK t \in [0..n -> Int] :
        /\ t[0] = 0
        /\ \A i \in 1..n : t[i] = t[i-1] + f[i]
        /\ AccountTotal(f, n) = t[n]
  BY AccountTotalDef
<1>2. PICK u \in [0..n -> Int] :
        /\ u[0] = 0
        /\ \A i \in 1..n : u[i] = u[i-1] + g[i]
        /\ AccountTotal(g, n) = u[n]
  BY AccountTotalDef
<1>3. PICK d \in Int : d = g[k] - f[k]
  OBVIOUS
<1> DEFINE Good == {i \in 0..n : u[i] = IF i < k THEN t[i] ELSE t[i] + d}
<1>4. 0 \in Good
  BY <1>1, <1>2
<1>5. ASSUME NEW i \in 1..n, i-1 \in Good
      PROVE  i \in Good
  <2>1. u[i-1] = IF i-1 < k THEN t[i-1] ELSE t[i-1] + d
    BY <1>5
  <2>2. u[i] = u[i-1] + g[i] /\ t[i] = t[i-1] + f[i]
    BY <1>1, <1>2
  <2>3. t[i-1] \in Int /\ f[i] \in Int /\ g[i] \in Int
    OBVIOUS
  <2>4. CASE i < k
    <3>1. i-1 < k /\ i # k /\ g[i] = f[i]
      BY <2>4
    <3>2. QED  BY <2>1, <2>2, <2>4, <3>1
  <2>5. CASE i = k
    <3>1. g[i] = f[i] + d
      BY <1>3, <2>3, <2>5
    <3>2. QED  BY <2>1, <2>2, <2>3, <2>5, <3>1
  <2>6. CASE k < i
    <3>1. ~(i-1 < k) /\ ~(i < k) /\ g[i] = f[i]
      BY <2>6
    <3>2. QED  BY <2>1, <2>2, <2>3, <3>1
  <2>7. QED  BY <2>4, <2>5, <2>6
<1>6. \A i \in 0..n : i \in Good
  <2> HIDE DEF Good
  <2>1. QED  BY <1>4, <1>5, SegmentInduction
<1>7. u[n] = t[n] + d
  BY <1>6
<1>8. t[n] + d = (t[n] - f[k]) + g[k]
  <2>1. t[n] \in Int /\ f[k] \in Int /\ g[k] \in Int
    OBVIOUS
  <2>2. QED  BY <1>3, <2>1
<1>9. QED
  BY <1>1, <1>2, <1>7, <1>8, Zenon

(* The total of integers is an integer; of naturals, a natural that no     *)
(* single account exceeds.                                                 *)
LEMMA AccountTotalType ==
  ASSUME NEW n \in Nat, NEW f, \A i \in 1..n : f[i] \in Int
  PROVE  AccountTotal(f, n) \in Int
BY AccountTotalDef

LEMMA AccountTotalNat ==
  ASSUME NEW n \in Nat, NEW f, \A i \in 1..n : f[i] \in Nat
  PROVE  /\ AccountTotal(f, n) \in Nat
         /\ \A i \in 1..n : f[i] <= AccountTotal(f, n)
<1>1. PICK t \in [0..n -> Int] :
        /\ t[0] = 0
        /\ \A i \in 1..n : t[i] = t[i-1] + f[i]
        /\ AccountTotal(f, n) = t[n]
  <2>1. \A i \in 1..n : f[i] \in Int
    OBVIOUS
  <2>2. QED  BY <2>1, AccountTotalDef
<1> DEFINE Good == {i \in 0..n : t[i] >= 0 /\ \A j \in 1..i : f[j] <= t[i]}
<1>2. 0 \in Good
  BY <1>1
<1>3. ASSUME NEW i \in 1..n, i-1 \in Good
      PROVE  i \in Good
  <2>1. t[i-1] >= 0 /\ \A j \in 1..(i-1) : f[j] <= t[i-1]
    BY <1>3
  <2>2. t[i] = t[i-1] + f[i] /\ t[i-1] \in Int /\ f[i] \in Nat
    BY <1>1
  <2>3. ASSUME NEW j \in 1..i PROVE f[j] <= t[i]
    <3>1. j \in 1..(i-1) \/ j = i
      OBVIOUS
    <3>2. f[j] \in Nat
      OBVIOUS
    <3>3. QED  BY <2>1, <2>2, <3>1, <3>2
  <2>4. QED  BY <2>1, <2>2, <2>3
<1>4. \A i \in 0..n : i \in Good
  <2> HIDE DEF Good
  <2>1. QED  BY <1>2, <1>3, SegmentInduction
<1>5. QED
  BY <1>1, <1>4

LEMMA AccountTotalExcept ==
  ASSUME NEW n \in Nat, NEW f \in [1..n -> Int], NEW k \in 1..n, NEW v \in Int
  PROVE  AccountTotal([f EXCEPT ![k] = v], n) = AccountTotal(f, n) - f[k] + v
<1> DEFINE g == [f EXCEPT ![k] = v]
<1>1. /\ \A i \in 1..n : f[i] \in Int /\ g[i] \in Int
      /\ \A i \in 1..n : i # k => g[i] = f[i]
      /\ g[k] = v
  OBVIOUS
<1> HIDE DEF g
<1>2. AccountTotal(g, n) = AccountTotal(f, n) - f[k] + v
  BY <1>1, AccountTotalChange
<1>3. QED
  BY <1>2 DEF g

(* A total of zeros is zero.                                               *)
LEMMA AccountTotalZero ==
  ASSUME NEW n \in Nat, NEW f, \A i \in 1..n : f[i] = 0
  PROVE  AccountTotal(f, n) = 0
<1>1. PICK t \in [0..n -> Int] :
        /\ t[0] = 0
        /\ \A i \in 1..n : t[i] = t[i-1] + f[i]
        /\ AccountTotal(f, n) = t[n]
  <2>1. \A i \in 1..n : f[i] \in Int
    OBVIOUS
  <2>2. QED  BY <2>1, AccountTotalDef
<1> DEFINE Good == {i \in 0..n : t[i] = 0}
<1>2. 0 \in Good /\ \A i \in 1..n : i-1 \in Good => i \in Good
  BY <1>1
<1>3. \A i \in 0..n : i \in Good
  <2> HIDE DEF Good
  <2>1. QED  BY <1>2, SegmentInduction
<1>4. QED
  BY <1>1, <1>3

(* Totals add up: splitting every account's value splits the total.        *)
LEMMA AccountTotalSplit ==
  ASSUME NEW n \in Nat, NEW f, NEW g, NEW h,
         \A i \in 1..n : g[i] \in Int /\ h[i] \in Int /\ f[i] = g[i] + h[i]
  PROVE  AccountTotal(f, n) = AccountTotal(g, n) + AccountTotal(h, n)
<1>1. PICK t \in [0..n -> Int] :
        /\ t[0] = 0
        /\ \A i \in 1..n : t[i] = t[i-1] + f[i]
        /\ AccountTotal(f, n) = t[n]
  <2>1. \A i \in 1..n : f[i] \in Int
    OBVIOUS
  <2>2. QED  BY <2>1, AccountTotalDef
<1>2. PICK u \in [0..n -> Int] :
        /\ u[0] = 0
        /\ \A i \in 1..n : u[i] = u[i-1] + g[i]
        /\ AccountTotal(g, n) = u[n]
  BY AccountTotalDef
<1>3. PICK w \in [0..n -> Int] :
        /\ w[0] = 0
        /\ \A i \in 1..n : w[i] = w[i-1] + h[i]
        /\ AccountTotal(h, n) = w[n]
  BY AccountTotalDef
<1> DEFINE Good == {i \in 0..n : t[i] = u[i] + w[i]}
<1>4. 0 \in Good
  BY <1>1, <1>2, <1>3
<1>5. ASSUME NEW i \in 1..n, i-1 \in Good
      PROVE  i \in Good
  <2>1. t[i-1] = u[i-1] + w[i-1]
    BY <1>5
  <2>2. /\ t[i] = t[i-1] + f[i] /\ u[i] = u[i-1] + g[i] /\ w[i] = w[i-1] + h[i]
        /\ f[i] = g[i] + h[i]
    BY <1>1, <1>2, <1>3
  <2>3. /\ u[i-1] \in Int /\ w[i-1] \in Int /\ g[i] \in Int /\ h[i] \in Int
    OBVIOUS
  <2>4. PICK a \in Int, b \in Int, c \in Int, d \in Int :
          a = u[i-1] /\ b = w[i-1] /\ c = g[i] /\ d = h[i]
    BY <2>3
  <2>5. t[i] = (a + b) + (c + d) /\ u[i] = a + c /\ w[i] = b + d
    BY <2>1, <2>2, <2>4, Zenon
  <2>6. t[i] = u[i] + w[i]
    BY <2>5
  <2>7. QED  BY <2>6
<1>6. \A i \in 0..n : i \in Good
  <2> HIDE DEF Good
  <2>1. QED  BY <1>4, <1>5, SegmentInduction
<1>7. t[n] = u[n] + w[n]
  BY <1>6
<1>8. QED
  BY <1>1, <1>2, <1>3, <1>7, Zenon

(* Accounts that agree pointwise have the same total.                      *)
LEMMA AccountTotalEqual ==
  ASSUME NEW n \in Nat, NEW f, NEW g,
         \A i \in 1..n : f[i] \in Int /\ g[i] = f[i]
  PROVE  AccountTotal(g, n) = AccountTotal(f, n)
<1> DEFINE z == [i \in 1..n |-> 0]
<1>1. \A i \in 1..n : f[i] \in Int /\ z[i] \in Int /\ g[i] = f[i] + z[i]
  OBVIOUS
<1>2. AccountTotal(z, n) = 0
  BY AccountTotalZero
<1>3. AccountTotal(g, n) = AccountTotal(f, n) + AccountTotal(z, n)
  <2> HIDE DEF z
  <2>1. QED  BY <1>1, AccountTotalSplit
<1>4. AccountTotal(f, n) \in Int
  BY AccountTotalType
<1>5. QED
  BY <1>2, <1>3, <1>4
(* Taking one of them out, and closing the gap, takes its value off the    *)
(* total: with k = n, what one more adds.                                  *)
LEMMA AccountTotalRemoved ==
  ASSUME NEW n \in Nat, NEW k \in 1..n, NEW f, NEW g,
         \A i \in 1..n : f[i] \in Int,
         \A i \in 1..(n-1) : g[i] = IF i < k THEN f[i] ELSE f[i+1]
  PROVE  AccountTotal(g, n-1) = AccountTotal(f, n) - f[k]
<1>0. /\ n-1 \in Nat /\ k \in Nat /\ f[k] \in Int
      /\ \A i \in 1..(n-1) : i \in 1..n /\ i+1 \in 1..n /\ i \in Nat /\ i-1 \in 0..n /\ i \in 0..n
  OBVIOUS
<1>1. PICK t \in [0..n -> Int] :
        /\ t[0] = 0
        /\ \A i \in 1..n : t[i] = t[i-1] + f[i]
        /\ AccountTotal(f, n) = t[n]
  BY AccountTotalDef
<1>2. \A i \in 1..(n-1) : g[i] \in Int
  BY <1>0
<1>3. PICK u \in [0..(n-1) -> Int] :
        /\ u[0] = 0
        /\ \A i \in 1..(n-1) : u[i] = u[i-1] + g[i]
        /\ AccountTotal(g, n-1) = u[n-1]
  BY <1>0, <1>2, AccountTotalDef
<1> DEFINE Good == {i \in 0..(n-1) : u[i] = IF i < k THEN t[i] ELSE t[i+1] - f[k]}
<1>4. 0 \in Good
  BY <1>0, <1>1, <1>3
<1>5. ASSUME NEW i \in 1..(n-1), i-1 \in Good
      PROVE  i \in Good
  <2>1. u[i-1] = IF i-1 < k THEN t[i-1] ELSE t[i] - f[k]
    BY <1>0, <1>5
  <2>2. u[i] = u[i-1] + g[i] /\ t[i] = t[i-1] + f[i] /\ t[i+1] = t[i] + f[i+1]
    <3>1. i+1 \in 1..n /\ (i+1)-1 = i
      BY <1>0
    <3>2. t[i+1] = t[(i+1)-1] + f[i+1]
      BY <1>1, <3>1
    <3>3. QED  BY <1>0, <1>1, <1>3, <3>1, <3>2
  <2>3. t[i-1] \in Int /\ t[i] \in Int /\ f[i] \in Int /\ f[i+1] \in Int /\ f[k] \in Int
    BY <1>0
  <2>4. CASE i < k
    <3>1. i-1 < k /\ g[i] = f[i]
      BY <1>0, <2>4
    <3>2. QED  BY <2>1, <2>2, <2>4, <3>1
  <2>5. CASE i = k
    <3>1. i-1 < k /\ ~(i < k) /\ g[i] = f[i+1]
      BY <1>0, <2>5
    <3>2. u[i] = t[i-1] + f[i+1] /\ t[i+1] = (t[i-1] + f[k]) + f[i+1]
      BY <2>1, <2>2, <2>5, <3>1, Zenon
    <3>3. PICK x \in Int, y \in Int, z \in Int : x = t[i-1] /\ y = f[k] /\ z = f[i+1]
      BY <2>3
    <3>4. u[i] = x + z /\ t[i+1] = (x + y) + z
      BY <3>2, <3>3, Zenon
    <3>5. u[i] = t[i+1] - y
      BY <3>4
    <3>6. QED  BY <3>1, <3>3, <3>5
  <2>6. CASE k < i
    <3>1. ~(i-1 < k) /\ ~(i < k) /\ g[i] = f[i+1]
      BY <1>0, <2>6
    <3>2. u[i] = (t[i] - f[k]) + f[i+1] /\ t[i+1] = t[i] + f[i+1]
      BY <2>1, <2>2, <3>1, Zenon
    <3>3. PICK x \in Int, y \in Int, z \in Int : x = t[i] /\ y = f[k] /\ z = f[i+1]
      BY <2>3
    <3>4. u[i] = (x - y) + z /\ t[i+1] = x + z
      BY <3>2, <3>3, Zenon
    <3>5. u[i] = t[i+1] - y
      BY <3>4
    <3>6. QED  BY <3>1, <3>3, <3>5
  <2>7. QED  BY <1>0, <2>4, <2>5, <2>6
<1>6. \A i \in 0..(n-1) : i \in Good
  <2> HIDE DEF Good
  <2>1. QED  BY <1>0, <1>4, <1>5, SegmentInduction
<1>7. u[n-1] = IF n-1 < k THEN t[n-1] ELSE t[n] - f[k]
  BY <1>0, <1>6
<1>8. t[n] = t[n-1] + f[n] /\ t[n-1] \in Int
  BY <1>0, <1>1
<1>9. QED
  BY <1>0, <1>1, <1>3, <1>7, <1>8

(* As many as have c, and nothing else, make a total of c each.            *)
LEMMA AccountTotalCount ==
  ASSUME NEW n \in Nat, NEW S \in SUBSET (1..n), NEW c \in Nat, NEW f,
         \A i \in 1..n : f[i] = IF i \in S THEN c ELSE 0
  PROVE  AccountTotal(f, n) = c * Cardinality(S)
<1>1. PICK t \in [0..n -> Int] :
        /\ t[0] = 0
        /\ \A i \in 1..n : t[i] = t[i-1] + f[i]
        /\ AccountTotal(f, n) = t[n]
  <2>1. \A i \in 1..n : f[i] \in Int
    OBVIOUS
  <2>2. QED  BY <2>1, AccountTotalDef
<1> DEFINE Upto(i) == S \cap 1..i
           Good == {i \in 0..n : /\ IsFiniteSet(Upto(i)) /\ Cardinality(Upto(i)) \in Nat
                                 /\ t[i] = c * Cardinality(Upto(i))}
<1>2. 0 \in Good
  <2>1. Upto(0) = {}
    OBVIOUS
  <2>2. QED  BY <1>1, <2>1, FS_EmptySet
<1>3. ASSUME NEW i \in 1..n, i-1 \in Good
      PROVE  i \in Good
  <2>0. i \in 0..n
    OBVIOUS
  <2>1. IsFiniteSet(Upto(i-1)) /\ Cardinality(Upto(i-1)) \in Nat /\ t[i-1] = c * Cardinality(Upto(i-1))
    BY <1>3
  <2>2. t[i] = t[i-1] + f[i] /\ i \notin Upto(i-1)
    BY <1>1
  <2>3. CASE i \in S
    <3>1. Upto(i) = Upto(i-1) \cup {i} /\ f[i] = c
      BY <2>3
    <3>2. PICK U, V : U = Upto(i-1) /\ V = Upto(i)
      OBVIOUS
    <3> HIDE DEF Upto
    <3>3. /\ IsFiniteSet(U) /\ Cardinality(U) \in Nat /\ t[i-1] = c * Cardinality(U)
          /\ V = U \cup {i} /\ i \notin U
      BY <2>1, <2>2, <3>1, <3>2, Zenon
    <3>4. IsFiniteSet(V) /\ Cardinality(V) = Cardinality(U) + 1
      BY <3>3, FS_AddElement
    <3>5. \A k \in Nat : c * k + c = c * (k + 1) /\ k + 1 \in Nat
      OBVIOUS
    <3>6. t[i] = c * Cardinality(V) /\ Cardinality(V) \in Nat
      <4>1. t[i] = c * Cardinality(U) + c
        BY <2>2, <3>1, <3>3, Zenon
      <4>2. QED  BY <3>3, <3>4, <3>5, <4>1, Zenon
    <3>7. QED  BY <2>0, <3>2, <3>4, <3>6, Zenon
  <2>4. CASE i \notin S
    <3>1. Upto(i) = Upto(i-1) /\ f[i] = 0
      BY <2>4
    <3>2. t[i-1] \in Int
      OBVIOUS
    <3>3. t[i] = t[i-1]
      BY <2>2, <3>1, <3>2
    <3> HIDE DEF Upto
    <3>4. QED  BY <2>1, <2>0, <3>1, <3>3, Zenon
  <2>5. QED  BY <2>3, <2>4
<1>4. \A i \in 0..n : i \in Good
  <2> HIDE DEF Good
  <2>1. QED  BY <1>2, <1>3, SegmentInduction
<1>5. Upto(n) = S /\ n \in 0..n
  <2>1. n \in 0..n
    OBVIOUS
  <2>2. Upto(n) = S
    <3>1. S \cap 1..n \subseteq S /\ S \subseteq S \cap 1..n
      OBVIOUS
    <3>2. QED  BY <3>1
  <2>3. QED  BY <2>1, <2>2
<1>6. t[n] = c * Cardinality(Upto(n))
  <2> HIDE DEF Upto
  <2>1. n \in Good
    <3> HIDE DEF Good
    <3>1. QED  BY <1>4, <1>5, Zenon
  <2>2. QED  BY <2>1
<1>7. QED
  <2> HIDE DEF Upto
  <2>1. QED  BY <1>1, <1>5, <1>6, Zenon


(* A sum ends with its last term.                                          *)
LEMMA AccountTotalLast ==
  ASSUME NEW n \in Nat \ {0}, NEW f, \A i \in 1..n : f[i] \in Int
  PROVE  AccountTotal(f, n) = AccountTotal(f, n-1) + f[n]
<1>1. PICK t \in [0..n -> Int] :
        /\ t[0] = 0
        /\ \A i \in 1..n : t[i] = t[i-1] + f[i]
        /\ AccountTotal(f, n) = t[n]
  BY AccountTotalDef
<1>2. PICK u \in [0..(n-1) -> Int] :
        /\ u[0] = 0
        /\ \A i \in 1..(n-1) : u[i] = u[i-1] + f[i]
        /\ AccountTotal(f, n-1) = u[n-1]
  <2>1. n-1 \in Nat /\ \A i \in 1..(n-1) : f[i] \in Int
    OBVIOUS
  <2>2. QED  BY <2>1, AccountTotalDef
<1> DEFINE Same == {i \in 0..(n-1) : t[i] = u[i]}
<1>3. 0 \in Same /\ \A i \in 1..(n-1) : i-1 \in Same => i \in Same
  BY <1>1, <1>2
<1>4. n-1 \in Same
  <2>1. n-1 \in Nat /\ n-1 \in 0..(n-1)
    OBVIOUS
  <2> HIDE DEF Same
  <2>2. QED  BY <1>3, <2>1, SegmentInduction
<1>5. QED  BY <1>1, <1>2, <1>4

(* What follows the first k terms adds up to the rest.                     *)
LEMMA AccountTotalTail ==
  ASSUME NEW n \in Nat, NEW k \in 0..n, NEW f, NEW g,
         \A i \in 1..n : f[i] \in Int,
         \A i \in 1..(n-k) : g[i] = f[i+k]
  PROVE  AccountTotal(f, n) = AccountTotal(f, k) + AccountTotal(g, n-k)
<1> DEFINE Adds == {i \in 0..(n-k) : AccountTotal(f, k+i) = AccountTotal(f, k) + AccountTotal(g, i)}
<1>1. 0 \in Adds
  <2>1. AccountTotal(g, 0) = 0
    <3>1. 0 \in Nat /\ \A i \in 1..0 : g[i] = 0
      OBVIOUS
    <3>2. QED  BY <3>1, AccountTotalZero
  <2>2. AccountTotal(f, k) \in Int
    <3>1. k \in Nat /\ \A i \in 1..k : f[i] \in Int
      OBVIOUS
    <3>2. QED  BY <3>1, AccountTotalType
  <2>3. 0 \in 0..(n-k) /\ k + 0 = k
    OBVIOUS
  <2>4. QED  BY <2>1, <2>2, <2>3
<1>2. ASSUME NEW i \in 1..(n-k), i-1 \in Adds PROVE i \in Adds
  <2>1. AccountTotal(f, k+i) = AccountTotal(f, k+i-1) + f[k+i]
    <3>1. k+i \in Nat \ {0} /\ \A j \in 1..(k+i) : f[j] \in Int
      OBVIOUS
    <3>2. QED  BY <3>1, AccountTotalLast
  <2>2. AccountTotal(g, i) = AccountTotal(g, i-1) + g[i]
    <3>1. i \in Nat \ {0} /\ \A j \in 1..i : g[j] \in Int
      OBVIOUS
    <3>2. QED  BY <3>1, AccountTotalLast
  <2>3. AccountTotal(f, k+(i-1)) = AccountTotal(f, k) + AccountTotal(g, i-1)
    BY <1>2
  <2>4. /\ AccountTotal(f, k) \in Int /\ AccountTotal(g, i-1) \in Int
    <3>1. k \in Nat /\ \A j \in 1..k : f[j] \in Int
      OBVIOUS
    <3>2. i-1 \in Nat /\ \A j \in 1..(i-1) : g[j] \in Int
      OBVIOUS
    <3>3. QED  BY <3>1, <3>2, AccountTotalType
  <2>5. k+(i-1) = k+i-1 /\ i \in 0..(n-k) /\ g[i] = f[k+i] /\ f[k+i] \in Int
    <3>1. i+k = k+i /\ i+k \in 1..n
      OBVIOUS
    <3>2. QED  BY <3>1
  <2>6. QED  BY <2>1, <2>2, <2>3, <2>4, <2>5
<1>3. n-k \in Adds
  <2>1. n-k \in Nat /\ n-k \in 0..(n-k)
    OBVIOUS
  <2> HIDE DEF Adds
  <2>2. QED  BY <1>1, <1>2, <2>1, SegmentInduction
<1>4. k + (n-k) = n
  OBVIOUS
<1>5. QED  BY <1>3, <1>4
=============================================================================
