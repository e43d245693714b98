-------------------------------- MODULE NatFacts --------------------------------
(***************************************************************************)
(* Facts about natural numbers that several proofs need: induction in the  *)
(* form of a least element, functions defined by recursion over an         *)
(* interval, and division and remainder by a constant that is not known.   *)
(***************************************************************************)
EXTENDS Integers, WellFoundedInduction, TLAPS

\* A set of numbers that is not empty has a least element.
LEMMA LeastMember ==
  ASSUME NEW T, T \subseteq Nat, T # {}
  PROVE  \E x \in T : \A y \in T : x <= y
<1>1. PICK rel : rel = OpToRel(<, Nat)
  OBVIOUS
<1>2. rel = {ss \in Nat \X Nat : ss[1] < ss[2]}
  BY <1>1, Zenon DEF OpToRel
<1>3. IsWellFoundedOn(rel, Nat)
  BY <1>1, NatLessThanWellFounded, Zenon
<1>4. PICK x \in T : \A y \in T : ~(<<y, x>> \in rel)
  BY <1>3, WFMin, Zenon
<1>5. \A y \in T : ~(y < x)
  BY <1>2, <1>4
<1>. QED  BY <1>4, <1>5

\* A set of numbers that holds zero and with each number below n the next holds n.
LEMMA UpTo ==
  ASSUME NEW S, NEW n \in Nat, 0 \in S,
         \A i \in 0 .. n - 1 : i \in S => i + 1 \in S
  PROVE  n \in S
<1>. DEFINE T == {i \in 0 .. n : i \notin S}
<1>1. CASE T = {}
  BY <1>1
<1>2. CASE T # {}
  <2>0. T \subseteq Nat
    OBVIOUS
  <2>1. PICK x \in T : \A y \in T : x <= y
    <3>. HIDE DEF T
    <3>. QED  BY <1>2, <2>0, LeastMember
  <2>2. x # 0 /\ x - 1 \in 0 .. n - 1
    BY <2>1
  <2>3. x - 1 \in S
    BY <2>1, <2>2
  <2>4. x \in S
    BY <2>2, <2>3
  <2>. QED  BY <2>1, <2>4
<1>. QED  BY <1>1, <1>2

\* A function whose values follow from the one before.
Follows(s, N, V, first, F) ==
  s \in [0 .. N -> V] /\ s[0] = first /\ \A n \in 1 .. N : s[n] = F[n][s[n - 1]]

LEMMA Recursion ==
  ASSUME NEW N \in Nat, NEW V, NEW first \in V, NEW F \in [1 .. N -> [V -> V]]
  PROVE  \E s : Follows(s, N, V, first, F)
<1>. DEFINE S == {m \in 0 .. N : \E s \in [0 .. m -> V] :
                    s[0] = first /\ \A n \in 1 .. m : s[n] = F[n][s[n - 1]]}
<1>1. 0 \in S
  <2>1. PICK s : s = [n \in 0 .. 0 |-> first]
    OBVIOUS
  <2>2. s \in [0 .. 0 -> V] /\ s[0] = first /\ \A n \in 1 .. 0 : s[n] = F[n][s[n - 1]]
    BY <2>1
  <2>. QED  BY <2>2
<1>2. ASSUME NEW m \in 0 .. N - 1, m \in S
      PROVE  m + 1 \in S
  <2>1. PICK s \in [0 .. m -> V] :
          s[0] = first /\ \A n \in 1 .. m : s[n] = F[n][s[n - 1]]
    BY <1>2
  <2>0. PICK t : t = [n \in 0 .. m + 1 |-> IF n = m + 1 THEN F[m + 1][s[m]] ELSE s[n]]
    OBVIOUS
  <2>2. F[m + 1] \in [V -> V] /\ s[m] \in V
    BY <1>2
  <2>3. t \in [0 .. m + 1 -> V]
    BY <2>0, <2>2
  <2>4. t[0] = first
    BY <2>0, <2>1
  <2>5. \A n \in 1 .. m + 1 : t[n] = F[n][t[n - 1]]
    BY <2>0, <2>1
  <2>6. m + 1 \in 0 .. N
    OBVIOUS
  <2>7. \E u \in [0 .. m + 1 -> V] : u[0] = first /\ \A n \in 1 .. m + 1 : u[n] = F[n][u[n - 1]]
    BY <2>3, <2>4, <2>5
  <2>. QED  BY <2>6, <2>7
<1>. HIDE DEF S
<1>3. N \in S
  BY <1>1, <1>2, UpTo
<1>. QED  BY <1>3 DEF S, Follows

\* The exclusive prefix sums of a list of numbers.
LEMMA PrefixSums ==
  ASSUME NEW N \in Nat, NEW a \in [0 .. N - 1 -> Nat]
  PROVE  LET sum[e \in 0 .. N] == IF e = 0 THEN 0 ELSE sum[e - 1] + a[e - 1]
         IN  /\ sum \in [0 .. N -> Nat] /\ sum[0] = 0
             /\ \A e \in 0 .. N - 1 : sum[e + 1] = sum[e] + a[e]
<1>. DEFINE Sums(s) == s = [e \in 0 .. N |-> IF e = 0 THEN 0 ELSE s[e - 1] + a[e - 1]]
<1>1. PICK F : F = [n \in 1 .. N |-> [v \in Nat |-> v + a[n - 1]]]
  OBVIOUS
<1>2. F \in [1 .. N -> [Nat -> Nat]]
  <2>1. \A n \in 1 .. N : a[n - 1] \in Nat
    OBVIOUS
  <2>. QED  BY <1>1, <2>1
<1>3. PICK s \in [0 .. N -> Nat] : s[0] = 0 /\ \A n \in 1 .. N : s[n] = F[n][s[n - 1]]
  <2>1. 0 \in Nat
    OBVIOUS
  <2>2. \E s : Follows(s, N, Nat, 0, F)
    BY <1>2, <2>1, Recursion
  <2>. QED  BY <2>2 DEF Follows
<1>4. ASSUME NEW n \in 1 .. N  PROVE s[n] = s[n - 1] + a[n - 1]
  <2>1. s[n] = F[n][s[n - 1]] /\ s[n - 1] \in Nat
    BY <1>3
  <2>2. F[n] = [v \in Nat |-> v + a[n - 1]]
    BY <1>1
  <2>. QED  BY <2>1, <2>2
<1>5. Sums(s)
  BY <1>3, <1>4
<1>6. PICK r : r = CHOOSE x : Sums(x)
  OBVIOUS
<1>7. Sums(r)
  BY <1>5, <1>6
<1>8. r[0] = 0 /\ \A e \in 1 .. N : r[e] = r[e - 1] + a[e - 1]
  BY <1>7
<1>9. r = s
  <2>. DEFINE S == {i \in 0 .. N : r[i] = s[i]}
  <2>1. 0 \in S
    BY <1>3, <1>8
  <2>2. ASSUME NEW i \in 0 .. N - 1, i \in S  PROVE i + 1 \in S
    BY <1>4, <1>8, <2>2
  <2>. HIDE DEF S
  <2>3. ASSUME NEW n \in 0 .. N  PROVE n \in S
    BY <2>1, <2>2, UpTo
  <2>. QED  BY <1>7, <2>3 DEF S
<1>10. /\ r \in [0 .. N -> Nat] /\ r[0] = 0
       /\ \A e \in 0 .. N - 1 : r[e + 1] = r[e] + a[e]
  BY <1>3, <1>4, <1>9
<1>. QED  BY <1>6, <1>10
-----------------------------------------------------------------------------
(* Division and remainder. *)

LEMMA Remainder ==
  ASSUME NEW n \in Nat, n > 0, NEW q \in Nat, NEW j \in 0 .. n - 1
  PROVE  (q * n + j) % n = j /\ (q * n + j) \div n = q
OBVIOUS

LEMMA DivMod ==
  ASSUME NEW n \in Nat, n > 0, NEW a \in Nat
  PROVE  \E q \in Nat, j \in 0 .. n - 1 : a = q * n + j /\ a \div n = q /\ a % n = j
<1>1. PICK q \in Nat : q = a \div n
  OBVIOUS
<1>2. q * n <= a /\ a < q * n + n
  BY <1>1
<1>3. PICK m \in Nat : m = q * n
  OBVIOUS
<1>4. PICK j \in 0 .. n - 1 : j = a - m
  BY <1>2, <1>3
<1>5. a = q * n + j
  BY <1>3, <1>4
<1>. QED  BY <1>1, <1>5, Remainder

\* One step further in the same residue class.
LEMMA NextInClass ==
  ASSUME NEW n \in Nat, n > 0, NEW a \in Nat
  PROVE  (a + n) % n = a % n
<1>1. PICK q \in Nat, j \in 0 .. n - 1 : a = q * n + j /\ a % n = j
  BY DivMod
<1>2. a + n = (q + 1) * n + j
  BY <1>1
<1>. QED  BY <1>1, <1>2, Remainder

\* Two members of a residue class are at least n apart.
LEMMA ClassApart ==
  ASSUME NEW n \in Nat, n > 0, NEW a \in Nat, NEW b \in Nat,
         a % n = b % n, a <= b, b < a + n
  PROVE  a = b
<1>1. PICK q \in Nat, j \in 0 .. n - 1 : a = q * n + j /\ a % n = j
  BY DivMod
<1>2. PICK s \in Nat, i \in 0 .. n - 1 : b = s * n + i /\ b % n = i
  BY DivMod
<1>3. PICK m \in Nat, k \in Nat : m = q * n /\ k = s * n
  OBVIOUS
<1>4. m <= k /\ k < m + n
  BY <1>1, <1>2, <1>3
<1>5. ~(q < s)
  <2>1. q < s => s * n >= q * n + n
    OBVIOUS
  <2>. QED  BY <1>3, <1>4, <2>1
<1>6. ~(s < q)
  <2>1. s < q => q * n >= s * n + n
    OBVIOUS
  <2>. QED  BY <1>3, <1>4, <2>1
<1>. QED  BY <1>1, <1>2, <1>5, <1>6

\* Division is monotone.
LEMMA DivMonotone ==
  ASSUME NEW n \in Nat, n > 0, NEW a \in Nat, NEW b \in Nat, a <= b
  PROVE  a \div n \in Nat /\ b \div n \in Nat /\ a \div n <= b \div n
OBVIOUS

\* A cell number within b rows of n cells is in one of the rows.
LEMMA RowOfCell ==
  ASSUME NEW n \in Nat, n > 0, NEW b \in Nat, NEW t \in Nat
  PROVE  t < b * n <=> t \div n < b
<1>1. t < b * n => t \div n < b
  OBVIOUS
<1>2. PICK q \in Nat, j \in 0 .. n - 1 : t = q * n + j /\ t \div n = q
  BY DivMod
<1>3. q < b => b * n >= q * n + n
  OBVIOUS
<1>4. PICK m \in Nat, k \in Nat : m = q * n /\ k = b * n
  OBVIOUS
<1>. QED  BY <1>1, <1>2, <1>3, <1>4
=============================================================================
