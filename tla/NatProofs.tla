------------------------------ MODULE NatProofs ------------------------------
(***************************************************************************)
(* Facts about natural numbers the other proofs rest on: sets of them have *)
(* least and greatest elements, what holds of 0 and passes to the next     *)
(* number holds of all, and a recursion over an interval has a solution.   *)
(* Induction is stated of a set, for which it can be instantiated.         *)
(***************************************************************************)
EXTENDS FiniteSetsExt, WellFoundedInduction, Ranks, TLAPS

LEMMA Least ==
  ASSUME NEW T \in SUBSET Nat, T # {}
  PROVE  \E x \in T : \A y \in T : x <= y
<1>1. PICK m \in T : \A y \in T : <<y, m>> \notin OpToRel(<, Nat)
  BY WFMin, NatLessThanWellFounded, Zenon
<1>2. \A y \in T : y < m => <<y, m>> \in OpToRel(<, Nat)
  BY <1>1 DEF OpToRel
<1>3. \A y \in T : ~(y < m)
  BY <1>1, <1>2
<1>. QED  BY <1>3

LEMMA Greatest ==
  ASSUME NEW n \in Nat, NEW T \in SUBSET (0..n), T # {}
  PROVE  \E x \in T : \A y \in T : x >= y
<1>. DEFINE U == {m \in Nat : \E x \in T : m = n - x}
<1>1. ASSUME NEW x \in T PROVE x \in Nat /\ n - x \in U
  <2>1. x \in 0..n
    OBVIOUS
  <2>. QED  BY <2>1
<1>2. U # {} /\ U \in SUBSET Nat
  BY <1>1
<1>3. PICK m \in U : \A y \in U : m <= y
  BY <1>2, Least
<1>4. PICK x \in T : m = n - x
  BY <1>3
<1>5. ASSUME NEW y \in T PROVE x >= y
  <2>1. n - x <= n - y
    BY <1>1, <1>3, <1>4
  <2>. QED  BY <1>1, <2>1
<1>. QED  BY <1>5

(* Max and Min of the community modules choose them. *)
LEMMA MaxIsMember ==
  ASSUME NEW n \in Nat, NEW S \in SUBSET (0..n), S # {}
  PROVE  Max(S) \in S /\ \A y \in S : Max(S) >= y
BY Greatest DEF Max

LEMMA MinIsMember ==
  ASSUME NEW S \in SUBSET Nat, S # {}
  PROVE  Min(S) \in S /\ \A y \in S : Min(S) <= y
BY Least DEF Min

LEMMA Induction ==
  ASSUME NEW S, 0 \in S, \A n \in Nat : n \in S => n + 1 \in S
  PROVE  Nat \subseteq S
<1>. SUFFICES ASSUME Nat \ S # {} PROVE FALSE
  OBVIOUS
<1>1. PICK x \in Nat \ S : \A y \in Nat \ S : x <= y
  BY Least
<1>2. x # 0 /\ x - 1 \in Nat /\ (x - 1) + 1 = x
  BY <1>1
<1>. QED  BY <1>1, <1>2

(* f starts with base, and each value is what step makes of the one before. *)
Follows(f, m, base, step) == f[0] = base /\ \A k \in 1..m : f[k] = step[<<k, f[k-1]>>]

(* A recursion over 0..m has a solution.                                   *)
LEMMA BoundedRecursion ==
  ASSUME NEW m \in Nat, NEW V, NEW base \in V, NEW step \in [(1..m) \X V -> V]
  PROVE  \E f \in [0..m -> V] : Follows(f, m, base, step)
<1>. USE DEF Follows
<1>. DEFINE Solves(j, f) == Follows(f, j, base, step)
            S == {j \in Nat : j <= m => \E f \in [0..j -> V] : Solves(j, f)}
<1>1. 0 \in S
  <2>1. [k \in 0..0 |-> base] \in [0..0 -> V] /\ Solves(0, [k \in 0..0 |-> base])
    OBVIOUS
  <2>. QED  BY <2>1
<1>2. ASSUME NEW n \in Nat, n \in S PROVE n + 1 \in S
  <2>. SUFFICES ASSUME n + 1 <= m PROVE \E f \in [0..n+1 -> V] : Solves(n + 1, f)
    OBVIOUS
  <2>1. PICK g \in [0..n -> V] : Solves(n, g)
    BY <1>2
  <2>2. PICK v : v = step[<<n+1, g[n]>>]
    OBVIOUS
  <2>3. v \in V
    <3>1. <<n+1, g[n]>> \in (1..m) \X V
      OBVIOUS
    <3>. QED  BY <2>2, <3>1
  <2>4. PICK f : f = [k \in 0..n+1 |-> IF k = n+1 THEN v ELSE g[k]]
    OBVIOUS
  <2>5. f \in [0..n+1 -> V]
    BY <2>3, <2>4
  <2>6. ASSUME NEW k \in 1..n+1 PROVE f[k] = step[<<k, f[k-1]>>]
    <3>1. CASE k = n+1
      <4>1. f[k] = v /\ k - 1 = n /\ f[n] = g[n]
        BY <2>4, <3>1
      <4>. QED  BY <2>2, <3>1, <4>1
    <3>2. CASE k # n+1
      <4>1. k \in 1..n /\ f[k] = g[k] /\ f[k-1] = g[k-1]
        BY <2>4, <3>2
      <4>2. g[k] = step[<<k, g[k-1]>>]
        BY <2>1, <4>1
      <4>. QED  BY <4>1, <4>2
    <3>. QED  BY <3>1, <3>2
  <2>7. f[0] = base
    BY <2>1, <2>4
  <2>. QED  BY <2>5, <2>6, <2>7
<1>3. m \in S
  <2>. HIDE DEF S
  <2>. QED  BY <1>1, <1>2, Induction
<1>. QED  BY <1>3

(* g starts in V and does not leave it.                                    *)
StaysIn(g, m, V) == g[0] \in V /\ \A k \in 1..m : g[k - 1] \in V => g[k] \in V

LEMMA Stays ==
  ASSUME NEW m \in Nat, NEW V, NEW g, StaysIn(g, m, V)
  PROVE  \A k \in 0..m : g[k] \in V
<1>. DEFINE S == {j \in Nat : j <= m => g[j] \in V}
<1>1. 0 \in S
  BY DEF StaysIn
<1>2. ASSUME NEW n \in Nat, n \in S PROVE n + 1 \in S
  <2>1. n + 1 <= m => n + 1 \in 1..m /\ (n + 1) - 1 = n /\ n <= m
    OBVIOUS
  <2>. QED  BY <1>2, <2>1 DEF StaysIn
<1>3. ASSUME NEW k \in 0..m PROVE k \in S
  <2>. HIDE DEF S
  <2>. QED  BY <1>1, <1>2, Induction
<1>. QED  BY <1>3

(* Where the first numbers that differ are lower, the rank is.             *)
LEMMA Lowers ==
  ASSUME NEW a \in Nat, NEW b \in Nat, NEW c \in Nat, NEW d \in Nat, NEW r1, NEW r2, NEW r3, NEW r4,
         \/ r1 < a
         \/ r1 = a /\ r2 < b
         \/ r1 = a /\ r2 = b /\ r3 < c
         \/ r1 = a /\ r2 = b /\ r3 = c /\ r4 < d
  PROVE  Lower(<<r1, r2, r3, r4>>, <<a, b, c, d>>)
<1>. PICK r : r = <<r1, r2, r3, r4>>
  OBVIOUS
<1>. PICK s : s = <<a, b, c, d>>
  OBVIOUS
<1>1. /\ s \in Nat \X Nat \X Nat \X Nat /\ DOMAIN s = 1..4
      /\ s[1] = a /\ s[2] = b /\ s[3] = c /\ s[4] = d
      /\ r[1] = r1 /\ r[2] = r2 /\ r[3] = r3 /\ r[4] = r4
  OBVIOUS
<1>2. CASE r1 < a
  <2>1. r[1] < s[1] /\ 1 \in DOMAIN s /\ \A m \in 1 .. 1 - 1 : r[m] = s[m]
    BY <1>1, <1>2
  <2>. QED  BY <1>1, <2>1 DEF Lower
<1>3. CASE r1 = a /\ r2 < b
  <2>1. r[2] < s[2] /\ 2 \in DOMAIN s /\ \A m \in 1 .. 2 - 1 : r[m] = s[m]
    BY <1>1, <1>3
  <2>. QED  BY <1>1, <2>1 DEF Lower
<1>4. CASE r1 = a /\ r2 = b /\ r3 < c
  <2>1. r[3] < s[3] /\ 3 \in DOMAIN s /\ \A m \in 1 .. 3 - 1 : m = 1 \/ m = 2
    BY <1>1, <1>4
  <2>2. \A m \in 1 .. 3 - 1 : r[m] = s[m]
    BY <1>1, <1>4, <2>1
  <2>. QED  BY <1>1, <2>1, <2>2 DEF Lower
<1>5. CASE r1 = a /\ r2 = b /\ r3 = c /\ r4 < d
  <2>1. r[4] < s[4] /\ 4 \in DOMAIN s /\ \A m \in 1 .. 4 - 1 : m = 1 \/ m = 2 \/ m = 3
    BY <1>1, <1>5
  <2>2. \A m \in 1 .. 4 - 1 : r[m] = s[m]
    BY <1>1, <1>5, <2>1
  <2>. QED  BY <1>1, <2>1, <2>2 DEF Lower
<1>. QED  BY <1>2, <1>3, <1>4, <1>5

=============================================================================
