---------------------------- MODULE Numbers_proofs ----------------------------
(***************************************************************************)
(* Natural numbers: what Min of the community modules is, also for        *)
(* infinite sets (the lowest free frame, the lowest free slot), and        *)
(* quotients (bytes to pages, pages to the entries of tables).             *)
(***************************************************************************)
EXTENDS Integers, FiniteSetsExt, TLAPS, WellFoundedInduction

(* A set of natural numbers that is not empty has a least one. *)
LEMMA LeastElement ==
  ASSUME NEW S, S \subseteq Nat, S # {}
  PROVE  Min(S) \in S /\ \A y \in S : Min(S) <= y
<1> DEFINE R == {d \in Nat \X Nat : d[1] < d[2]}
<1>1. IsWellFoundedOn(R, Nat)
  BY NatLessThanWellFounded DEF OpToRel
<1>2. PICK x \in S : \A y \in S : ~(<<y, x>> \in R)
  BY <1>1, WFMin
<1>3. ASSUME NEW y \in S PROVE x <= y
  <2>1. <<y, x>> \in Nat \X Nat /\ ~(<<y, x>>[1] < <<y, x>>[2])
    BY <1>2
  <2> QED
    BY <2>1
<1> QED
  BY <1>3 DEF Min

(* Induction over the natural numbers, by a least counterexample.           *)
LEMMA Induction ==
  ASSUME NEW S, 0 \in S, \A n \in Nat : n \in S => n + 1 \in S
  PROVE  Nat \subseteq S
<1> SUFFICES ASSUME Nat \ S # {} PROVE FALSE
  OBVIOUS
<1> DEFINE x == Min(Nat \ S)
<1>1. x \in Nat \ S /\ \A y \in Nat \ S : x <= y
  BY LeastElement
<1>2. x # 0 /\ x - 1 \in Nat /\ x - 1 < x
  BY <1>1
<1>3. x - 1 \in S
  BY <1>1, <1>2
<1> QED
  BY <1>1, <1>2, <1>3
-----------------------------------------------------------------------------
(* What \div and % are. *)
LEMMA Quotient ==
  ASSUME NEW x \in Nat, NEW d \in Nat \ {0}
  PROVE  x \div d \in Nat /\ x % d \in 0 .. d - 1 /\ x = (d * (x \div d)) + (x % d)
OBVIOUS

(* A number without remainder is a multiple of the divisor. *)
LEMMA Multiple ==
  ASSUME NEW x \in Nat, NEW d \in Nat \ {0}, x % d = 0
  PROVE  x \div d \in Nat /\ x = d * (x \div d)
<1> DEFINE q == x \div d
<1>1. q \in Nat /\ x = (d * q) + (x % d)
  BY Quotient
<1>2. d * q \in Nat
  BY <1>1
<1> HIDE DEF q
<1>3. x = d * q
  BY <1>1, <1>2
<1> QED
  BY <1>1, <1>3 DEF q

(* The next multiple is a divisor further. *)
LEMMA NextMultiple ==
  ASSUME NEW a \in Nat, NEW b \in Nat, NEW d \in Nat \ {0}, a < b
  PROVE  d * a + d <= d * b
OBVIOUS

(* A multiple of a sum. *)
LEMMA Distribute ==
  ASSUME NEW a \in Nat, NEW b \in Nat, NEW d \in Nat
  PROVE  d * (a + b) = d * a + d * b
OBVIOUS

(* Where the quotient lies among the multiples of the divisor. *)
LEMMA QuotientAbove ==
  ASSUME NEW x \in Nat, NEW d \in Nat \ {0}, NEW q \in Nat, d * q <= x
  PROVE  q <= x \div d
<1>1. x \div d \in Nat /\ x % d \in 0 .. d - 1 /\ x = (d * (x \div d)) + (x % d)
  BY Quotient
<1>2. x \div d < q => d * (x \div d) + d <= d * q
  BY <1>1, NextMultiple
<1>3. d * q \in Nat /\ d * (x \div d) \in Nat
  BY <1>1
<1> QED
  BY <1>1, <1>2, <1>3

(* A number below a multiple has a quotient below its factor. *)
LEMMA QuotientBelow ==
  ASSUME NEW x \in Nat, NEW d \in Nat \ {0}, NEW q \in Nat, x < d * q
  PROVE  x \div d < q
<1>1. x \div d \in Nat /\ x % d \in 0 .. d - 1 /\ x = (d * (x \div d)) + (x % d)
  BY Quotient
<1>2. q < x \div d => d * q + d <= d * (x \div d)
  BY <1>1, NextMultiple
<1>3. d * q \in Nat /\ d * (x \div d) \in Nat /\ (q = x \div d => d * q = d * (x \div d))
  BY <1>1
<1> QED
  BY <1>1, <1>2, <1>3

(* A number has one quotient and one remainder. *)
LEMMA OneQuotient ==
  ASSUME NEW d \in Nat \ {0}, NEW p \in Nat, NEW q \in Nat, NEW r \in 0 .. d - 1, NEW s \in 0 .. d - 1,
         d * p + r = d * q + s
  PROVE  p = q /\ r = s
<1>1. (p < q => d * p + d <= d * q) /\ (q < p => d * q + d <= d * p)
  BY NextMultiple
<1>2. d * p \in Nat /\ d * q \in Nat
  OBVIOUS
<1>3. ~(p < q) /\ ~(q < p)
  BY <1>1, <1>2
<1>4. p = q
  BY <1>3
<1> QED
  BY <1>2, <1>4

(* A quotient and a remainder that fit are the ones. *)
LEMMA QuotientIs ==
  ASSUME NEW x \in Nat, NEW d \in Nat \ {0}, NEW q \in Nat, NEW r \in 0 .. d - 1, x = d * q + r
  PROVE  x \div d = q
<1>1. PICK p \in Nat, s \in 0 .. d - 1 : p = x \div d /\ x = d * p + s
  BY Quotient
<1> QED
  BY <1>1, OneQuotient

(* Dividing by q and then by r is dividing by their product. *)
LEMMA QuotientTwice ==
  ASSUME NEW v \in Nat, NEW r \in Nat \ {0}, NEW q \in Nat \ {0}
  PROVE  (v \div q) \div r = v \div (r * q)
<1>1. PICK a \in Nat, x \in 0 .. q - 1 : a = v \div q /\ v = q * a + x
  BY Quotient
<1>2. PICK b \in Nat, y \in 0 .. r - 1 : b = a \div r /\ a = r * b + y
  BY Quotient
<1>3. PICK p \in Nat \ {0} : p = r * q
  <2>1. r * q \in Nat \ {0}
    OBVIOUS
  <2> QED
    BY <2>1
<1>4. PICK z \in Nat : z = q * y + x
  <2>1. q * y \in Nat
    OBVIOUS
  <2> QED
    BY <2>1
<1>5. v = p * b + z
  <2>1. q * a = q * (r * b) + q * y
    BY <1>2
  <2>2. q * (r * b) = p * b
    BY <1>3
  <2>3. q * y \in Nat /\ p * b \in Nat
    OBVIOUS
  <2> QED
    BY <1>1, <1>4, <2>1, <2>2, <2>3
<1>6. z \in 0 .. p - 1
  <2>1. q * y + q <= q * r
    BY NextMultiple
  <2>2. q * r = p /\ q * y \in Nat
    BY <1>3
  <2> QED
    BY <1>4, <2>1, <2>2
<1>7. v \div p = b
  BY <1>5, <1>6, QuotientIs
<1> QED
  BY <1>1, <1>2, <1>3, <1>7
(* A remainder that fits is the one. *)
LEMMA RemainderIs ==
  ASSUME NEW d \in Nat \ {0}, NEW q \in Nat, NEW r \in 0 .. d - 1
  PROVE  (d * q + r) \div d = q /\ (d * q + r) % d = r
<1>1. PICK x \in Nat : x = d * q + r
  <2>1. d * q \in Nat
    OBVIOUS
  <2> QED
    BY <2>1
<1>2. PICK p \in Nat, s \in 0 .. d - 1 : p = x \div d /\ s = x % d /\ x = d * p + s
  BY Quotient
<1> QED
  BY <1>1, <1>2, OneQuotient

(* The quotient rounded up counts the multiples below a number. *)
LEMMA QuotientUp ==
  ASSUME NEW x \in Nat, NEW d \in Nat \ {0}, NEW q \in Nat
  PROVE  /\ (x + d - 1) \div d \in Nat
         /\ q < (x + d - 1) \div d <=> d * q < x
<1>1. PICK u \in Nat : u = x + d - 1
  OBVIOUS
<1>2. PICK p \in Nat, s \in 0 .. d - 1 : p = u \div d /\ u = d * p + s
  BY Quotient
<1>3. (q < p => d * q + d <= d * p) /\ (p < q => d * p + d <= d * q)
  BY NextMultiple
<1>4. d * q \in Nat /\ d * p \in Nat /\ (q = p => d * q = d * p)
  OBVIOUS
<1>5. q < p => d * q < x
  BY <1>1, <1>2, <1>3, <1>4
<1>6. ~(q < p) => ~(d * q < x)
  BY <1>1, <1>2, <1>3, <1>4
<1> QED
  BY <1>1, <1>2, <1>5, <1>6

(* What starts at a multiple and is no longer than the divisor. *)
LEMMA Within ==
  ASSUME NEW n \in Nat, NEW m \in Nat, NEW d \in Nat \ {0}, NEW g \in 1 .. d, m % d = 0
  PROVE  n - m \in 0 .. g - 1 <=> n \div d = m \div d /\ n % d < g
<1>1. PICK p \in Nat : p = m \div d /\ m = d * p
  BY Multiple
<1>2. PICK q \in Nat, s \in 0 .. d - 1 : q = n \div d /\ s = n % d /\ n = d * q + s
  BY Quotient
<1>3. d * p \in Nat /\ d * q \in Nat
  OBVIOUS
<1>4. ASSUME n - m \in 0 .. g - 1 PROVE q = p /\ s < g
  <2>1. PICK t \in 0 .. d - 1 : t = n - m
    BY <1>4
  <2>2. d * p + t = d * q + s
    BY <1>1, <1>2, <1>3, <2>1
  <2>3. q = p /\ s = t
    BY <2>2, OneQuotient
  <2> QED
    BY <1>4, <2>1, <2>3
<1>5. ASSUME q = p, s < g PROVE n - m \in 0 .. g - 1
  <2>1. n = m + s
    BY <1>1, <1>2, <1>5
  <2> QED
    BY <1>5, <2>1
<1> QED
  BY <1>1, <1>2, <1>4, <1>5
=============================================================================
