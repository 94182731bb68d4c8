---------------------------- MODULE NumbersProofs ----------------------------
(***************************************************************************)
(* Proofs about Numbers, for every width and every bound its assumptions   *)
(* allow.                                                                  *)
(*                                                                         *)
(* A loop is a recursive function there.  That such a function exists, and *)
(* so obeys the equation that defines it, is Recursion below, by complete  *)
(* induction; what it computes is then proved by induction over a set of   *)
(* numbers, which needs no operator for a parameter.                       *)
(***************************************************************************)
EXTENDS Numbers, SequenceTheorems, FiniteSetTheorems, WellFoundedInduction, TLAPS

-----------------------------------------------------------------------------
(* Induction, and functions defined by recursion.                            *)

\* A set of numbers that is not empty has a least.
LEMMA Least ==
  ASSUME NEW S, S \subseteq Nat, S # {}
  PROVE  \E i \in S : \A j \in S : i <= j
<1> DEFINE R == OpToRel(<, Nat)
<1>1. IsWellFoundedOn(R, Nat)
  BY NatLessThanWellFounded
<1>2. \E i \in S : \A j \in S : ~ (<<j, i>> \in R)
  <2> HIDE DEF R
  <2> QED
    BY <1>1, WFMin
<1>3. \A i, j \in S : ~ (<<j, i>> \in R) => i <= j
  BY DEF OpToRel
<1> QED
  BY <1>2, <1>3

\* What holds of 0, and of n + 1 when it holds of n, holds of every number: S is the set
\* of which it holds.
LEMMA Induction ==
  ASSUME NEW S, 0 \in S, \A n \in Nat : n \in S => n + 1 \in S
  PROVE  \A n \in Nat : n \in S
<1> DEFINE Bad == {n \in Nat : n \notin S}
<1>1. CASE Bad # {}
  <2>1. PICK n \in Bad : \A m \in Bad : n <= m
    <3> HIDE DEF Bad
    <3>1. Bad \subseteq Nat
      BY DEF Bad
    <3> QED
      BY <1>1, <3>1, Least
  <2>2. n \in Nat \ {0} /\ n - 1 \in Nat
    BY <2>1
  <2>3. n - 1 \in S
    BY <2>1, <2>2
  <2> QED
    BY <2>1, <2>2, <2>3
<1> QED
  BY <1>1

\* The same from all the smaller numbers.
LEMMA CompleteInduction ==
  ASSUME NEW S, \A n \in Nat : (\A m \in Nat : m < n => m \in S) => n \in S
  PROVE  \A n \in Nat : n \in S
<1> DEFINE Bad == {n \in Nat : n \notin S}
<1>1. CASE Bad # {}
  <2>1. PICK n \in Bad : \A m \in Bad : n <= m
    <3> HIDE DEF Bad
    <3>1. Bad \subseteq Nat
      BY DEF Bad
    <3> QED
      BY <1>1, <3>1, Least
  <2>2. \A m \in Nat : m < n => m \in S
    BY <2>1
  <2> QED
    BY <2>1, <2>2
<1> QED
  BY <1>1

\* A definition by recursion on a part D of the numbers: base at the Small ones, elsewhere
\* a step from the value at a smaller one; and a function that satisfies it.
Recursive(D, S, Small, pred, base, step) ==
  /\ D \in SUBSET Nat /\ Small \in SUBSET D
  /\ \A n \in D \ Small : pred[n] \in D /\ pred[n] < n
  /\ \A n \in Small : base[n] \in S
  /\ \A n \in D \ Small, x \in S : step[<<n, x>>] \in S

Solves(f, D, S, Small, pred, base, step) ==
  /\ f \in [D -> S]
  /\ \A n \in D : f[n] = IF n \in Small THEN base[n] ELSE step[<<n, f[pred[n]]>>]

\* There is such a function.
LEMMA Recursion ==
  ASSUME NEW D, NEW S, NEW Small, NEW pred, NEW base, NEW step,
         Recursive(D, S, Small, pred, base, step)
  PROVE  \E f : Solves(f, D, S, Small, pred, base, step)
<1> SUFFICES ASSUME D \in SUBSET Nat, Small \in SUBSET D,
                    \A n \in D \ Small : pred[n] \in D /\ pred[n] < n,
                    \A n \in Small : base[n] \in S,
                    \A n \in D \ Small, x \in S : step[<<n, x>>] \in S
             PROVE  \E f \in [D -> S] :
               \A n \in D : f[n] = IF n \in Small THEN base[n] ELSE step[<<n, f[pred[n]]>>]
  BY DEF Recursive, Solves
<1> DEFINE Upto(n) == {k \in D : k <= n}
           Approx(n) == {f \in [Upto(n) -> S] :
             \A k \in Upto(n) : f[k] = IF k \in Small THEN base[k] ELSE step[<<k, f[pred[k]]>>]}
<1>0. \A n \in Nat : \A k \in Upto(n) : k \in Nat /\ (k \notin Small => pred[k] \in Upto(n) /\ pred[k] < k)
  <2> SUFFICES ASSUME NEW n \in Nat, NEW k \in Upto(n), k \notin Small
               PROVE  pred[k] \in Upto(n) /\ pred[k] < k
    OBVIOUS
  <2>1. k \in D /\ k \in Nat /\ k <= n
    OBVIOUS
  <2>2. pred[k] \in D /\ pred[k] < k /\ pred[k] \in Nat
    BY <2>1
  <2> QED
    BY <2>1, <2>2
\* Two approximations agree.
<1>1. ASSUME NEW m \in Nat, NEW n \in Nat, NEW f \in Approx(m), NEW g \in Approx(n)
      PROVE  \A k \in Nat : k \in Upto(m) /\ k \in Upto(n) => f[k] = g[k]
  <2> DEFINE Good == {k \in Nat : k \in Upto(m) /\ k \in Upto(n) => f[k] = g[k]}
  <2>1. ASSUME NEW k \in Nat, \A j \in Nat : j < k => j \in Good PROVE k \in Good
    <3> SUFFICES ASSUME k \in Upto(m), k \in Upto(n) PROVE f[k] = g[k]
      OBVIOUS
    <3>1. CASE k \in Small
      BY <3>1
    <3>2. CASE k \notin Small
      <4>1. pred[k] \in Upto(m) /\ pred[k] \in Upto(n) /\ pred[k] < k /\ pred[k] \in Nat
        BY <1>0, <3>2
      <4>2. f[pred[k]] = g[pred[k]]
        BY <2>1, <4>1
      <4>3. f[k] = step[<<k, f[pred[k]]>>] /\ g[k] = step[<<k, g[pred[k]]>>]
        BY <3>2
      <4> QED
        BY <4>2, <4>3
    <3> QED
      BY <3>1, <3>2
  <2>2. \A k \in Nat : k \in Good
    <3> HIDE DEF Good
    <3> QED
      BY <2>1, CompleteInduction
  <2> QED
    BY <2>2
\* There is one up to every n.
<1>2. \A n \in Nat : Approx(n) # {}
  <2> DEFINE Good == {n \in Nat : Approx(n) # {}}
  <2>1. ASSUME NEW n \in Nat, \A m \in Nat : m < n => m \in Good PROVE n \in Good
    <3> DEFINE prior == CHOOSE h : h \in Approx(n - 1)
    <3> DEFINE f == [k \in Upto(n) |-> IF k = n THEN (IF n \in Small THEN base[n] ELSE step[<<n, prior[pred[n]]>>])
                                               ELSE prior[k]]
    <3>1. \A k \in Upto(n) : k # n => n - 1 \in Nat /\ k \in Upto(n - 1)
      OBVIOUS
    <3>2. n - 1 \in Nat => prior \in Approx(n - 1)
      <4> SUFFICES ASSUME n - 1 \in Nat PROVE prior \in Approx(n - 1)
        OBVIOUS
      <4>1. n - 1 < n
        OBVIOUS
      <4>2. Approx(n - 1) # {}
        BY <2>1, <4>1
      <4> HIDE DEF Approx
      <4> QED
        BY <4>2
    <3>3. \A k \in Upto(n) : k # n =>
            prior[k] \in S /\ prior[k] = IF k \in Small THEN base[k] ELSE step[<<k, prior[pred[k]]>>]
      BY <3>1, <3>2
    <3>4. n \in Upto(n) /\ n \notin Small => pred[n] \in Upto(n) /\ pred[n] # n
      BY <1>0
    <3>5. \A k \in Upto(n) : f[k] \in S
      <4> SUFFICES ASSUME NEW k \in Upto(n) PROVE f[k] \in S
        OBVIOUS
      <4>1. CASE k # n
        BY <3>3, <4>1
      <4>2. CASE k = n /\ n \notin Small
        <5>1. prior[pred[n]] \in S
          BY <3>3, <3>4, <4>2
        <5> QED
          BY <4>2, <5>1
      <4>3. CASE k = n /\ n \in Small
        BY <4>3
      <4> QED
        BY <4>1, <4>2, <4>3
    <3>6. \A k \in Upto(n) : f[k] = IF k \in Small THEN base[k] ELSE step[<<k, f[pred[k]]>>]
      <4> SUFFICES ASSUME NEW k \in Upto(n)
                   PROVE  f[k] = IF k \in Small THEN base[k] ELSE step[<<k, f[pred[k]]>>]
        OBVIOUS
      <4>1. k \notin Small => pred[k] \in Upto(n) /\ pred[k] # n
        BY <1>0
      <4>2. k \notin Small => f[pred[k]] = prior[pred[k]]
        BY <4>1
      <4>3. CASE k # n
        <5>1. f[k] = prior[k]
          BY <4>3
        <5>2. prior[k] = IF k \in Small THEN base[k] ELSE step[<<k, prior[pred[k]]>>]
          BY <3>3, <4>3
        <5> HIDE DEF f, prior
        <5> QED
          BY <4>2, <5>1, <5>2
      <4>4. CASE k = n
        <5>1. f[k] = IF k \in Small THEN base[k] ELSE step[<<k, prior[pred[k]]>>]
          BY <4>4
        <5> HIDE DEF f, prior
        <5> QED
          BY <4>2, <5>1
      <4> QED
        BY <4>3, <4>4
    <3>7. f \in [Upto(n) -> S]
      BY <3>5
    <3> HIDE DEF f
    <3>8. f \in Approx(n)
      BY <3>6, <3>7
    <3> QED
      BY <3>8
  <2>2. \A n \in Nat : n \in Good
    <3> HIDE DEF Good
    <3> QED
      BY <2>1, CompleteInduction
  <2> QED
    BY <2>2
<1> DEFINE approx(n) == CHOOSE h : h \in Approx(n)
           f == [n \in D |-> approx(n)[n]]
<1>3. \A n \in Nat : approx(n) \in Approx(n)
  BY <1>2
<1> HIDE DEF approx
<1>4. \A n \in D : n \in Upto(n) /\ f[n] = approx(n)[n] /\ n \in Nat
  OBVIOUS
<1>5. f \in [D -> S]
  BY <1>3, <1>4
<1>6. \A n \in D : f[n] = IF n \in Small THEN base[n] ELSE step[<<n, f[pred[n]]>>]
  <2> SUFFICES ASSUME NEW n \in D
               PROVE  f[n] = IF n \in Small THEN base[n] ELSE step[<<n, f[pred[n]]>>]
    OBVIOUS
  <2>1. f[n] = IF n \in Small THEN base[n] ELSE step[<<n, approx(n)[pred[n]]>>]
    BY <1>3, <1>4
  <2>2. n \notin Small => f[pred[n]] = approx(n)[pred[n]]
    <3> SUFFICES ASSUME n \notin Small PROVE f[pred[n]] = approx(n)[pred[n]]
      OBVIOUS
    <3> DEFINE m == pred[n]
    <3>1. m \in D /\ m \in Nat /\ m \in Upto(n) /\ m \in Upto(m) /\ n \in Nat
      <4>1. n \in Nat /\ n \in Upto(n)
        BY <1>4
      <4>2. m \in Upto(n)
        BY <1>0, <4>1
      <4> HIDE DEF m
      <4> QED
        BY <4>1, <4>2
    <3> HIDE DEF m
    <3>2. approx(m) \in Approx(m) /\ approx(n) \in Approx(n)
      BY <1>3, <3>1
    <3> HIDE DEF Approx
    <3>3. approx(m)[m] = approx(n)[m]
      BY <1>1, <3>1, <3>2
    <3> QED
      BY <1>4, <3>1, <3>3 DEF m
  <2> QED
    BY <2>1, <2>2
<1> HIDE DEF f
<1> QED
  BY <1>5, <1>6

-----------------------------------------------------------------------------
(* Powers and what is left of a number. *)

\* Power is what its equation says.
LEMMA PowerDefined ==
  ASSUME NEW b \in Nat
  PROVE  /\ Power(b)[0] = 1
         /\ \A n \in Nat : Power(b)[n + 1] = b * Power(b)[n]
<1> DEFINE pred == [n \in Nat |-> n - 1]
           base == [n \in Nat |-> 1]
           step == [p \in Nat \X Nat |-> b * p[2]]
<1>1. PICK f : Solves(f, Nat, Nat, {0}, pred, base, step)
  <2>1. Recursive(Nat, Nat, {0}, pred, base, step)
    BY DEF Recursive
  <2> HIDE DEF pred, base, step
  <2> QED
    BY <2>1, Recursion
<1>2. f = [n \in Nat |-> IF n = 0 THEN 1 ELSE b * f[n - 1]]
  <2>1. \A n \in Nat : f[n] = IF n = 0 THEN 1 ELSE b * f[n - 1]
    <3> SUFFICES ASSUME NEW n \in Nat \ {0} PROVE f[n] = b * f[n - 1]
      BY <1>1 DEF Solves
    <3>1. n - 1 \in Nat /\ pred[n] = n - 1 /\ n \notin {0}
      OBVIOUS
    <3>2. f[n] = step[<<n, f[n - 1]>>] /\ f[n - 1] \in Nat
      <4> HIDE DEF pred, base, step
      <4> QED
        BY <1>1, <3>1 DEF Solves
    <3> QED
      BY <3>2
  <2> QED
    BY <1>1, <2>1 DEF Solves
<1>3. Power(b) = [n \in Nat |-> IF n = 0 THEN 1 ELSE b * Power(b)[n - 1]]
  BY <1>2 DEF Power
<1> QED
  BY <1>3

\* It is never zero.
LEMMA PowerType == ASSUME NEW b \in Nat \ {0} PROVE \A n \in Nat : Power(b)[n] \in Nat \ {0}
<1> DEFINE Good == {n \in Nat : Power(b)[n] \in Nat \ {0}}
<1>1. 0 \in Good
  BY PowerDefined
<1>2. ASSUME NEW n \in Nat, n \in Good PROVE n + 1 \in Good
  <2>1. Power(b)[n + 1] = b * Power(b)[n]
    BY PowerDefined
  <2>2. b * Power(b)[n] \in Nat \ {0}
    BY <1>2
  <2> QED
    BY <2>1, <2>2
<1>3. \A n \in Nat : n \in Good
  <2> HIDE DEF Good
  <2> QED
    BY <1>1, <1>2, Induction
<1> QED
  BY <1>3

\* The widths of the code are among those that Widths allows: the nine digits of put_u64
\* are one less than the ten of UINT32_MAX, and its divisor is the power it should be.
THEOREM WidthsOfTheCode ==
  /\ Power(10)[9] = 1000000000
  /\ Power(10)[9] <= 4294967295 /\ 4294967295 < Power(10)[9 + 1]
<1> DEFINE p == Power(10)
<1>1. p[0] = 1 /\ \A n \in Nat : p[n + 1] = 10 * p[n]
  BY PowerDefined
<1> HIDE DEF p
<1>2. /\ p[0 + 1] = 10 * p[0] /\ p[1 + 1] = 10 * p[1] /\ p[2 + 1] = 10 * p[2]
      /\ p[3 + 1] = 10 * p[3] /\ p[4 + 1] = 10 * p[4] /\ p[5 + 1] = 10 * p[5]
      /\ p[6 + 1] = 10 * p[6] /\ p[7 + 1] = 10 * p[7] /\ p[8 + 1] = 10 * p[8]
      /\ p[9 + 1] = 10 * p[9]
  BY <1>1
<1>3. p[1] = 10 /\ p[2] = 100 /\ p[3] = 1000
  BY <1>1, <1>2
<1>4. p[4] = 10000 /\ p[5] = 100000 /\ p[6] = 1000000
  BY <1>2, <1>3
<1>5. p[7] = 10000000 /\ p[8] = 100000000 /\ p[9] = 1000000000
  BY <1>2, <1>4
<1> QED
  BY <1>2, <1>5 DEF p

\* Division by a base.
LEMMA Division ==
  ASSUME NEW b \in Nat \ {0, 1}, NEW v \in Nat
  PROVE  /\ v \div b \in Nat /\ v % b \in 0..b - 1 /\ v = b * (v \div b) + (v % b)
         /\ v # 0 => v \div b < v
         /\ v < b => v \div b = 0 /\ v % b = v
         /\ v >= b => v \div b > 0
OBVIOUS

\* Rest is what its equation says, and a number.
LEMMA RestDefined ==
  ASSUME NEW b \in Nat \ {0, 1}, NEW v \in Nat
  PROVE  /\ Rest(b, v)[0] = v
         /\ \A n \in Nat : Rest(b, v)[n] \in Nat /\ Rest(b, v)[n + 1] = Rest(b, v)[n] \div b
<1> DEFINE pred == [n \in Nat |-> n - 1]
           base == [n \in Nat |-> v]
           step == [p \in Nat \X Nat |-> p[2] \div b]
<1>1. PICK f : Solves(f, Nat, Nat, {0}, pred, base, step)
  <2>1. Recursive(Nat, Nat, {0}, pred, base, step)
    BY Division DEF Recursive
  <2> HIDE DEF pred, base, step
  <2> QED
    BY <2>1, Recursion
<1>2. f = [n \in Nat |-> IF n = 0 THEN v ELSE f[n - 1] \div b]
  <2>1. \A n \in Nat : f[n] = IF n = 0 THEN v ELSE f[n - 1] \div b
    <3> SUFFICES ASSUME NEW n \in Nat \ {0} PROVE f[n] = f[n - 1] \div b
      BY <1>1 DEF Solves
    <3>1. n - 1 \in Nat /\ pred[n] = n - 1 /\ n \notin {0}
      OBVIOUS
    <3>2. f[n] = step[<<n, f[n - 1]>>] /\ f[n - 1] \in Nat
      <4> HIDE DEF pred, base, step
      <4> QED
        BY <1>1, <3>1 DEF Solves
    <3> QED
      BY <3>2
  <2> QED
    BY <1>1, <2>1 DEF Solves
<1>3. Rest(b, v) = [n \in Nat |-> IF n = 0 THEN v ELSE Rest(b, v)[n - 1] \div b]
  BY <1>2 DEF Rest
<1> DEFINE Good == {n \in Nat : Rest(b, v)[n] \in Nat}
<1>4. 0 \in Good
  BY <1>3
<1>5. ASSUME NEW n \in Nat, n \in Good PROVE n + 1 \in Good
  BY <1>3, <1>5, Division
<1>6. \A n \in Nat : n \in Good
  <2> HIDE DEF Good
  <2> QED
    BY <1>4, <1>5, Induction
<1> QED
  BY <1>3, <1>6

\* What is left after one digit more is left of the number without its last digit.
LEMMA RestShift ==
  ASSUME NEW b \in Nat \ {0, 1}, NEW v \in Nat
  PROVE  \A n \in Nat : Rest(b, v)[n + 1] = Rest(b, v \div b)[n]
<1> DEFINE Good == {n \in Nat : Rest(b, v)[n + 1] = Rest(b, v \div b)[n]}
<1>0. v \div b \in Nat
  BY Division
<1>1. 0 \in Good
  <2>1. Rest(b, v)[0 + 1] = v \div b
    <3>1. Rest(b, v)[0 + 1] = Rest(b, v)[0] \div b /\ Rest(b, v)[0] = v
      BY RestDefined
    <3> QED
      BY <3>1
  <2> QED
    BY <1>0, <2>1, RestDefined
<1>2. ASSUME NEW n \in Nat, n \in Good PROVE n + 1 \in Good
  <2>1. Rest(b, v)[(n + 1) + 1] = Rest(b, v)[n + 1] \div b
    BY RestDefined
  <2>2. Rest(b, v \div b)[n + 1] = Rest(b, v \div b)[n] \div b
    BY <1>0, RestDefined
  <2> QED
    BY <1>2, <2>1, <2>2
<1>3. \A n \in Nat : n \in Good
  <2> HIDE DEF Good
  <2> QED
    BY <1>1, <1>2, Induction
<1> QED
  BY <1>3

\* A number below the n-th power has n digits.
LEMMA RestGone ==
  ASSUME NEW b \in Nat \ {0, 1}
  PROVE  \A n \in Nat : \A v \in Nat : v < Power(b)[n] => Rest(b, v)[n] = 0
<1> DEFINE Good == {n \in Nat : \A v \in Nat : v < Power(b)[n] => Rest(b, v)[n] = 0}
<1>1. 0 \in Good
  <2> SUFFICES ASSUME NEW v \in Nat, v < Power(b)[0] PROVE Rest(b, v)[0] = 0
    OBVIOUS
  <2>1. Power(b)[0] = 1 /\ Rest(b, v)[0] = v
    BY RestDefined, PowerDefined
  <2> QED
    BY <2>1
<1>2. ASSUME NEW n \in Nat, n \in Good PROVE n + 1 \in Good
  <2> SUFFICES ASSUME NEW v \in Nat, v < Power(b)[n + 1] PROVE Rest(b, v)[n + 1] = 0
    OBVIOUS
  <2> DEFINE q == v \div b
             P == Power(b)[n]
  <2>1. P \in Nat /\ Power(b)[n + 1] = b * P
    BY PowerType, PowerDefined
  <2>2. q \in Nat /\ b * q <= v
    BY Division
  <2>3. q < P
    <3> HIDE DEF q, P
    <3>1. b * q < b * P
      BY <2>1, <2>2
    <3> QED
      BY <2>1, <2>2, <3>1
  <2>4. Rest(b, q)[n] = 0
    BY <1>2, <2>2, <2>3
  <2> QED
    BY <2>4, RestShift
<1>3. \A n \in Nat : n \in Good
  <2> HIDE DEF Good
  <2> QED
    BY <1>1, <1>2, Induction
<1> QED
  BY <1>3

\* When nothing is left, nothing is left later.
LEMMA RestStaysGone ==
  ASSUME NEW b \in Nat \ {0, 1}, NEW v \in Nat, NEW m \in Nat, Rest(b, v)[m] = 0
  PROVE  \A n \in Nat : n >= m => Rest(b, v)[n] = 0
<1> DEFINE Good == {n \in Nat : n >= m => Rest(b, v)[n] = 0}
<1>1. 0 \in Good
  OBVIOUS
<1>2. ASSUME NEW n \in Nat, n \in Good PROVE n + 1 \in Good
  <2>1. Rest(b, v)[n + 1] = Rest(b, v)[n] \div b
    BY RestDefined
  <2>2. 0 \div b = 0
    BY Division
  <2> QED
    BY <1>2, <2>1, <2>2
<1>3. \A n \in Nat : n \in Good
  <2> HIDE DEF Good
  <2> QED
    BY <1>1, <1>2, Induction
<1> QED
  BY <1>3

-----------------------------------------------------------------------------
(* What digits mean. *)

\* The values of the first digits, one more each time.
Prefixes(value, digits, b) ==
  /\ value \in [0..Len(digits) -> Nat] /\ value[0] = 0
  /\ \A n \in 1..Len(digits) : value[n] = value[n - 1] * b + digits[n]

\* Value is the last of them.
LEMMA ValueDefined ==
  ASSUME NEW b \in Nat, NEW digits \in Seq(Nat)
  PROVE  \E value : Prefixes(value, digits, b) /\ Value(digits, b) = value[Len(digits)]
<1> DEFINE D == 0..Len(digits)
           pred == [n \in Nat |-> n - 1]
           base == [n \in Nat |-> 0]
           step == [p \in Nat \X Nat |-> p[2] * b + digits[p[1]]]
           value == CHOOSE f : f = [n \in D |-> IF n = 0 THEN 0 ELSE f[n - 1] * b + digits[n]]
<1>0. /\ Len(digits) \in Nat
      /\ \A n \in D \ {0} : digits[n] \in Nat /\ n - 1 \in D /\ n \in Nat
  OBVIOUS
<1>00. \A n \in D \ {0}, x \in Nat : step[<<n, x>>] = x * b + digits[n]
  OBVIOUS
<1>1. PICK f : Solves(f, D, Nat, {0}, pred, base, step)
  <2>1. /\ D \in SUBSET Nat /\ {0} \in SUBSET D
        /\ \A n \in D \ {0} : pred[n] \in D /\ pred[n] < n
        /\ \A n \in {0} : base[n] \in Nat
    BY <1>0
  <2>2. \A n \in D \ {0}, x \in Nat : step[<<n, x>>] \in Nat
    <3> SUFFICES ASSUME NEW n \in D \ {0}, NEW x \in Nat PROVE step[<<n, x>>] \in Nat
      OBVIOUS
    <3>1. x * b + digits[n] \in Nat
      BY <1>0
    <3> QED
      BY <1>00, <3>1
  <2> HIDE DEF D, pred, base, step
  <2>3. Recursive(D, Nat, {0}, pred, base, step)
    BY <2>1, <2>2 DEF Recursive
  <2> QED
    BY <2>3, Recursion
<1>2. f = [n \in D |-> IF n = 0 THEN 0 ELSE f[n - 1] * b + digits[n]]
  <2>1. \A n \in D : f[n] = IF n = 0 THEN 0 ELSE f[n - 1] * b + digits[n]
    <3>1. f[0] = 0
      <4>1. 0 \in D /\ base[0] = 0
        BY <1>0
      <4> HIDE DEF D, base, step, pred
      <4> QED
        BY <1>1, <4>1 DEF Solves
    <3>2. ASSUME NEW n \in D \ {0} PROVE f[n] = f[n - 1] * b + digits[n]
      <4>1. n - 1 \in D /\ pred[n] = n - 1 /\ n \notin {0}
        BY <1>0
      <4>2. f[n] = step[<<n, f[n - 1]>>] /\ f[n - 1] \in Nat
        <5> HIDE DEF pred, base, step, D
        <5> QED
          BY <1>1, <4>1 DEF Solves
      <4> QED
        BY <1>00, <4>2
    <3> HIDE DEF D
    <3> QED
      BY <3>1, <3>2
  <2> HIDE DEF D
  <2> QED
    BY <1>1, <2>1 DEF Solves
<1>3. value = [n \in D |-> IF n = 0 THEN 0 ELSE value[n - 1] * b + digits[n]]
  <2> HIDE DEF D
  <2> QED
    BY <1>2
<1>4. Value(digits, b) = value[Len(digits)]
  BY DEF Value
<1> HIDE DEF value
<1>5. \A n \in D : value[n] = IF n = 0 THEN 0 ELSE value[n - 1] * b + digits[n]
  <2> HIDE DEF D
  <2> QED
    BY <1>3
<1> DEFINE Good == {n \in Nat : n \in D => value[n] \in Nat}
<1>6. 0 \in Good
  BY <1>5
<1>7. ASSUME NEW n \in Nat, n \in Good PROVE n + 1 \in Good
  <2> SUFFICES ASSUME n + 1 \in D PROVE value[n + 1] \in Nat
    OBVIOUS
  <2>1. value[n] \in Nat /\ digits[n + 1] \in Nat /\ (n + 1) - 1 = n
    BY <1>0, <1>7
  <2>2. value[n + 1] = value[n] * b + digits[n + 1]
    BY <1>5, <2>1
  <2>3. value[n] * b + digits[n + 1] \in Nat
    <3> DEFINE x == value[n]
               d == digits[n + 1]
    <3>1. x \in Nat /\ d \in Nat
      BY <2>1
    <3> HIDE DEF x, d
    <3>2. x * b + d \in Nat
      BY <3>1
    <3> QED
      BY <3>2 DEF x, d
  <2> QED
    BY <2>2, <2>3
<1>8. \A n \in Nat : n \in Good
  <2> HIDE DEF Good
  <2> QED
    BY <1>6, <1>7, Induction
<1>9. value \in [D -> Nat]
  <2>1. \A n \in D : value[n] \in Nat
    BY <1>8
  <2> HIDE DEF D
  <2> QED
    BY <1>3, <2>1
<1>10. Prefixes(value, digits, b)
  <2>1. \A n \in 1..Len(digits) : n \in D /\ n # 0
    BY <1>0
  <2>2. 0 \in D
    BY <1>0
  <2>3. \A n \in 1..Len(digits) : value[n] = value[n - 1] * b + digits[n]
    BY <1>5, <2>1
  <2> QED
    BY <1>5, <1>9, <2>2, <2>3 DEF Prefixes
<1> QED
  BY <1>4, <1>10

\* Digits one behind the other: the value of the first part counts for as many powers as
\* there are digits in the second.
LEMMA ValueOfParts ==
  ASSUME NEW b \in Nat \ {0}, NEW s \in Seq(Nat), NEW t \in Seq(Nat)
  PROVE  Value(s \o t, b) = Value(s, b) * Power(b)[Len(t)] + Value(t, b)
<1> DEFINE st == s \o t
<1>1. /\ st \in Seq(Nat) /\ Len(st) = Len(s) + Len(t) /\ Len(s) \in Nat /\ Len(t) \in Nat
      /\ \A i \in 1..Len(s) : st[i] = s[i] /\ i \in 1..Len(st) /\ s[i] \in Nat
      /\ \A i \in 1..Len(t) : st[Len(s) + i] = t[i] /\ Len(s) + i \in 1..Len(st) /\ t[i] \in Nat
  OBVIOUS
<1> HIDE DEF st
<1>2. PICK vs : Prefixes(vs, s, b) /\ Value(s, b) = vs[Len(s)]
  BY ValueDefined
<1>3. PICK vt : Prefixes(vt, t, b) /\ Value(t, b) = vt[Len(t)]
  BY ValueDefined
<1>4. PICK v : Prefixes(v, st, b) /\ Value(st, b) = v[Len(st)]
  BY <1>1, ValueDefined
\* The first part.
<1> DEFINE Good1 == {n \in Nat : n <= Len(s) => v[n] = vs[n]}
<1>5. 0 \in Good1
  BY <1>2, <1>4 DEF Prefixes
<1>6. ASSUME NEW n \in Nat, n \in Good1 PROVE n + 1 \in Good1
  <2> SUFFICES ASSUME n + 1 <= Len(s) PROVE v[n + 1] = vs[n + 1]
    OBVIOUS
  <2>1. n + 1 \in 1..Len(s) /\ (n + 1) - 1 = n /\ v[n] = vs[n]
    BY <1>1, <1>6
  <2>2. n + 1 \in 1..Len(st) /\ st[n + 1] = s[n + 1]
    BY <1>1, <2>1
  <2>3. v[n + 1] = v[n] * b + s[n + 1] /\ vs[n + 1] = vs[n] * b + s[n + 1]
    BY <1>2, <1>4, <2>1, <2>2 DEF Prefixes
  <2> QED
    BY <2>1, <2>3
<1>7. \A n \in Nat : n \in Good1
  <2> HIDE DEF Good1
  <2> QED
    BY <1>5, <1>6, Induction
\* The second.
<1> DEFINE A == Value(s, b)
           P(n) == Power(b)[n]
           Good2 == {n \in Nat : n <= Len(t) => v[Len(s) + n] = A * P(n) + vt[n]}
<1>8. A \in Nat /\ A = v[Len(s)]
  BY <1>1, <1>2, <1>7 DEF Prefixes
<1>9. 0 \in Good2
  <2>1. P(0) = 1 /\ vt[0] = 0 /\ Len(s) + 0 = Len(s)
    BY <1>1, <1>3, PowerDefined DEF Prefixes
  <2> HIDE DEF A, P
  <2> QED
    BY <1>8, <2>1
<1>10. ASSUME NEW n \in Nat, n \in Good2 PROVE n + 1 \in Good2
  <2> SUFFICES ASSUME n + 1 <= Len(t) PROVE v[Len(s) + (n + 1)] = A * P(n + 1) + vt[n + 1]
    OBVIOUS
  <2>1. n + 1 \in 1..Len(t) /\ (n + 1) - 1 = n /\ n \in 0..Len(t)
    BY <1>1
  <2>2. Len(s) + (n + 1) \in 1..Len(st) /\ st[Len(s) + (n + 1)] = t[n + 1]
        /\ (Len(s) + (n + 1)) - 1 = Len(s) + n
    BY <1>1, <2>1
  <2>3. v[Len(s) + (n + 1)] = v[Len(s) + n] * b + t[n + 1]
    BY <1>4, <2>2 DEF Prefixes
  <2>4. vt[n + 1] = vt[n] * b + t[n + 1] /\ vt[n] \in Nat
    BY <1>3, <2>1 DEF Prefixes
  <2>5. v[Len(s) + n] = A * P(n) + vt[n]
    BY <1>10, <2>1
  <2>6. P(n + 1) = b * P(n) /\ P(n) \in Nat /\ t[n + 1] \in Nat
    BY <1>1, <2>1, PowerDefined, PowerType
  <2> DEFINE p == P(n)
             x == vt[n]
             d == t[n + 1]
  <2>7. (A * p + x) * b + d = A * (b * p) + (x * b + d)
    <3>1. A \in Nat /\ p \in Nat /\ x \in Nat /\ d \in Nat
      BY <1>8, <2>4, <2>6
    <3> HIDE DEF A, p, x, d
    <3> QED
      BY <3>1
  <2> HIDE DEF A, P
  <2> QED
    BY <2>3, <2>4, <2>5, <2>6, <2>7
<1>11. \A n \in Nat : n \in Good2
  <2> HIDE DEF Good2
  <2> QED
    BY <1>9, <1>10, Induction
<1>12. v[Len(s) + Len(t)] = A * P(Len(t)) + vt[Len(t)]
  BY <1>1, <1>11
<1> QED
  BY <1>1, <1>3, <1>4, <1>12 DEF st

\* One digit is its value.
LEMMA ValueOfOne == ASSUME NEW b \in Nat \ {0}, NEW d \in Nat PROVE Value(<<d>>, b) = d
<1> DEFINE s == <<d>>
<1>0. s \in Seq(Nat)
  OBVIOUS
<1>1. PICK v : Prefixes(v, <<d>>, b) /\ Value(<<d>>, b) = v[Len(<<d>>)]
  <2> HIDE DEF s
  <2>1. \E v : Prefixes(v, s, b) /\ Value(s, b) = v[Len(s)]
    BY <1>0, ValueDefined
  <2> QED
    BY <2>1 DEF s
<1>2. Len(<<d>>) = 1 /\ <<d>>[1] = d /\ 1 - 1 = 0 /\ 1 \in 1..1
  OBVIOUS
<1>3. v[1] = v[0] * b + d /\ v[0] = 0
  BY <1>1, <1>2 DEF Prefixes
<1> QED
  BY <1>1, <1>2, <1>3

\* One digit more.
LEMMA ValueOfAppend ==
  ASSUME NEW b \in Nat \ {0}, NEW s \in Seq(Nat), NEW d \in Nat
  PROVE  Value(Append(s, d), b) = Value(s, b) * b + d
<1>1. Append(s, d) = s \o <<d>>
  BY AppendIsConcat
<1>2. Len(<<d>>) = 1 /\ <<d>> \in Seq(Nat)
  OBVIOUS
<1>3. Power(b)[1] = b
  <2>1. Power(b)[0 + 1] = b * Power(b)[0] /\ Power(b)[0] = 1
    BY PowerDefined
  <2> QED
    BY <2>1
<1> DEFINE t == <<d>>
<1>4. Len(t) = 1 /\ t \in Seq(Nat) /\ Value(t, b) = d
  BY <1>2, ValueOfOne
<1> HIDE DEF t
<1>5. Value(s \o t, b) = Value(s, b) * b + d
  BY <1>3, <1>4, ValueOfParts
<1> QED
  BY <1>1, <1>5 DEF t

\* A value is a number.
LEMMA ValueType == ASSUME NEW b \in Nat, NEW s \in Seq(Nat) PROVE Value(s, b) \in Nat
<1>1. PICK v : Prefixes(v, s, b) /\ Value(s, b) = v[Len(s)]
  BY ValueDefined
<1>2. Len(s) \in 0..Len(s)
  OBVIOUS
<1> QED
  BY <1>1, <1>2 DEF Prefixes

\* Digits taken from the end of a number, until nothing is left, have its value.
LEMMA LastDigitsValue ==
  ASSUME NEW b \in Nat \ {0, 1}, NEW n \in Nat, NEW v \in Nat
  PROVE  /\ LastDigits(b, n, v) \in Seq(Nat) /\ Len(LastDigits(b, n, v)) = n
         /\ Rest(b, v)[n] = 0 => Value(LastDigits(b, n, v), b) = v
<1> DEFINE digits == LastDigits(b, n, v)
           rest == Rest(b, v)
<1>1. \A m \in Nat : rest[m] \in Nat /\ rest[m] % b \in Nat
                     /\ rest[m] = b * (rest[m] \div b) + (rest[m] % b)
  <2> SUFFICES ASSUME NEW m \in Nat
               PROVE  /\ rest[m] \in Nat /\ rest[m] % b \in Nat
                      /\ rest[m] = b * (rest[m] \div b) + (rest[m] % b)
    OBVIOUS
  <2> DEFINE r == rest[m]
  <2>1. r \in Nat
    BY RestDefined
  <2> HIDE DEF r
  <2>2. r % b \in Nat /\ r = b * (r \div b) + (r % b)
    BY <2>1, Division
  <2> QED
    BY <2>1, <2>2 DEF r
<1>2. digits \in [1..n -> Nat] /\ \A i \in 1..n : digits[i] = rest[n - i] % b
  <2>1. \A i \in 1..n : n - i \in Nat
    OBVIOUS
  <2> HIDE DEF rest
  <2> QED
    BY <1>1, <2>1 DEF LastDigits, rest
<1> HIDE DEF digits
<1>3. digits \in Seq(Nat) /\ Len(digits) = n
  BY <1>2
<1>4. ASSUME rest[n] = 0 PROVE Value(digits, b) = v
  <2>1. PICK value : Prefixes(value, digits, b) /\ Value(digits, b) = value[Len(digits)]
    BY <1>3, ValueDefined
  <2> DEFINE Good == {m \in Nat : m <= n => value[m] = rest[n - m]}
  <2>2. 0 \in Good
    BY <1>4, <2>1 DEF Prefixes
  <2>3. ASSUME NEW m \in Nat, m \in Good PROVE m + 1 \in Good
    <3> SUFFICES ASSUME m + 1 <= n PROVE value[m + 1] = rest[n - (m + 1)]
      OBVIOUS
    <3>1. m + 1 \in 1..Len(digits) /\ (m + 1) - 1 = m /\ n - (m + 1) \in Nat
          /\ (n - (m + 1)) + 1 = n - m
      BY <1>3
    <3>2. value[m + 1] = value[m] * b + digits[m + 1]
      BY <2>1, <3>1 DEF Prefixes
    <3>3. value[m] = rest[n - m] /\ digits[m + 1] = rest[n - (m + 1)] % b
      BY <1>2, <1>3, <2>3, <3>1
    <3> DEFINE r == rest[n - (m + 1)]
    <3>4. rest[n - m] = r \div b
      BY <3>1, RestDefined
    <3>5. r = b * (r \div b) + (r % b) /\ r \in Nat /\ r \div b \in Nat
      BY <1>1, <3>1, Division
    <3> HIDE DEF r, rest
    <3>6. value[m + 1] = (r \div b) * b + (r % b)
      BY <3>2, <3>3, <3>4 DEF r
    <3>7. (r \div b) * b = b * (r \div b)
      BY <3>5
    <3> QED
      BY <3>5, <3>6, <3>7 DEF r
  <2>4. \A m \in Nat : m \in Good
    <3> HIDE DEF Good
    <3> QED
      BY <2>2, <2>3, Induction
  <2>5. value[n] = rest[n - n] /\ n - n = 0
    BY <2>4
  <2> QED
    BY <1>3, <2>1, <2>5, RestDefined
<1> QED
  BY <1>3, <1>4 DEF digits

-----------------------------------------------------------------------------
(* put_u32. *)

\* PutU32 is what its equation says.
LEMMA PutU32Defined ==
  \A v \in Nat : PutU32[v] = IF v < Base THEN <<v>> ELSE Append(PutU32[v \div Base], v % Base)
<1> DEFINE Small == {v \in Nat : v < Base}
           pred == [v \in Nat |-> v \div Base]
           base == [v \in Nat |-> <<v>>]
           step == [p \in Nat \X Seq(Nat) |-> Append(p[2], p[1] % Base)]
           S == Seq(Nat)
<1>0. Base \in Nat \ {0, 1}
  BY Widths
<1>1. \A n \in Nat \ Small : pred[n] \in Nat /\ pred[n] < n
  BY <1>0, Division
<1>2. \A n \in Small : base[n] \in Seq(Nat)
  OBVIOUS
<1>3. \A n \in Nat, x \in Seq(Nat) : step[<<n, x>>] = Append(x, n % Base)
  OBVIOUS
<1>4. \A n \in Nat \ Small, x \in Seq(Nat) : step[<<n, x>>] \in Seq(Nat)
  <2> SUFFICES ASSUME NEW n \in Nat \ Small, NEW x \in Seq(Nat) PROVE step[<<n, x>>] \in Seq(Nat)
    OBVIOUS
  <2>1. n % Base \in Nat
    BY <1>0
  <2> QED
    BY <1>3, <2>1
<1>5. PICK f : Solves(f, Nat, S, Small, pred, base, step)
  <2>1. Recursive(Nat, S, Small, pred, base, step)
    BY <1>1, <1>2, <1>4 DEF Recursive
  <2> HIDE DEF Small, pred, base, step, S
  <2> QED
    BY <2>1, Recursion
<1>6. f = [v \in Nat |-> IF v < Base THEN <<v>> ELSE Append(f[v \div Base], v % Base)]
  <2>1. \A v \in Nat : f[v] = IF v < Base THEN <<v>> ELSE Append(f[v \div Base], v % Base)
    <3> SUFFICES ASSUME NEW v \in Nat
        PROVE f[v] = IF v < Base THEN <<v>> ELSE Append(f[v \div Base], v % Base)
      OBVIOUS
    <3>1. v \div Base \in Nat
      BY <1>0
    <3> QED
      BY <1>3, <1>5, <3>1 DEF Solves
  <2>2. f \in [Nat -> S]
    <3> HIDE DEF S
    <3> QED
      BY <1>5 DEF Solves
  <2> QED
    BY <2>1, <2>2
<1>7. PutU32 = [v \in Nat |-> IF v < Base THEN <<v>> ELSE Append(PutU32[v \div Base], v % Base)]
  BY <1>6 DEF PutU32
<1> QED
  BY <1>7

\* Appending keeps the first.
LEMMA FirstKept ==
  ASSUME NEW s \in Seq(Nat), Len(s) > 0, NEW d \in Nat
  PROVE  /\ Append(s, d) \in Seq(Nat) /\ Len(Append(s, d)) = Len(s) + 1
         /\ Append(s, d)[1] = s[1]
OBVIOUS

\* What put_u32 writes: digits with the value, no leading zero, and at least one.
Written(s, v) == s \in Seq(Nat) /\ Len(s) > 0 /\ Value(s, Base) = v /\ (v > 0 => s[1] > 0)

\* put_u32 writes the number.
LEMMA PutU32Writes == \A v \in Nat : Written(PutU32[v], v)
<1> DEFINE Good == {v \in Nat : Written(PutU32[v], v)}
<1>0. Base \in Nat \ {0, 1}
  BY Widths
<1>1. ASSUME NEW v \in Nat, \A w \in Nat : w < v => w \in Good PROVE v \in Good
  <2>1. CASE v < Base
    <3> DEFINE s == <<v>>
    <3>1. PutU32[v] = s
      BY <2>1, PutU32Defined
    <3>2. s \in Seq(Nat) /\ Len(s) > 0 /\ s[1] = v
      OBVIOUS
    <3>3. Value(s, Base) = v
      BY <1>0, ValueOfOne
    <3> HIDE DEF s
    <3> QED
      BY <3>1, <3>2, <3>3 DEF Written
  <2>2. CASE ~ (v < Base)
    <3> DEFINE q == v \div Base
               d == v % Base
               s == PutU32[q]
    <3>1. q \in Nat /\ q < v /\ q > 0 /\ d \in Nat /\ v = Base * q + d
      BY <1>0, <2>2, Division
    <3>2. PutU32[v] = Append(s, d)
      BY <2>2, PutU32Defined
    <3>3. Written(s, q)
      BY <1>1, <3>1
    <3> HIDE DEF s, q, d
    <3>4. s \in Seq(Nat) /\ Len(s) > 0 /\ Value(s, Base) = q /\ s[1] > 0
      BY <3>1, <3>3 DEF Written
    <3>5. Value(Append(s, d), Base) = q * Base + d
      BY <1>0, <3>1, <3>4, ValueOfAppend
    <3>6. q * Base + d = v
      BY <1>0, <3>1
    <3>7. Append(s, d) \in Seq(Nat) /\ Len(Append(s, d)) = Len(s) + 1 /\ Append(s, d)[1] = s[1]
      BY <3>1, <3>4, FirstKept
    <3>8. Len(s) \in Nat
      BY <3>4
    <3> DEFINE a == Append(s, d)
    <3> HIDE DEF a
    <3>9. a \in Seq(Nat) /\ Len(a) > 0 /\ a[1] > 0 /\ Value(a, Base) = v /\ PutU32[v] = a
      BY <3>2, <3>4, <3>5, <3>6, <3>7, <3>8 DEF a
    <3> QED
      BY <3>9 DEF Written
  <2> QED
    BY <2>1, <2>2
<1>2. \A v \in Nat : v \in Good
  <2> HIDE DEF Good
  <2> QED
    BY <1>1, CompleteInduction
<1> QED
  BY <1>2

\* It writes no more than n digits of a number below the n-th power.
LEMMA PutU32Length ==
  \A n \in Nat : \A v \in Nat : v < Power(Base)[n + 1] => Len(PutU32[v]) <= n + 1
<1> DEFINE Good == {n \in Nat : \A v \in Nat : v < Power(Base)[n + 1] => Len(PutU32[v]) <= n + 1}
<1>0. Base \in Nat \ {0, 1}
  BY Widths
<1>00. \A v \in Nat : v < Base => Len(PutU32[v]) = 1
  <2> SUFFICES ASSUME NEW v \in Nat, v < Base PROVE Len(PutU32[v]) = 1
    OBVIOUS
  <2>1. PutU32[v] = <<v>>
    BY PutU32Defined
  <2> QED
    BY <2>1
<1>1. 0 \in Good
  <2>1. Power(Base)[0 + 1] = Base * Power(Base)[0] /\ Power(Base)[0] = 1
    BY <1>0, PowerDefined
  <2>2. Power(Base)[0 + 1] = Base
    BY <1>0, <2>1
  <2>3. \A v \in Nat : v < Power(Base)[0 + 1] => Len(PutU32[v]) <= 0 + 1
    <3> SUFFICES ASSUME NEW v \in Nat, v < Power(Base)[0 + 1] PROVE Len(PutU32[v]) <= 0 + 1
      OBVIOUS
    <3>1. Len(PutU32[v]) = 1
      BY <1>00, <2>2
    <3> HIDE DEF Good
    <3> QED
      BY <3>1
  <2> QED
    BY <2>3
<1>2. ASSUME NEW n \in Nat, n \in Good PROVE n + 1 \in Good
  <2> SUFFICES ASSUME NEW v \in Nat, v < Power(Base)[(n + 1) + 1]
               PROVE  Len(PutU32[v]) <= (n + 1) + 1
    OBVIOUS
  <2>1. CASE v < Base
    <3>1. Len(PutU32[v]) = 1
      BY <1>00, <2>1
    <3> HIDE DEF Good
    <3> QED
      BY <3>1
  <2>2. CASE ~ (v < Base)
    <3> DEFINE q == v \div Base
               P == Power(Base)[n + 1]
               s == PutU32[q]
    <3>1. q \in Nat /\ Base * q <= v /\ v % Base \in Nat
      BY <1>0, Division
    <3>2. P \in Nat /\ Power(Base)[(n + 1) + 1] = Base * P
      BY <1>0, PowerType, PowerDefined
    <3>3. q < P
      <4> HIDE DEF q, P
      <4>1. Base * q < Base * P
        BY <1>0, <3>1, <3>2
      <4> QED
        BY <1>0, <3>1, <3>2, <4>1
    <3>4. Len(s) <= n + 1
      BY <1>2, <3>1, <3>3
    <3>5. PutU32[v] = Append(s, v % Base)
      BY <2>2, PutU32Defined
    <3>6. s \in Seq(Nat) /\ Len(s) > 0
      BY <3>1, PutU32Writes DEF Written
    <3> HIDE DEF s, q
    <3>7. Len(PutU32[v]) = Len(s) + 1 /\ Len(s) \in Nat
      BY <3>1, <3>5, <3>6, FirstKept
    <3> QED
      BY <3>4, <3>7
  <2> QED
    BY <2>1, <2>2
<1>3. \A n \in Nat : n \in Good
  <2> HIDE DEF Good
  <2> QED
    BY <1>1, <1>2, Induction
<1> QED
  BY <1>3

-----------------------------------------------------------------------------
(* put_u64 and put_hex. *)

\* The widths, and the power of the base by which put_u64 divides.
LEMMA UnitFacts ==
  /\ Base \in Nat \ {0, 1} /\ HexBase \in Nat \ {0, 1}
  /\ LowUnit \in Nat \ {0, 1} /\ LowUnit <= MaxU32 /\ MaxU32 \in Nat /\ LowDigits \in Nat \ {0}
<1>1. Base \in Nat \ {0, 1} /\ HexBase \in Nat \ {0, 1} /\ MaxU32 \in Nat /\ LowDigits \in Nat \ {0}
      /\ LowUnit <= MaxU32
  BY Widths DEF LowUnit
<1> DEFINE n == LowDigits - 1
<1>2. n \in Nat /\ n + 1 = LowDigits
  BY <1>1
<1> HIDE DEF n
<1>3. Power(Base)[n + 1] = Base * Power(Base)[n] /\ Power(Base)[n] \in Nat \ {0}
  BY <1>1, <1>2, PowerDefined, PowerType
<1>4. Base * Power(Base)[n] \in Nat /\ Base * Power(Base)[n] > 1
  <2> DEFINE P == Power(Base)[n]
  <2>1. P \in Nat /\ P >= 1
    BY <1>3
  <2> HIDE DEF P
  <2>2. Base * P >= Base
    BY <1>1, <2>1
  <2>3. Base * P \in Nat
    BY <1>1, <2>1
  <2> QED
    BY <1>1, <2>2, <2>3 DEF P
<1>5. LowUnit = Base * Power(Base)[n]
  BY <1>2, <1>3 DEF LowUnit
<1> QED
  BY <1>1, <1>4, <1>5

\* The digits below a power of the base, all of them.
LEMMA LowPartWrites ==
  ASSUME NEW lo \in Nat, lo < LowUnit
  PROVE  LowPart(lo) \in Seq(Nat) /\ Len(LowPart(lo)) = LowDigits /\ Value(LowPart(lo), Base) = lo
<1>1. Rest(Base, lo)[LowDigits] = 0
  BY UnitFacts, RestGone DEF LowUnit
<1> QED
  BY <1>1, UnitFacts, LastDigitsValue DEF LowPart

\* PutU64 is what its equation says.
LEMMA PutU64Defined ==
  \A v \in Nat : PutU64[v] =
    IF v <= MaxU32 THEN PutU32[v] ELSE PutU64[v \div LowUnit] \o LowPart(v % LowUnit)
<1> DEFINE Small == {v \in Nat : v <= MaxU32}
           pred == [v \in Nat |-> v \div LowUnit]
           S == Seq(Nat)
           step == [p \in Nat \X S |-> p[2] \o LowPart(p[1] % LowUnit)]
<1>1. \A n \in Nat \ Small : pred[n] \in Nat /\ pred[n] < n
  BY UnitFacts, Division
<1>2. \A n \in Small : PutU32[n] \in S
  BY PutU32Writes DEF Written
<1>3. \A n \in Nat, x \in S : step[<<n, x>>] = x \o LowPart(n % LowUnit)
  <2> HIDE DEF S
  <2> QED
    OBVIOUS
<1>4. \A n \in Nat \ Small, x \in S : step[<<n, x>>] \in S
  <2> SUFFICES ASSUME NEW n \in Nat, NEW x \in S PROVE x \o LowPart(n % LowUnit) \in S
    BY <1>3
  <2> DEFINE lo == n % LowUnit
             y == LowPart(lo)
  <2>1. lo \in Nat /\ lo < LowUnit
    BY UnitFacts
  <2>2. y \in S
    <3> HIDE DEF lo
    <3> QED
      BY <2>1, LowPartWrites
  <2> HIDE DEF y
  <2>3. x \o y \in S
    BY <2>2
  <2> QED
    BY <2>3 DEF y
<1>5. PICK f : Solves(f, Nat, S, Small, pred, PutU32, step)
  <2>1. Recursive(Nat, S, Small, pred, PutU32, step)
    <3> HIDE DEF S, step
    <3> QED
      BY <1>1, <1>2, <1>4 DEF Recursive
  <2> HIDE DEF Small, pred, step, S
  <2> QED
    BY <2>1, Recursion
<1>6. f = [v \in Nat |->
             IF v <= MaxU32 THEN PutU32[v] ELSE f[v \div LowUnit] \o LowPart(v % LowUnit)]
  <2>1. \A v \in Nat :
          f[v] = IF v <= MaxU32 THEN PutU32[v] ELSE f[v \div LowUnit] \o LowPart(v % LowUnit)
    <3> SUFFICES ASSUME NEW v \in Nat
                 PROVE  f[v] = IF v <= MaxU32 THEN PutU32[v]
                               ELSE f[v \div LowUnit] \o LowPart(v % LowUnit)
      OBVIOUS
    <3>1. v \div LowUnit \in Nat /\ pred[v] = v \div LowUnit /\ (v \in Small <=> v <= MaxU32)
      BY UnitFacts
    <3> HIDE DEF pred, step, S, Small
    <3>2. /\ f[v \div LowUnit] \in S
          /\ f[v] = IF v \in Small THEN PutU32[v] ELSE step[<<v, f[v \div LowUnit]>>]
      BY <1>5, <3>1 DEF Solves
    <3> QED
      BY <1>3, <3>1, <3>2
  <2>2. f \in [Nat -> S]
    <3> HIDE DEF S
    <3> QED
      BY <1>5 DEF Solves
  <2> HIDE DEF S
  <2> QED
    BY <2>1, <2>2
<1>7. PutU64 = [v \in Nat |->
             IF v <= MaxU32 THEN PutU32[v] ELSE PutU64[v \div LowUnit] \o LowPart(v % LowUnit)]
  BY <1>6 DEF PutU64
<1> QED
  BY <1>7

\* put_u64 writes the number, across the border of 32 bits.
LEMMA PutU64Writes == \A v \in Nat : Written(PutU64[v], v)
<1> DEFINE Good == {v \in Nat : Written(PutU64[v], v)}
<1>1. ASSUME NEW v \in Nat, \A w \in Nat : w < v => w \in Good PROVE v \in Good
  <2>1. CASE v <= MaxU32
    BY <2>1, PutU64Defined, PutU32Writes
  <2>2. CASE ~ (v <= MaxU32)
    <3> DEFINE q == v \div LowUnit
               lo == v % LowUnit
               s == PutU64[q]
               t == LowPart(lo)
    <3>1. q \in Nat /\ q < v /\ q > 0 /\ lo \in Nat /\ lo < LowUnit /\ v = LowUnit * q + lo
      BY <2>2, UnitFacts, Division
    <3>2. PutU64[v] = s \o t
      BY <2>2, PutU64Defined
    <3>3. Written(s, q)
      BY <1>1, <3>1
    <3> HIDE DEF s, q, lo
    <3>4. s \in Seq(Nat) /\ Len(s) > 0 /\ Value(s, Base) = q /\ s[1] > 0
      BY <3>1, <3>3 DEF Written
    <3>5. t \in Seq(Nat) /\ Len(t) = LowDigits /\ Value(t, Base) = lo
      BY <3>1, LowPartWrites
    <3> HIDE DEF t
    <3>6. Value(s \o t, Base) = q * LowUnit + lo
      BY <3>4, <3>5, UnitFacts, ValueOfParts DEF LowUnit
    <3>7. q * LowUnit + lo = v
      BY <3>1, UnitFacts
    <3> DEFINE a == s \o t
    <3>8. a \in Seq(Nat) /\ Len(a) > 0 /\ a[1] = s[1]
      BY <3>4, <3>5, UnitFacts
    <3> HIDE DEF a
    <3>9. PutU64[v] = a /\ Value(a, Base) = v
      BY <3>2, <3>6, <3>7 DEF a
    <3> QED
      BY <3>4, <3>8, <3>9 DEF Written
  <2> QED
    BY <2>1, <2>2
<1>2. \A v \in Nat : v \in Good
  <2> HIDE DEF Good
  <2> QED
    BY <1>1, CompleteInduction
<1> QED
  BY <1>2

\* HexDigits is what its equation says.
LEMMA HexDigitsDefined ==
  \A v \in Nat : HexDigits[v] = IF v < HexBase THEN 1 ELSE 1 + HexDigits[v \div HexBase]
<1> DEFINE Small == {v \in Nat : v < HexBase}
           pred == [v \in Nat |-> v \div HexBase]
           base == [v \in Nat |-> 1]
           step == [p \in Nat \X Nat |-> 1 + p[2]]
<1>1. PICK f : Solves(f, Nat, Nat, Small, pred, base, step)
  <2>1. Recursive(Nat, Nat, Small, pred, base, step)
    BY UnitFacts, Division DEF Recursive
  <2> HIDE DEF Small, pred, base, step
  <2> QED
    BY <2>1, Recursion
<1>2. f = [v \in Nat |-> IF v < HexBase THEN 1 ELSE 1 + f[v \div HexBase]]
  <2>1. \A v \in Nat : f[v] = IF v < HexBase THEN 1 ELSE 1 + f[v \div HexBase]
    <3> SUFFICES ASSUME NEW v \in Nat PROVE f[v] = IF v < HexBase THEN 1 ELSE 1 + f[v \div HexBase]
      OBVIOUS
    <3>1. v \div HexBase \in Nat /\ pred[v] = v \div HexBase /\ (v \in Small <=> v < HexBase)
          /\ base[v] = 1
      BY UnitFacts
    <3>2. \A n \in Nat, x \in Nat : step[<<n, x>>] = 1 + x
      OBVIOUS
    <3> HIDE DEF pred, step, base, Small
    <3>3. /\ f[v \div HexBase] \in Nat
          /\ f[v] = IF v \in Small THEN 1 ELSE step[<<v, f[v \div HexBase]>>]
      BY <1>1, <3>1 DEF Solves
    <3> QED
      BY <3>1, <3>2, <3>3
  <2> QED
    BY <1>1, <2>1 DEF Solves
<1>3. HexDigits = [v \in Nat |-> IF v < HexBase THEN 1 ELSE 1 + HexDigits[v \div HexBase]]
  BY <1>2 DEF HexDigits
<1> QED
  BY <1>3

\* As many digits as it takes: nothing is left after the last, and the first is not zero
\* where there are two or more.
LEMMA HexDigitsCount ==
  \A v \in Nat : /\ HexDigits[v] \in Nat \ {0}
                 /\ Rest(HexBase, v)[HexDigits[v]] = 0
                 /\ v > 0 => Rest(HexBase, v)[HexDigits[v] - 1] \in 1..HexBase - 1
                 /\ v = 0 => HexDigits[v] = 1
<1> DEFINE Counted(v) == /\ HexDigits[v] \in Nat \ {0}
                         /\ Rest(HexBase, v)[HexDigits[v]] = 0
                         /\ v > 0 => Rest(HexBase, v)[HexDigits[v] - 1] \in 1..HexBase - 1
                         /\ v = 0 => HexDigits[v] = 1
           Good == {v \in Nat : Counted(v)}
<1>1. ASSUME NEW v \in Nat, \A w \in Nat : w < v => w \in Good PROVE v \in Good
  <2>1. CASE v < HexBase
    <3>1. HexDigits[v] = 1
      BY <2>1, HexDigitsDefined
    <3>2. Rest(HexBase, v)[0] = v /\ Rest(HexBase, v)[0 + 1] = Rest(HexBase, v)[0] \div HexBase
      BY UnitFacts, RestDefined
    <3>3. v \div HexBase = 0
      BY <2>1, UnitFacts, Division
    <3>4. Rest(HexBase, v)[1] = 0 /\ 1 - 1 = 0
      BY <3>2, <3>3
    <3> QED
      BY <2>1, <3>1, <3>2, <3>4, UnitFacts
  <2>2. CASE ~ (v < HexBase)
    <3> DEFINE q == v \div HexBase
               d == HexDigits[q]
    <3>1. q \in Nat /\ q < v /\ q > 0
      BY <2>2, UnitFacts, Division
    <3>2. HexDigits[v] = 1 + d
      BY <2>2, HexDigitsDefined
    <3>3. Counted(q)
      BY <1>1, <3>1
    <3>4. d \in Nat \ {0} /\ d - 1 \in Nat /\ (d - 1) + 1 = d /\ 1 + d = d + 1
      BY <3>3
    <3>5. \A n \in Nat : Rest(HexBase, v)[n + 1] = Rest(HexBase, q)[n]
      BY UnitFacts, RestShift
    <3>6. Rest(HexBase, v)[d + 1] = 0
      BY <3>3, <3>4, <3>5
    <3>7. Rest(HexBase, v)[d] = Rest(HexBase, q)[d - 1]
      BY <3>4, <3>5
    <3>8. Rest(HexBase, q)[d - 1] \in 1..HexBase - 1
      BY <3>1, <3>3
    <3> HIDE DEF q, d
    <3>9. HexDigits[v] = d + 1 /\ HexDigits[v] - 1 = d /\ d + 1 \in Nat \ {0}
      BY <3>2, <3>4
    <3> QED
      BY <3>1, <3>6, <3>7, <3>8, <3>9
  <2> QED
    BY <2>1, <2>2
<1>2. \A v \in Nat : v \in Good
  <2> HIDE DEF Good
  <2> QED
    BY <1>1, CompleteInduction
<1> QED
  BY <1>2

\* put_hex writes the number, with no more digits than needed or asked for.
LEMMA PutHexWrites ==
  ASSUME NEW v \in Nat, NEW min \in Nat \ {0}
  PROVE  /\ PutHex(v, min) \in Seq(Nat) /\ Value(PutHex(v, min), HexBase) = v
         /\ Len(PutHex(v, min)) >= min
         /\ Len(PutHex(v, min)) > min => PutHex(v, min)[1] > 0
<1> DEFINE d == HexDigits[v]
           n == IF d < min THEN min ELSE d
           hex == LastDigits(HexBase, n, v)
<1>1. PutHex(v, min) = hex
  BY DEF PutHex
<1>2. d \in Nat \ {0} /\ Rest(HexBase, v)[d] = 0
  BY HexDigitsCount
<1>3. n \in Nat \ {0} /\ n >= d /\ n >= min
  BY <1>2
<1>4. Rest(HexBase, v)[n] = 0
  <2> HIDE DEF d, n
  <2> QED
    BY <1>2, <1>3, UnitFacts, RestStaysGone
<1>5. hex \in Seq(Nat) /\ Len(hex) = n /\ Value(hex, HexBase) = v
  <2> HIDE DEF n
  <2> QED
    BY <1>3, <1>4, UnitFacts, LastDigitsValue
<1>6. ASSUME n > min PROVE hex[1] > 0
  <2>1. n = d /\ d > 1 /\ v > 0
    BY <1>2, <1>6, HexDigitsCount
  <2> DEFINE r == Rest(HexBase, v)[d - 1]
  <2>2. r \in 1..HexBase - 1
    BY <2>1, HexDigitsCount
  <2>3. hex[1] = r % HexBase
    <3>1. 1 \in 1..n
      BY <1>3
    <3> HIDE DEF d, n
    <3> QED
      BY <2>1, <3>1 DEF LastDigits
  <2> HIDE DEF r, hex
  <2>4. r % HexBase = r
    BY <2>2, UnitFacts, Division
  <2> QED
    BY <2>2, <2>3, <2>4, UnitFacts
<1> HIDE DEF n, hex
<1> QED
  BY <1>1, <1>3, <1>5, <1>6

-----------------------------------------------------------------------------
(* Words. *)

\* A quotient is the only number with a rest below the divisor.
LEMMA QuotientUnique ==
  ASSUME NEW k \in Nat \ {0}, NEW p \in Int, NEW r \in 0..k - 1
  PROVE  (k * p + r) \div k = p /\ (k * p + r) % k = r
OBVIOUS

\* Division of a number with a sign.
LEMMA DivisionInt ==
  ASSUME NEW k \in Nat \ {0}, NEW x \in Int
  PROVE  /\ x \div k \in Int /\ x % k \in 0..k - 1
         /\ x = k * (x \div k) + (x % k)
OBVIOUS

\* Shifting by two bytes at once is shifting by one byte twice.
LEMMA NestedQuotient ==
  ASSUME NEW m \in Nat \ {0}, NEW n \in Nat \ {0}, NEW x \in Int
  PROVE  x \div (m * n) = (x \div m) \div n
<1> DEFINE q == x \div m
           r == x % m
           p == q \div n
           s == q % n
           k == m * n
           t == m * s + r
<1>1. q \in Int /\ r \in 0..m - 1 /\ x = m * q + r
  BY DivisionInt
<1>2. p \in Int /\ s \in 0..n - 1 /\ q = n * p + s
  <2> HIDE DEF q
  <2> QED
    BY <1>1, DivisionInt
<1> HIDE DEF q, r, p, s
<1>3. k \in Nat \ {0}
  OBVIOUS
<1>4. m * s <= m * (n - 1)
  BY <1>2
<1>5. m * (n - 1) = k - m
  OBVIOUS
<1>6. m * s \in Nat
  BY <1>2
<1>7. t \in 0..k - 1
  <2> HIDE DEF k
  <2> DEFINE ms == m * s
             mn == m * (n - 1)
  <2>1. ms \in Nat /\ ms <= mn /\ mn = k - m /\ k \in Nat /\ r \in 0..m - 1
    BY <1>1, <1>3, <1>4, <1>5, <1>6
  <2>2. t = ms + r
    OBVIOUS
  <2> HIDE DEF ms, mn, t
  <2> QED
    BY <2>1, <2>2
<1>8. m * (n * p + s) + r = k * p + t
  BY <1>1, <1>2
<1>9. x = k * p + t
  BY <1>1, <1>2, <1>8
<1> HIDE DEF k, t
<1>10. x \div k = p
  BY <1>2, <1>3, <1>7, <1>9, QuotientUnique
<1> QED
  BY <1>10 DEF k, p, q

\* A word is even: its signed values are those from -h to h - 1.
LEMMA WordFacts ==
  /\ ByteBase \in Nat \ {0}
  /\ \E h \in Nat \ {0} : Word = 2 * h /\ Word \div 2 = h /\ Int32 = -h..h - 1
<1> DEFINE g == ByteBase \div 2
           C == ByteBase * ByteBase * ByteBase
           h == g * C
<1>1. ByteBase \in Nat \ {0} /\ ByteBase = 2 * g /\ g \in Nat \ {0}
  BY Widths
<1>2. ByteBase * ByteBase \in Nat \ {0}
  BY <1>1
<1>3. C \in Nat \ {0}
  BY <1>1, <1>2
<1>4. h \in Nat \ {0}
  <2> HIDE DEF g, C
  <2> QED
    BY <1>1, <1>3
<1>5. Word = C * ByteBase
  BY DEF Word
<1>6. C * ByteBase = 2 * h
  <2> HIDE DEF C, g
  <2>1. C * (2 * g) = 2 * (g * C)
    BY <1>1, <1>3
  <2> QED
    BY <1>1, <2>1
<1> HIDE DEF h
<1>7. Word = 2 * h /\ Word \div 2 = h
  BY <1>4, <1>5, <1>6
<1> QED
  BY <1>1, <1>4, <1>7 DEF Int32

\* Four bytes make a word again.
LEMMA WordReadBack == ASSUME NEW v \in Int32 PROVE IsaInt32(PutIsa(v)) = v
<1> DEFINE B == ByteBase
           q1 == v \div B
           q2 == q1 \div B
           q3 == q2 \div B
           q4 == q3 \div B
           d1 == v % B
           d2 == q1 % B
           d3 == q2 % B
           d4 == q3 % B
           X == ((d4 * B + d3) * B + d2) * B + d1
<1>0. PICK h \in Nat \ {0} : Word = 2 * h /\ Word \div 2 = h /\ Int32 = -h..h - 1
  BY WordFacts
<1>1. v \in Int /\ -h <= v /\ v < h /\ B \in Nat \ {0}
  BY <1>0, WordFacts
<1>2. /\ v = B * q1 + d1 /\ d1 \in 0..B - 1 /\ q1 \in Int
  BY <1>1, DivisionInt
<1>3. /\ q1 = B * q2 + d2 /\ d2 \in 0..B - 1 /\ q2 \in Int
  <2> HIDE DEF q1, B
  <2> QED BY <1>1, <1>2, DivisionInt
<1>4. /\ q2 = B * q3 + d3 /\ d3 \in 0..B - 1 /\ q3 \in Int
  <2> HIDE DEF q2, B
  <2> QED BY <1>1, <1>3, DivisionInt
<1>5. /\ q3 = B * q4 + d4 /\ d4 \in 0..B - 1 /\ q4 \in Int
  <2> HIDE DEF q3, B
  <2> QED BY <1>1, <1>4, DivisionInt
<1>6. PutIsa(v) = <<d1, d2, d3, d4>>
  <2>1. v \div (B * B) = q2
    BY <1>1, NestedQuotient
  <2>2. v \div (B * B * B) = q3
    <3>1. B * B \in Nat \ {0}
      BY <1>1
    <3>2. v \div ((B * B) * B) = (v \div (B * B)) \div B
      <4> DEFINE BB == B * B
      <4> HIDE DEF BB
      <4>1. v \div (BB * B) = (v \div BB) \div B
        BY <1>1, <3>1, NestedQuotient DEF BB
      <4> QED
        BY <4>1 DEF BB
    <3> QED
      BY <2>1, <3>2
  <2> QED
    BY <2>1, <2>2 DEF PutIsa
<1>7. IsaInt32(PutIsa(v)) = Signed(X)
  <2> HIDE DEF d1, d2, d3, d4
  <2> QED
    BY <1>6 DEF IsaInt32
<1> HIDE DEF B, q1, q2, q3, q4, d1, d2, d3, d4
\* The bytes from the top, and what they leave of a word.
<1> DEFINE x3 == d4 * B + d3
           x2 == x3 * B + d2
           w2 == B * B
           w3 == w2 * B
           w4 == w3 * B
<1>8. d4 \in Int /\ d3 \in Int /\ d2 \in Int /\ d1 \in Int
  BY <1>1, <1>2, <1>3, <1>4, <1>5
<1>9. \A w \in Nat, x \in Nat, d \in 0..B - 1 :
        x < w => x * B + d \in Nat /\ x * B + d < w * B
  <2> SUFFICES ASSUME NEW w \in Nat, NEW x \in Nat, NEW d \in 0..B - 1, x < w
               PROVE  x * B + d \in Nat /\ x * B + d < w * B
    OBVIOUS
  <2>1. x + 1 <= w
    OBVIOUS
  <2>2. (x + 1) * B <= w * B
    BY <1>1, <2>1
  <2>3. (x + 1) * B = x * B + B
    BY <1>1
  <2>4. x * B \in Nat /\ w * B \in Nat
    BY <1>1
  <2> DEFINE y == x * B
             z == w * B
  <2>5. y \in Nat /\ z \in Nat /\ y + B <= z /\ d \in 0..B - 1 /\ B \in Nat
    BY <1>1, <2>2, <2>3, <2>4
  <2> HIDE DEF y, z
  <2>6. y + d \in Nat /\ y + d < z
    BY <2>5
  <2> QED
    BY <2>6 DEF y, z
<1>10. w2 \in Nat /\ w3 \in Nat /\ w4 \in Nat
  <2>1. w2 \in Nat
    BY <1>1
  <2> HIDE DEF w2
  <2>2. w3 \in Nat
    BY <1>1, <2>1
  <2> HIDE DEF w3
  <2>3. w4 \in Nat
    BY <1>1, <2>2
  <2> QED
    BY <2>1, <2>2, <2>3 DEF w3
<1>11. x3 \in Nat /\ x3 < w2
  BY <1>1, <1>4, <1>5, <1>9
<1>12. x2 \in Nat /\ x2 < w3
  <2> HIDE DEF x3, w2
  <2> QED
    BY <1>3, <1>9, <1>10, <1>11
<1>13. X \in Nat /\ X < w4
  <2> HIDE DEF x2, w3
  <2>1. x2 * B + d1 \in Nat /\ x2 * B + d1 < w3 * B
    BY <1>2, <1>9, <1>10, <1>12
  <2> QED
    BY <2>1 DEF x2
<1>14. v = w4 * q4 + X
  <2>1. q2 = B * (B * q4 + d4) + d3
    BY <1>4, <1>5
  <2>2. B * (B * q4 + d4) + d3 = w2 * q4 + x3
    BY <1>1, <1>5, <1>8
  <2>3. q2 = w2 * q4 + x3
    BY <2>1, <2>2
  <2>4. B * (w2 * q4 + x3) + d2 = w3 * q4 + x2
    <3> HIDE DEF w2, x3
    <3> QED
      BY <1>1, <1>5, <1>8, <1>10, <1>11
  <2>5. q1 = w3 * q4 + x2
    BY <1>3, <2>3, <2>4
  <2>6. B * (w3 * q4 + x2) + d1 = w4 * q4 + (x2 * B + d1)
    <3> HIDE DEF w3, x2
    <3> QED
      BY <1>1, <1>5, <1>8, <1>10, <1>12
  <2>7. v = B * q1 + d1
    BY <1>2
  <2>8. v = w4 * q4 + (x2 * B + d1)
    <3> HIDE DEF w4, w3, x2
    <3> QED
      BY <2>5, <2>6, <2>7
  <2> HIDE DEF w4
  <2> QED
    BY <2>8
<1>15. w4 = 2 * h
  BY <1>0 DEF Word, B
<1> HIDE DEF w4, X
<1>16. \/ q4 = 0 /\ X = v
       \/ q4 = -1 /\ X = v + 2 * h
  <2>1. w4 * q4 = v - X
    BY <1>1, <1>5, <1>10, <1>13, <1>14
  <2>2. -(3 * h) < w4 * q4 /\ w4 * q4 < h
    BY <1>0, <1>1, <1>13, <1>15, <2>1
  <2>3. q4 < 1
    <3> SUFFICES ASSUME q4 >= 1 PROVE FALSE
      BY <1>5
    <3>1. w4 * q4 >= w4 * 1
      BY <1>5, <1>10
    <3> QED
      BY <1>0, <1>5, <1>10, <1>15, <2>2, <3>1
  <2>4. q4 > -2
    <3> SUFFICES ASSUME q4 <= -2 PROVE FALSE
      BY <1>5
    <3>1. w4 * q4 <= w4 * (-2)
      BY <1>5, <1>10
    <3>2. w4 * (-2) = -(4 * h)
      BY <1>0, <1>15
    <3> QED
      BY <1>0, <1>5, <1>10, <2>2, <3>1, <3>2
  <2>5. q4 = 0 \/ q4 = -1
    BY <1>5, <2>3, <2>4
  <2>6. CASE q4 = 0
    BY <1>1, <1>10, <1>13, <1>14, <2>6
  <2>7. CASE q4 = -1
    BY <1>0, <1>1, <1>10, <1>13, <1>14, <1>15, <2>7
  <2> QED
    BY <2>5, <2>6, <2>7
<1>17. Signed(X) = v
  BY <1>0, <1>1, <1>13, <1>15, <1>16 DEF Signed
<1> QED
  BY <1>7, <1>17

\* The current, by the division of C.
LEMMA CurrentIsQuotient ==
  ASSUME NEW v \in Int32, NEW ma, (-v) * CurrentScale \in Int32, ma \in PackCurrent(PutIsa(v))
  PROVE  LET rest == (-v) * CurrentScale - ma * Divisor
         IN -Divisor < rest /\ rest < Divisor /\ rest * v <= 0
<1> DEFINE product == (-v) * CurrentScale
           D == Divisor
           S == CurrentScale
<1>0. PICK h \in Nat \ {0} : Word = 2 * h /\ Word \div 2 = h /\ Int32 = -h..h - 1
  BY WordFacts
<1>1. v \in Int /\ -h <= v /\ v < h /\ S \in Nat \ {0} /\ D \in Nat \ {0}
  BY <1>0, Widths
<1>2. product \in Int32 /\ product \in Int /\ product < h
  BY <1>0, <1>1
<1>3. -v \in Int32
  <2>1. CASE v = -h
    <3>1. product = h * S
      BY <1>0, <1>1, <2>1
    <3>2. h * S >= h * 1
      BY <1>0, <1>1
    <3> HIDE DEF product
    <3> QED
      BY <1>0, <1>1, <1>2, <3>1, <3>2
  <2> QED
    BY <1>0, <1>1, <2>1
<1>4. ma = Quotient(product, D)
  <2>1. IsaInt32(PutIsa(v)) = v
    BY WordReadBack
  <2> HIDE DEF product
  <2> QED
    BY <1>2, <1>3, <2>1 DEF PackCurrent, product
<1>5. v < 0 => product >= 0
  <2> SUFFICES ASSUME v < 0 PROVE product >= 0
    OBVIOUS
  <2>1. -v \in Nat
    BY <1>1
  <2> DEFINE u == -v
  <2> HIDE DEF u
  <2>2. u * S \in Nat
    BY <1>1, <2>1 DEF u
  <2> QED
    BY <2>2 DEF u
<1>6. v >= 0 => product <= 0
  <2> SUFFICES ASSUME v >= 0 PROVE product <= 0
    OBVIOUS
  <2>1. v * S \in Nat
    BY <1>1
  <2>2. product = -(v * S)
    BY <1>1
  <2> QED
    BY <2>1, <2>2
<1> HIDE DEF product, D, S
<1> DEFINE rest == product - ma * D
<1>7. CASE product >= 0
  <2>1. ma = product \div D
    BY <1>4, <1>7 DEF Quotient
  <2> DEFINE q == product \div D
             r == product % D
  <2>2. q \in Int /\ r \in 0..D - 1 /\ product = D * q + r
    BY <1>1, <1>2, DivisionInt
  <2>3. rest = r
    <3> HIDE DEF q, r
    <3> QED
      BY <1>1, <2>1, <2>2 DEF q
  <2>4. v <= 0
    <3> SUFFICES ASSUME v > 0 PROVE FALSE
      BY <1>1
    <3>1. product = 0 
      BY <1>1, <1>2, <1>6, <1>7
    <3>2. v * S >= 1 * S 
      BY <1>1
    <3> QED
      BY <1>1, <3>1, <3>2 DEF product, S
  <2>5. r * v <= 0
    <3> HIDE DEF r
    <3> DEFINE u == -v
    <3>1. u \in Nat /\ r \in Nat
      BY <1>1, <2>2, <2>4
    <3>2. r * u \in Nat
      BY <3>1
    <3>3. r * v = -(r * u)
      BY <1>1, <3>1
    <3> QED
      BY <3>2, <3>3
  <2> HIDE DEF rest, r
  <2> QED
    BY <1>1, <2>2, <2>3, <2>5 DEF rest, product, D, S
<1>8. CASE product < 0
  <2> DEFINE n == -product
             q == n \div D
             r == n % D
  <2>1. ma = -q
    BY <1>2, <1>4, <1>8 DEF Quotient
  <2>2. q \in Int /\ r \in 0..D - 1 /\ n = D * q + r
    BY <1>1, <1>2, DivisionInt
  <2>3. rest = -r
    <3> HIDE DEF q, r
    <3> QED
      BY <1>1, <1>2, <2>1, <2>2
  <2>4. v >= 0
    BY <1>1, <1>2, <1>5, <1>8
  <2>5. (-r) * v <= 0
    <3> HIDE DEF r
    <3>1. v \in Nat /\ r \in Nat
      BY <1>1, <2>2, <2>4
    <3>2. r * v \in Nat
      BY <3>1
    <3>3. (-r) * v = -(r * v)
      BY <1>1, <3>1
    <3> QED
      BY <3>2, <3>3
  <2> HIDE DEF rest, r
  <2> QED
    BY <1>1, <2>2, <2>3, <2>5 DEF rest, product, D, S
<1> QED
  BY <1>2, <1>7, <1>8

\* Rounding: to the nearest, and the same for both signs.
LEMMA SpeedIsNearest ==
  ASSUME NEW v \in Int
  PROVE  /\ LET off == v - 10 * MphRound(v) IN -5 <= off /\ off <= 5
         /\ MphRound(-v) = -MphRound(v)
BY DEF MphRound

\* The three, of one word.
LEMMA WordsAreExact == ASSUME input \in Inputs PROVE DecodedExactly
<1> SUFFICES ASSUME input.kind = "word" PROVE DecodedExactly
  BY DEF DecodedExactly
<1>1. input.v \in Int32
  BY DEF Inputs
<1>2. input.v \in Int
  BY <1>1, WordFacts
<1> QED
  BY <1>1, <1>2, WordReadBack, CurrentIsQuotient, SpeedIsNearest DEF DecodedExactly

\* The digits of one number.
LEMMA RowsAreExact == ASSUME input \in Inputs PROVE RowsReadBack
<1> SUFFICES ASSUME input.kind = "digits" PROVE RowsReadBack
  BY DEF RowsReadBack
<1> DEFINE v == input.v
           min == input.min
           hex == PutHex(v, min)
           decimal == PutU64[v]
<1>1. v \in Nat /\ min \in Nat \ {0}
  BY Widths DEF Inputs
<1>2. Written(decimal, v)
  BY <1>1, PutU64Writes
<1>3. v <= MaxU32 => Len(PutU32[v]) <= LowDigits + 1
  <2> SUFFICES ASSUME v <= MaxU32 PROVE Len(PutU32[v]) <= LowDigits + 1
    OBVIOUS
  <2>1. v < Power(Base)[LowDigits + 1]
    <3> DEFINE p == Power(Base)[LowDigits + 1]
    <3>1. MaxU32 \in Nat /\ MaxU32 < p /\ p \in Nat
      BY Widths, PowerType
    <3> HIDE DEF p
    <3> QED
      BY <1>1, <3>1 DEF p
  <2> QED
    BY <1>1, <2>1, PutU32Length, Widths
<1>4. /\ hex \in Seq(Nat) /\ Value(hex, HexBase) = v /\ Len(hex) >= min
      /\ Len(hex) > min => hex[1] > 0
  <2> HIDE DEF v, min
  <2> QED
    BY <1>1, PutHexWrites
<1>5. Value(decimal, Base) = v /\ (v > 0 => decimal[1] > 0)
  <2> HIDE DEF decimal, v
  <2> QED
    BY <1>2 DEF Written
<1> HIDE DEF hex, decimal
<1> QED
  BY <1>3, <1>4, <1>5 DEF RowsReadBack, hex, decimal

-----------------------------------------------------------------------------
(* The bounded list. *)

\* No number twice, the lowest first.
Ascending(s) == \A i, j \in 1..Len(s) : i < j => s[i] < s[j]

\* The numbers not above sid are the first ones, as many as they are.
LEMMA Place ==
  ASSUME NEW ids \in Seq(Nat), NEW sid \in Nat, Ascending(ids)
  PROVE  LET pos == Cardinality({i \in 1..Len(ids) : ids[i] <= sid})
         IN /\ pos \in 0..Len(ids)
            /\ \A i \in 1..Len(ids) : ids[i] <= sid <=> i <= pos
<1> DEFINE n == Len(ids)
           Above == {i \in 1..n : ids[i] > sid}
           Below == {i \in 1..n : ids[i] <= sid}
<1>1. n \in Nat /\ \A i \in 1..n : ids[i] \in Nat
  OBVIOUS
<1>2. \E p \in 0..n : \A i \in 1..n : ids[i] <= sid <=> i <= p
  <2>1. CASE Above = {}
    <3>1. \A i \in 1..n : ids[i] <= sid /\ i <= n
      BY <1>1, <2>1
    <3>2. n \in 0..n
      BY <1>1
    <3> HIDE DEF n
    <3> QED
      BY <3>1, <3>2
  <2>2. CASE Above # {}
    <3>1. PICK m \in Above : \A j \in Above : m <= j
      <4>1. Above \subseteq Nat
        BY <1>1
      <4> HIDE DEF Above
      <4> QED
        BY <2>2, <4>1, Least
    <3>2. m \in 1..n /\ ids[m] > sid /\ m - 1 \in 0..n
      BY <1>1, <3>1
    <3>3. \A i \in 1..n : i < m => ids[i] <= sid
      BY <1>1, <3>1
    <3>4. \A i \in 1..n : i > m => ids[i] > sid
      BY <1>1, <3>2 DEF Ascending
    <3>5. \A i \in 1..n : ids[i] <= sid <=> i <= m - 1
      <4> SUFFICES ASSUME NEW i \in 1..n PROVE ids[i] <= sid <=> i <= m - 1
        OBVIOUS
      <4>1. ids[i] \in Nat /\ i \in Nat /\ m \in Nat
        BY <1>1, <3>2
      <4>2. CASE i < m
        BY <3>3, <4>1, <4>2
      <4>3. CASE i > m
        BY <3>4, <4>1, <4>3
      <4>4. CASE i = m
        BY <3>2, <4>1, <4>4
      <4> QED
        BY <4>1, <4>2, <4>3, <4>4
    <3> QED
      BY <3>2, <3>5
  <2> QED
    BY <2>1, <2>2
<1>3. PICK p \in 0..n : \A i \in 1..n : ids[i] <= sid <=> i <= p
  BY <1>2
<1>4. Below = 1..p
  BY <1>1, <1>3
<1>5. Cardinality(1..p) = p
  BY <1>1, <1>3, FS_Interval
<1> QED
  BY <1>3, <1>4, <1>5

\* A number put into its place.
LEMMA Inserted ==
  ASSUME NEW ids \in Seq(Nat), NEW sid \in Nat, NEW pos \in 0..Len(ids)
  PROVE  LET longer == SubSeq(ids, 1, pos) \o <<sid>> \o SubSeq(ids, pos + 1, Len(ids))
         IN /\ longer \in Seq(Nat) /\ Len(longer) = Len(ids) + 1
            /\ \A i \in 1..Len(ids) + 1 :
                 longer[i] = IF i <= pos THEN ids[i] ELSE IF i = pos + 1 THEN sid ELSE ids[i - 1]
<1> DEFINE n == Len(ids)
           a == SubSeq(ids, 1, pos)
           b == <<sid>>
           c == SubSeq(ids, pos + 1, n)
<1>1. n \in Nat /\ pos \in 0..n
  OBVIOUS
<1>2. a \in Seq(Nat) /\ Len(a) = pos /\ \A i \in 1..pos : a[i] = ids[i]
  BY <1>1
<1>3. c \in Seq(Nat) /\ Len(c) = n - pos /\ \A i \in 1..n - pos : c[i] = ids[pos + i]
  BY <1>1
<1>4. b \in Seq(Nat) /\ Len(b) = 1 /\ b[1] = sid
  OBVIOUS
<1> HIDE DEF a, b, c
<1> DEFINE ab == a \o b
<1>5. ab \in Seq(Nat) /\ Len(ab) = pos + 1
      /\ \A i \in 1..pos + 1 : ab[i] = IF i <= pos THEN ids[i] ELSE sid
  <2>0. /\ ab \in Seq(Nat) /\ Len(ab) = Len(a) + Len(b)
        /\ \A i \in 1..Len(a) + Len(b) : ab[i] = IF i <= Len(a) THEN a[i] ELSE b[i - Len(a)]
    <3>1. a \in Seq(Nat) /\ b \in Seq(Nat)
      BY <1>2, <1>4
    <3> QED
      BY <3>1, ConcatProperties
  <2> HIDE DEF ab
  <2>1. ab \in Seq(Nat) /\ Len(ab) = pos + 1
    BY <1>2, <1>4, <2>0
  <2>2. \A i \in 1..pos + 1 : ab[i] = IF i <= pos THEN a[i] ELSE b[i - pos]
    BY <1>2, <1>4, <2>0
  <2>3. \A i \in 1..pos + 1 : i <= pos \/ i - pos = 1
    BY <1>1
  <2> QED
    BY <1>1, <1>2, <1>4, <2>1, <2>2, <2>3
<1> HIDE DEF ab
<1> DEFINE abc == ab \o c
<1>6. abc \in Seq(Nat) /\ Len(abc) = n + 1
  BY <1>1, <1>3, <1>5
<1>7. \A i \in 1..n + 1 : abc[i] = IF i <= pos + 1 THEN ab[i] ELSE c[i - (pos + 1)]
  BY <1>1, <1>3, <1>5
<1> HIDE DEF abc
<1>8. \A i \in 1..n + 1 :
        abc[i] = IF i <= pos THEN ids[i] ELSE IF i = pos + 1 THEN sid ELSE ids[i - 1]
  <2> SUFFICES ASSUME NEW i \in 1..n + 1
               PROVE  abc[i] = IF i <= pos THEN ids[i] ELSE IF i = pos + 1 THEN sid ELSE ids[i - 1]
    OBVIOUS
  <2>1. CASE i <= pos + 1
    BY <1>1, <1>5, <1>7, <2>1
  <2>2. CASE i > pos + 1
    <3>1. i - (pos + 1) \in 1..n - pos /\ pos + (i - (pos + 1)) = i - 1
      BY <1>1, <2>2
    <3>2. abc[i] = c[i - (pos + 1)]
      BY <1>1, <1>7, <2>2
    <3>3. c[i - (pos + 1)] = ids[i - 1]
      BY <1>3, <3>1
    <3> QED
      BY <1>1, <2>2, <3>2, <3>3
  <2> QED
    BY <1>1, <2>1, <2>2
<1> QED
  BY <1>6, <1>8 DEF abc, ab, a, b, c

\* What Keep returns, by its places.
LEMMA KeepDefined ==
  ASSUME NEW ids \in Seq(Nat), NEW sid \in Nat, Ascending(ids), Len(ids) <= ListMax
  PROVE  \E pos \in 0..Len(ids) :
           /\ \A i \in 1..Len(ids) : ids[i] <= sid <=> i <= pos
           /\ \/ pos = ListMax /\ Keep(ids, sid) = ids
              \/ /\ pos < ListMax /\ Keep(ids, sid) \in Seq(Nat)
                 /\ Len(Keep(ids, sid)) = IF Len(ids) = ListMax THEN ListMax ELSE Len(ids) + 1
                 /\ \A i \in 1..Len(Keep(ids, sid)) : Keep(ids, sid)[i] =
                      IF i <= pos THEN ids[i] ELSE IF i = pos + 1 THEN sid ELSE ids[i - 1]
<1> DEFINE n == Len(ids)
           pos == Cardinality({i \in 1..Len(ids) : ids[i] <= sid})
           longer == SubSeq(ids, 1, pos) \o <<sid>> \o SubSeq(ids, pos + 1, Len(ids))
           kept == Keep(ids, sid)
<1>0. n \in Nat /\ ListMax \in Nat \ {0} /\ n <= ListMax
  BY ListBounds
<1>1. pos \in 0..Len(ids) /\ \A i \in 1..Len(ids) : ids[i] <= sid <=> i <= pos
  BY Place
<1>2. kept = IF pos >= ListMax THEN ids
             ELSE IF Len(longer) > ListMax THEN SubSeq(longer, 1, ListMax) ELSE longer
  BY DEF Keep
<1> HIDE DEF pos
<1>3. /\ longer \in Seq(Nat) /\ Len(longer) = n + 1
      /\ \A i \in 1..n + 1 :
           longer[i] = IF i <= pos THEN ids[i] ELSE IF i = pos + 1 THEN sid ELSE ids[i - 1]
  BY <1>1, Inserted
<1> HIDE DEF longer, kept
<1>4. CASE pos >= ListMax
  <2>1. pos = ListMax /\ kept = ids
    BY <1>0, <1>1, <1>2, <1>4
  <2> QED
    BY <1>1, <2>1 DEF kept
<1>5. CASE ~ (pos >= ListMax)
  <2>1. pos < ListMax
    BY <1>0, <1>1, <1>5
  <2>2. CASE n = ListMax
    <3>1. kept = SubSeq(longer, 1, ListMax)
      BY <1>0, <1>2, <1>3, <1>5, <2>2
    <3>2. kept \in Seq(Nat) /\ Len(kept) = ListMax /\ \A i \in 1..ListMax : kept[i] = longer[i]
      BY <1>0, <1>3, <2>2, <3>1
    <3>3. \A i \in 1..ListMax : i \in 1..n + 1
      BY <1>0, <2>2
    <3> HIDE DEF n
    <3>4. \A i \in 1..Len(kept) : kept[i] = IF i <= pos THEN ids[i] ELSE IF i = pos + 1 THEN sid ELSE ids[i - 1]
      BY <1>3, <3>2, <3>3
    <3> QED
      BY <1>1, <2>1, <2>2, <3>2, <3>4 DEF kept, n
  <2>3. CASE n # ListMax
    <3>1. kept = longer
      BY <1>0, <1>2, <1>3, <1>5, <2>3
    <3> QED
      BY <1>1, <1>3, <2>1, <2>3, <3>1 DEF kept
  <2> QED
    BY <2>2, <2>3
<1> QED
  BY <1>4, <1>5

\* The list holds the lowest of the numbers W, all of them while there are places.
Holds(ids, W) ==
  /\ ids \in Seq(Nat) /\ Ascending(ids) /\ Len(ids) <= ListMax
  /\ \A i \in 1..Len(ids) : ids[i] \in W
  /\ \A s \in W : \/ \E i \in 1..Len(ids) : ids[i] = s
                  \/ Len(ids) = ListMax /\ \A i \in 1..Len(ids) : ids[i] < s

\* One number more: Keep goes on holding the lowest.
LEMMA KeepHolds ==
  ASSUME NEW W \in SUBSET Nat, NEW sid \in Nat \ W, NEW ids, Holds(ids, W)
  PROVE  Holds(Keep(ids, sid), W \cup {sid})
<1> DEFINE n == Len(ids)
           k == Keep(ids, sid)
           m == Len(k)
<1>0. /\ ids \in Seq(Nat) /\ n \in Nat /\ ListMax \in Nat \ {0} /\ n <= ListMax
      /\ \A i \in 1..n : ids[i] \in Nat /\ ids[i] \in W
      /\ \A i, j \in 1..n : i < j => ids[i] < ids[j]
      /\ \A s \in W : (\E i \in 1..n : ids[i] = s) \/ (n = ListMax /\ \A i \in 1..n : ids[i] < s)
  BY ListBounds DEF Holds, Ascending
<1>1. PICK pos \in 0..n :
           /\ \A i \in 1..n : ids[i] <= sid <=> i <= pos
           /\ \/ pos = ListMax /\ k = ids
              \/ /\ pos < ListMax /\ k \in Seq(Nat)
                 /\ m = IF n = ListMax THEN ListMax ELSE n + 1
                 /\ \A i \in 1..m : k[i] =
                      IF i <= pos THEN ids[i] ELSE IF i = pos + 1 THEN sid ELSE ids[i - 1]
  BY KeepDefined DEF Holds
<1>2. \A i \in 1..n : i <= pos => ids[i] < sid
  BY <1>0, <1>1
<1>3. \A i \in 1..n : i > pos => sid < ids[i]
  BY <1>0, <1>1
<1> HIDE DEF n, k, m
<1>4. CASE pos = ListMax /\ k = ids
  <2>1. n = ListMax /\ \A i \in 1..n : ids[i] < sid
    BY <1>0, <1>1, <1>2, <1>4
  <2> QED
    BY <1>0, <1>4, <2>1 DEF Holds, Ascending, n, k
<1>5. CASE pos < ListMax /\ k \in Seq(Nat)
           /\ m = (IF n = ListMax THEN ListMax ELSE n + 1)
           /\ \A i \in 1..m : k[i] =
                IF i <= pos THEN ids[i] ELSE IF i = pos + 1 THEN sid ELSE ids[i - 1]
  <2>1. m \in Nat /\ m <= ListMax /\ m <= n + 1 /\ pos < m /\ (m = n + 1 \/ (m = n /\ n = ListMax))
    BY <1>0, <1>1, <1>5
  <2>2. \A i \in 1..m : /\ i <= pos => i \in 1..n /\ k[i] = ids[i]
                        /\ i = pos + 1 => k[i] = sid
                        /\ i > pos + 1 => i - 1 \in 1..n /\ i - 1 > pos /\ k[i] = ids[i - 1]
    BY <1>0, <1>1, <1>5, <2>1
  <2>3. \A i, j \in 1..m : i < j => k[i] < k[j]
    <3> SUFFICES ASSUME NEW i \in 1..m, NEW j \in 1..m, i < j PROVE k[i] < k[j]
      OBVIOUS
    <3>1. i \in Nat /\ j \in Nat /\ pos \in Nat
      BY <1>1
    <3>2. CASE j <= pos
      <4>1. i <= pos /\ i \in 1..n /\ j \in 1..n /\ k[i] = ids[i] /\ k[j] = ids[j]
        BY <2>2, <3>1, <3>2
      <4> QED
        BY <1>0, <4>1
    <3>3. CASE i <= pos /\ j = pos + 1
      BY <1>2, <2>2, <3>1, <3>3
    <3>4. CASE i <= pos /\ j > pos + 1
      <4>1. i \in 1..n /\ j - 1 \in 1..n /\ i < j - 1 /\ k[i] = ids[i] /\ k[j] = ids[j - 1]
        BY <2>2, <3>1, <3>4
      <4> QED
        BY <1>0, <4>1
    <3>5. CASE i = pos + 1 /\ j > pos + 1
      BY <1>3, <2>2, <3>1, <3>5
    <3>6. CASE i > pos + 1
      <4>1. i - 1 \in 1..n /\ j - 1 \in 1..n /\ i - 1 < j - 1 /\ k[i] = ids[i - 1] /\ k[j] = ids[j - 1]
        BY <2>2, <3>1, <3>6
      <4> QED
        BY <1>0, <4>1
    <3> QED
      BY <3>1, <3>2, <3>3, <3>4, <3>5, <3>6
  <2>4. \A i \in 1..m : k[i] \in W \cup {sid}
    <3> SUFFICES ASSUME NEW i \in 1..m PROVE k[i] \in W \cup {sid}
      OBVIOUS
    <3>1. i <= pos \/ i = pos + 1 \/ i > pos + 1
      BY <1>1, <2>1
    <3> QED
      BY <1>0, <2>2, <3>1
  <2>5. pos + 1 \in 1..m /\ k[pos + 1] = sid
    BY <1>1, <2>1, <2>2
  \* What was held still is, unless it was in the last place of a full list.
  <2>6. \A i \in 1..n : \/ \E j \in 1..m : k[j] = ids[i]
                        \/ m = ListMax /\ i = n /\ n = m /\ n > pos
    <3> SUFFICES ASSUME NEW i \in 1..n PROVE \/ \E j \in 1..m : k[j] = ids[i]
                                             \/ m = ListMax /\ i = n /\ n = m /\ n > pos
      OBVIOUS
    <3>1. CASE i <= pos
      <4>1. i \in 1..m
        BY <1>1, <2>1, <3>1
      <4> QED
        BY <2>2, <3>1, <4>1
    <3>2. CASE i > pos /\ i + 1 <= m
      <4>1. i + 1 \in 1..m /\ i + 1 > pos + 1 /\ (i + 1) - 1 = i
        BY <1>1, <2>1, <3>2
      <4>2. k[i + 1] = ids[i]
        BY <2>2, <4>1
      <4> QED
        BY <4>1, <4>2
    <3>3. CASE i > pos /\ ~ (i + 1 <= m)
      BY <1>0, <1>1, <2>1, <3>3
    <3> QED
      BY <1>1, <3>1, <3>2, <3>3
  \* The highest of a full list does not get higher.
  <2>7. m = n /\ n > pos => \A j \in 1..m : k[j] < ids[n]
    <3> SUFFICES ASSUME m = n, n > pos, NEW j \in 1..m PROVE k[j] < ids[n]
      OBVIOUS
    <3>1. n \in 1..n /\ j \in Nat /\ j <= n /\ pos \in Nat
      BY <1>0, <1>1, <2>1
    <3>2. CASE j <= pos
      BY <1>0, <2>2, <3>1, <3>2
    <3>3. CASE j = pos + 1
      BY <1>3, <2>2, <3>1, <3>3
    <3>4. CASE j > pos + 1
      <4>1. j - 1 \in 1..n /\ j - 1 < n /\ k[j] = ids[j - 1]
        BY <2>2, <3>1, <3>4
      <4> QED
        BY <1>0, <3>1, <4>1
    <3> QED
      BY <3>1, <3>2, <3>3, <3>4
  <2>8. \A s \in W : \/ \E j \in 1..m : k[j] = s
                     \/ m = ListMax /\ \A j \in 1..m : k[j] < s
    <3> SUFFICES ASSUME NEW s \in W PROVE \/ \E j \in 1..m : k[j] = s
                                          \/ m = ListMax /\ \A j \in 1..m : k[j] < s
      OBVIOUS
    <3>1. CASE \E i \in 1..n : ids[i] = s
      BY <2>6, <2>7, <3>1
    <3>2. CASE n = ListMax /\ \A i \in 1..n : ids[i] < s
      <4>1. m = n /\ n > pos /\ n \in 1..n /\ ids[n] < s
        BY <1>0, <1>1, <1>5, <3>2
      <4>2. \A j \in 1..m : k[j] < ids[n]
        BY <2>7, <4>1
      <4>3. \A j \in 1..m : k[j] \in Nat
        BY <1>0, <2>4
      <4>4. ids[n] \in Nat /\ s \in Nat
        BY <1>0, <4>1
      <4>5. \A j \in 1..m : k[j] < s
        BY <4>1, <4>2, <4>3, <4>4
      <4> QED
        BY <3>2, <4>1, <4>5
    <3> QED
      BY <1>0, <3>1, <3>2
  <2> QED
    BY <1>5, <2>1, <2>3, <2>4, <2>5, <2>8 DEF Holds, Ascending, k, m
<1> QED
  BY <1>1, <1>4, <1>5

\* Whatever it is given, Keep returns numbers.
LEMMA KeepType ==
  ASSUME NEW ids \in Seq(Nat), NEW sid \in Nat
  PROVE  Keep(ids, sid) \in Seq(Nat)
<1> DEFINE n == Len(ids)
           below == {i \in 1..n : ids[i] <= sid}
           pos == Cardinality(below)
           longer == SubSeq(ids, 1, pos) \o <<sid>> \o SubSeq(ids, pos + 1, n)
<1>1. n \in Nat /\ IsFiniteSet(1..n) /\ Cardinality(1..n) = n
  <2>1. n \in Nat
    OBVIOUS
  <2> HIDE DEF n
  <2> QED
    BY <2>1, FS_Interval
<1>2. pos \in 0..n
  <2>1. below \in SUBSET (1..n)
    OBVIOUS
  <2> HIDE DEF below, n
  <2>2. IsFiniteSet(below) /\ Cardinality(below) <= Cardinality(1..n)
    BY <1>1, <2>1, FS_Subset
  <2>3. Cardinality(below) \in Nat
    BY <2>2, FS_CardinalityType
  <2> QED
    BY <1>1, <2>2, <2>3
<1> HIDE DEF pos
<1>3. longer \in Seq(Nat) /\ Len(longer) = n + 1
  BY <1>2, Inserted
<1> HIDE DEF longer, n
<1>4. Len(longer) > ListMax => SubSeq(longer, 1, ListMax) \in Seq(Nat)
  BY <1>3, <1>1, ListBounds
<1> QED
  BY <1>3, <1>4 DEF Keep, pos, below, longer, n

\* The lists after the first names of the directory, one more each time.
PassedOver(sid, active, last_synced) == sid = active \/ sid <= last_synced
Lists(kept, dir, active, last_synced) ==
  /\ kept[0] = <<>>
  /\ \A n \in 1..Len(dir) :
       kept[n] = IF PassedOver(dir[n], active, last_synced) THEN kept[n - 1]
                 ELSE Keep(kept[n - 1], dir[n])

\* Kept is the last of them.
LEMMA KeptDefined ==
  ASSUME NEW dir \in Seq(Nat), NEW active \in Nat, NEW last_synced \in Nat
  PROVE  \E kept : /\ Lists(kept, dir, active, last_synced)
                   /\ Kept(dir, active, last_synced) = kept[Len(dir)]
<1> DEFINE D == 0..Len(dir)
           S == Seq(Nat)
           Over(n) == dir[n] = active \/ dir[n] <= last_synced
           pred == [n \in Nat |-> n - 1]
           base == [n \in Nat |-> <<>>]
           step == [p \in Nat \X S |-> IF Over(p[1]) THEN p[2] ELSE Keep(p[2], dir[p[1]])]
           kept == CHOOSE f : f = [n \in D |-> IF n = 0 THEN <<>>
                                               ELSE IF dir[n] = active \/ dir[n] <= last_synced THEN f[n - 1]
                                               ELSE Keep(f[n - 1], dir[n])]
<1>0. /\ Len(dir) \in Nat
      /\ \A n \in D \ {0} : dir[n] \in Nat /\ n - 1 \in D /\ n \in Nat
  OBVIOUS
<1>00. \A n \in D \ {0}, x \in S : step[<<n, x>>] = IF Over(n) THEN x ELSE Keep(x, dir[n])
  <2> HIDE DEF S, Over
  <2> QED
    OBVIOUS
<1>1. PICK f : Solves(f, D, S, {0}, pred, base, step)
  <2>1. /\ D \in SUBSET Nat /\ {0} \in SUBSET D
        /\ \A n \in D \ {0} : pred[n] \in D /\ pred[n] < n
        /\ \A n \in {0} : base[n] \in S
    BY <1>0
  <2>2. \A n \in D \ {0}, x \in S : step[<<n, x>>] \in S
    <3> SUFFICES ASSUME NEW n \in D \ {0}, NEW x \in S PROVE step[<<n, x>>] \in S
      OBVIOUS
    <3>1. Keep(x, dir[n]) \in S
      BY <1>0, KeepType
    <3> HIDE DEF step, S, Over, D
    <3> QED
      BY <1>00, <3>1
  <2> HIDE DEF D, pred, base, step, S
  <2>3. Recursive(D, S, {0}, pred, base, step)
    BY <2>1, <2>2 DEF Recursive
  <2> QED
    BY <2>3, Recursion
<1>2. f = [n \in D |-> IF n = 0 THEN <<>>
                       ELSE IF dir[n] = active \/ dir[n] <= last_synced THEN f[n - 1]
                       ELSE Keep(f[n - 1], dir[n])]
  <2>1. \A n \in D : f[n] = IF n = 0 THEN <<>> ELSE IF Over(n) THEN f[n - 1] ELSE Keep(f[n - 1], dir[n])
    <3>1. f[0] = <<>>
      <4>1. 0 \in D /\ base[0] = <<>>
        BY <1>0
      <4> HIDE DEF D, base, step, pred, S
      <4> QED
        BY <1>1, <4>1 DEF Solves
    <3>2. ASSUME NEW n \in D \ {0} PROVE f[n] = IF Over(n) THEN f[n - 1] ELSE Keep(f[n - 1], dir[n])
      <4>1. n - 1 \in D /\ pred[n] = n - 1 /\ n \notin {0}
        BY <1>0
      <4>2. f[n] = step[<<n, f[n - 1]>>] /\ f[n - 1] \in S
        <5> HIDE DEF pred, base, step, D, S
        <5> QED
          BY <1>1, <4>1 DEF Solves
      <4> HIDE DEF step, Over, D, S
      <4> QED
        BY <1>00, <4>2
    <3> HIDE DEF D, Over
    <3> QED
      BY <3>1, <3>2
  <2>2. f \in [D -> S]
    <3> HIDE DEF S, D, pred, base, step
    <3> QED
      BY <1>1 DEF Solves
  <2> HIDE DEF D, S
  <2> QED
    BY <2>1, <2>2
<1>3. kept = [n \in D |-> IF n = 0 THEN <<>>
                          ELSE IF dir[n] = active \/ dir[n] <= last_synced THEN kept[n - 1]
                          ELSE Keep(kept[n - 1], dir[n])]
  <2> HIDE DEF D
  <2> QED
    BY <1>2
<1>4. Kept(dir, active, last_synced) = kept[Len(dir)]
  BY DEF Kept
<1> HIDE DEF kept
<1>5. kept[0] = <<>>
  BY <1>0, <1>3
<1>6. \A n \in 1..Len(dir) :
        kept[n] = IF PassedOver(dir[n], active, last_synced) THEN kept[n - 1] ELSE Keep(kept[n - 1], dir[n])
  <2> SUFFICES ASSUME NEW n \in 1..Len(dir)
               PROVE  kept[n] = IF PassedOver(dir[n], active, last_synced) THEN kept[n - 1]
                                ELSE Keep(kept[n - 1], dir[n])
    OBVIOUS
  <2>1. n \in D /\ n # 0
    BY <1>0
  <2> HIDE DEF D
  <2> QED
    BY <1>3, <2>1 DEF PassedOver
<1> QED
  BY <1>4, <1>5, <1>6 DEF Lists

\* The numbers that are not passed over among the first n of the directory.
WantedOf(dir, active, last_synced, n) ==
  {s \in {dir[i] : i \in 1..n} : ~ PassedOver(s, active, last_synced)}

\* For every order of a directory without repetition Kept holds the lowest of the wanted.
LEMMA KeptHolds ==
  ASSUME NEW dir \in Seq(Nat), NEW active \in Nat, NEW last_synced \in Nat,
         \A i, j \in 1..Len(dir) : i # j => dir[i] # dir[j]
  PROVE  Holds(Kept(dir, active, last_synced), WantedOf(dir, active, last_synced, Len(dir)))
<1> DEFINE W(n) == WantedOf(dir, active, last_synced, n)
<1>1. PICK kept : Lists(kept, dir, active, last_synced)
                  /\ Kept(dir, active, last_synced) = kept[Len(dir)]
  BY KeptDefined
<1>2. Len(dir) \in Nat /\ \A i \in 1..Len(dir) : dir[i] \in Nat
  OBVIOUS
<1> DEFINE Good == {n \in Nat : n <= Len(dir) => Holds(kept[n], W(n))}
<1>3. 0 \in Good
  <2>1. kept[0] = <<>>
    BY <1>1 DEF Lists
  <2>2. W(0) = {}
    BY DEF WantedOf
  <2>3. Holds(<<>>, {})
    BY ListBounds DEF Holds, Ascending
  <2> HIDE DEF W
  <2> QED
    BY <2>1, <2>2, <2>3
<1>4. ASSUME NEW n \in Nat, n \in Good PROVE n + 1 \in Good
  <2> SUFFICES ASSUME n + 1 <= Len(dir) PROVE Holds(kept[n + 1], W(n + 1))
    OBVIOUS
  <2> DEFINE sid == dir[n + 1]
  <2>1. n + 1 \in 1..Len(dir) /\ (n + 1) - 1 = n /\ n <= Len(dir) /\ sid \in Nat
    BY <1>2
  <2>2. kept[n + 1] = IF PassedOver(sid, active, last_synced) THEN kept[n] ELSE Keep(kept[n], sid)
    BY <1>1, <2>1 DEF Lists
  <2>3. Holds(kept[n], W(n))
    BY <1>4, <2>1
  <2>4. W(n) \in SUBSET Nat /\ sid \notin W(n)
    BY <1>2, <2>1 DEF WantedOf
  <2>5. W(n + 1) = IF PassedOver(sid, active, last_synced) THEN W(n) ELSE W(n) \cup {sid}
    <3>1. {dir[i] : i \in 1..n + 1} = {dir[i] : i \in 1..n} \cup {sid}
      <4>1. 1..n + 1 = (1..n) \cup {n + 1}
        OBVIOUS
      <4> QED
        BY <4>1
    <3> HIDE DEF sid
    <3> QED
      BY <3>1 DEF WantedOf
  <2> HIDE DEF sid, W
  <2>6. CASE PassedOver(sid, active, last_synced)
    BY <2>2, <2>3, <2>5, <2>6
  <2>7. CASE ~ PassedOver(sid, active, last_synced)
    <3>1. Holds(Keep(kept[n], sid), W(n) \cup {sid})
      BY <2>1, <2>3, <2>4, KeepHolds
    <3> QED
      BY <2>2, <2>5, <2>7, <3>1
  <2> QED
    BY <2>6, <2>7
<1>5. \A n \in Nat : n \in Good
  <2> HIDE DEF Good
  <2> QED
    BY <1>3, <1>4, Induction
<1> QED
  BY <1>1, <1>2, <1>5

\* The response after one more session, and after each of them.
Responses == [full : BOOLEAN, used : Nat, sent : Seq(Nat)]
AfterOne(r, sid, len) ==
  IF r.full \/ len = 0 THEN r
  ELSE IF r.used + len + 2 > Room THEN [r EXCEPT !.full = TRUE]
  ELSE [r EXCEPT !.used = @ + len, !.sent = Append(@, sid)]
Growing(response, ids, entry_len) ==
  /\ response[0] = [full |-> FALSE, used |-> HeadLen, sent |-> <<>>]
  /\ \A n \in 1..Len(ids) :
       response[n] = AfterOne(response[n - 1], ids[n], entry_len[ids[n]])

\* The three outcomes of one session.
LEMMA AfterOneType ==
  ASSUME NEW r \in Responses, NEW sid \in Nat, NEW len \in Nat
  PROVE  /\ AfterOne(r, sid, len) \in Responses
         /\ (r.full \/ len = 0) => AfterOne(r, sid, len) = r
         /\ (~ r.full /\ len # 0 /\ r.used + len + 2 > Room) =>
              AfterOne(r, sid, len) = [full |-> TRUE, used |-> r.used, sent |-> r.sent]
         /\ (~ r.full /\ len # 0 /\ ~ (r.used + len + 2 > Room)) =>
              AfterOne(r, sid, len) =
                [full |-> FALSE, used |-> r.used + len, sent |-> Append(r.sent, sid)]
<1>1. r.full \in BOOLEAN /\ r.used \in Nat /\ r.sent \in Seq(Nat)
      /\ r = [full |-> r.full, used |-> r.used, sent |-> r.sent]
  BY DEF Responses
<1>2. Append(r.sent, sid) \in Seq(Nat) /\ r.used + len \in Nat
  BY <1>1
<1>3. CASE r.full \/ len = 0
  BY <1>3 DEF AfterOne
<1>4. CASE ~ r.full /\ len # 0 /\ r.used + len + 2 > Room
  <2>1. AfterOne(r, sid, len) = [r EXCEPT !.full = TRUE]
    BY <1>4 DEF AfterOne
  <2>2. AfterOne(r, sid, len) = [full |-> TRUE, used |-> r.used, sent |-> r.sent]
    BY <2>1 DEF Responses
  <2> QED
    BY <1>1, <1>4, <2>2 DEF Responses
<1>5. CASE ~ r.full /\ len # 0 /\ ~ (r.used + len + 2 > Room)
  <2>1. AfterOne(r, sid, len) = [r EXCEPT !.used = @ + len, !.sent = Append(@, sid)]
    BY <1>5 DEF AfterOne
  <2>2. AfterOne(r, sid, len) = [full |-> r.full, used |-> r.used + len, sent |-> Append(r.sent, sid)]
    BY <2>1 DEF Responses
  <2>3. r.full = FALSE
    BY <1>1, <1>5
  <2> DEFINE t == Append(r.sent, sid)
             u == r.used + len
  <2> HIDE DEF t, u
  <2>4. AfterOne(r, sid, len) = [full |-> FALSE, used |-> u, sent |-> t]
    BY <2>2, <2>3 DEF t, u
  <2>5. [full |-> FALSE, used |-> u, sent |-> t] \in Responses
    BY <1>2 DEF Responses, t, u
  <2> QED
    BY <1>5, <2>4, <2>5 DEF t, u
<1> QED
  BY <1>3, <1>4, <1>5

\* Response is the last of them.
LEMMA ResponseDefined ==
  ASSUME NEW ids \in Seq(Nat), NEW entry_len, \A i \in 1..Len(ids) : entry_len[ids[i]] \in Nat
  PROVE  \E response : /\ Growing(response, ids, entry_len)
                       /\ Response(ids, entry_len) = response[Len(ids)]
<1> DEFINE D == 0..Len(ids)
           S == Responses
           empty == [full |-> FALSE, used |-> HeadLen, sent |-> <<>>]
           pred == [n \in Nat |-> n - 1]
           base == [n \in Nat |-> empty]
           step == [p \in Nat \X S |-> AfterOne(p[2], ids[p[1]], entry_len[ids[p[1]]])]
           response == CHOOSE f : f = [n \in D |->
             IF n = 0 THEN [full |-> FALSE, used |-> HeadLen, sent |-> <<>>]
             ELSE LET r == f[n - 1]
                      len == entry_len[ids[n]]
                  IN IF r.full \/ len = 0 THEN r
                     ELSE IF r.used + len + 2 > Room THEN [r EXCEPT !.full = TRUE]
                     ELSE [r EXCEPT !.used = @ + len, !.sent = Append(@, ids[n])]]
<1>0. /\ Len(ids) \in Nat
      /\ \A n \in D \ {0} : ids[n] \in Nat /\ n - 1 \in D /\ n \in Nat /\ entry_len[ids[n]] \in Nat
  OBVIOUS
<1>00. \A n \in D \ {0}, x \in S : step[<<n, x>>] = AfterOne(x, ids[n], entry_len[ids[n]])
  <2> HIDE DEF S
  <2> QED
    OBVIOUS
<1>1. PICK f : Solves(f, D, S, {0}, pred, base, step)
  <2>1. /\ D \in SUBSET Nat /\ {0} \in SUBSET D
        /\ \A n \in D \ {0} : pred[n] \in D /\ pred[n] < n
    BY <1>0
  <2>2. \A n \in {0} : base[n] \in S
    <3>1. HeadLen \in Nat
      BY ListBounds
    <3>2. empty \in S
      BY <3>1 DEF Responses
    <3> HIDE DEF empty
    <3> QED
      BY <3>2
  <2>3. \A n \in D \ {0}, x \in S : step[<<n, x>>] \in S
    <3> SUFFICES ASSUME NEW n \in D \ {0}, NEW x \in S PROVE step[<<n, x>>] \in S
      OBVIOUS
    <3>1. AfterOne(x, ids[n], entry_len[ids[n]]) \in S
      BY <1>0, AfterOneType
    <3> HIDE DEF step, S, D
    <3> QED
      BY <1>00, <3>1
  <2> HIDE DEF D, pred, base, step, S
  <2>4. Recursive(D, S, {0}, pred, base, step)
    BY <2>1, <2>2, <2>3 DEF Recursive
  <2> QED
    BY <2>4, Recursion
<1>2. f = [n \in D |-> IF n = 0 THEN empty ELSE AfterOne(f[n - 1], ids[n], entry_len[ids[n]])]
  <2>1. \A n \in D : f[n] = IF n = 0 THEN empty ELSE AfterOne(f[n - 1], ids[n], entry_len[ids[n]])
    <3>1. f[0] = empty
      <4>1. 0 \in D /\ base[0] = empty
        BY <1>0
      <4> HIDE DEF D, base, step, pred, S, empty
      <4> QED
        BY <1>1, <4>1 DEF Solves
    <3>2. ASSUME NEW n \in D \ {0} PROVE f[n] = AfterOne(f[n - 1], ids[n], entry_len[ids[n]])
      <4>1. n - 1 \in D /\ pred[n] = n - 1 /\ n \notin {0}
        BY <1>0
      <4>2. f[n] = step[<<n, f[n - 1]>>] /\ f[n - 1] \in S
        <5> HIDE DEF pred, base, step, D, S
        <5> QED
          BY <1>1, <4>1 DEF Solves
      <4> HIDE DEF step, D, S
      <4> QED
        BY <1>00, <4>2
    <3> HIDE DEF D, empty
    <3> QED
      BY <3>1, <3>2
  <2>2. f \in [D -> S]
    <3> HIDE DEF S, D, pred, base, step
    <3> QED
      BY <1>1 DEF Solves
  <2> HIDE DEF D, S, empty
  <2> QED
    BY <2>1, <2>2
<1>3. response = [n \in D |-> IF n = 0 THEN empty ELSE AfterOne(response[n - 1], ids[n], entry_len[ids[n]])]
  <2> HIDE DEF D
  <2> QED
    BY <1>2 DEF AfterOne
<1>4. Response(ids, entry_len) = response[Len(ids)]
  BY DEF Response
<1> HIDE DEF response
<1>5. response[0] = empty
  <2> HIDE DEF empty
  <2> QED
    BY <1>0, <1>3
<1>6. \A n \in 1..Len(ids) : response[n] = AfterOne(response[n - 1], ids[n], entry_len[ids[n]])
  <2> SUFFICES ASSUME NEW n \in 1..Len(ids)
               PROVE  response[n] = AfterOne(response[n - 1], ids[n], entry_len[ids[n]])
    OBVIOUS
  <2>1. n \in D /\ n # 0
    BY <1>0
  <2> HIDE DEF D, empty
  <2> QED
    BY <1>3, <2>1
<1> QED
  BY <1>4, <1>5, <1>6 DEF Growing

\* What the response says of the first n sessions.
Answers(r, ids, entry_len, n) ==
  /\ r \in Responses /\ r.used + 2 <= Room /\ Ascending(r.sent)
  /\ \A i \in 1..Len(r.sent) : \E k \in 1..n : r.sent[i] = ids[k] /\ entry_len[ids[k]] # 0
  /\ \A k \in 1..n : \/ entry_len[ids[k]] = 0
                     \/ \E i \in 1..Len(r.sent) : r.sent[i] = ids[k]
                     \/ r.full /\ \A i \in 1..Len(r.sent) : r.sent[i] < ids[k]

\* One session more.
LEMMA AnswersOneMore ==
  ASSUME NEW ids \in Seq(Nat), Ascending(ids), NEW entry_len, NEW n \in Nat, n + 1 \in 1..Len(ids),
         entry_len[ids[n + 1]] \in Nat, NEW r, Answers(r, ids, entry_len, n)
  PROVE  Answers(AfterOne(r, ids[n + 1], entry_len[ids[n + 1]]), ids, entry_len, n + 1)
<1> DEFINE sid == ids[n + 1]
           len == entry_len[sid]
           q == AfterOne(r, sid, len)
           Has(k) == entry_len[ids[k]] # 0
<1>0. /\ Len(ids) \in Nat /\ \A k \in 1..n + 1 : ids[k] \in Nat
      /\ \A k \in 1..n : ids[k] < sid
      /\ sid \in Nat /\ n + 1 \in 1..n + 1
      /\ \A k \in 1..n : k \in 1..n + 1
      /\ \A k \in 1..n + 1 : k \in 1..n \/ k = n + 1
  <2>1. Len(ids) \in Nat /\ n + 1 <= Len(ids) /\ \A k \in 1..Len(ids) : ids[k] \in Nat
    OBVIOUS
  <2>2. /\ n + 1 \in 1..n + 1 /\ \A k \in 1..n : k \in 1..n + 1 /\ k < n + 1
        /\ \A k \in 1..n + 1 : k \in 1..n \/ k = n + 1
    OBVIOUS
  <2>3. \A k \in 1..n + 1 : k \in 1..Len(ids)
    BY <2>1
  <2>4. \A k \in 1..n : ids[k] < ids[n + 1]
    BY <2>2, <2>3 DEF Ascending
  <2> QED
    BY <2>1, <2>2, <2>3, <2>4
<1>1. /\ r \in Responses /\ r.used \in Nat /\ r.used + 2 <= Room /\ r.sent \in Seq(Nat)
      /\ Len(r.sent) \in Nat
      /\ \A i, j \in 1..Len(r.sent) : i < j => r.sent[i] < r.sent[j]
      /\ \A i \in 1..Len(r.sent) : \E k \in 1..n : r.sent[i] = ids[k] /\ Has(k)
      /\ \A k \in 1..n : \/ ~ Has(k)
                         \/ \E i \in 1..Len(r.sent) : r.sent[i] = ids[k]
                         \/ r.full /\ \A i \in 1..Len(r.sent) : r.sent[i] < ids[k]
  BY DEF Answers, Ascending, Responses
<1>2. len \in Nat /\ (Has(n + 1) <=> len # 0)
  OBVIOUS
<1>3. \A i \in 1..Len(r.sent) : r.sent[i] < sid
  BY <1>0, <1>1
<1>4. /\ q \in Responses
      /\ (r.full \/ len = 0) => q = r
      /\ (~ r.full /\ len # 0 /\ r.used + len + 2 > Room) =>
           q = [full |-> TRUE, used |-> r.used, sent |-> r.sent]
      /\ (~ r.full /\ len # 0 /\ ~ (r.used + len + 2 > Room)) =>
           q = [full |-> FALSE, used |-> r.used + len, sent |-> Append(r.sent, sid)]
  BY <1>0, <1>1, <1>2, AfterOneType
<1> HIDE DEF q, len, sid
<1> SUFFICES /\ q \in Responses /\ q.used + 2 <= Room
             /\ \A i, j \in 1..Len(q.sent) : i < j => q.sent[i] < q.sent[j]
             /\ \A i \in 1..Len(q.sent) : \E k \in 1..n + 1 : q.sent[i] = ids[k] /\ Has(k)
             /\ \A k \in 1..n + 1 : \/ ~ Has(k)
                                    \/ \E i \in 1..Len(q.sent) : q.sent[i] = ids[k]
                                    \/ q.full /\ \A i \in 1..Len(q.sent) : q.sent[i] < ids[k]
  BY DEF Answers, Ascending, q, len, sid
<1> HIDE DEF Has
<1>5. CASE r.full \/ len = 0
  <2>1. q = r
    BY <1>4, <1>5
  <2>2. \A k \in 1..n + 1 : \/ ~ Has(k)
                            \/ \E i \in 1..Len(r.sent) : r.sent[i] = ids[k]
                            \/ r.full /\ \A i \in 1..Len(r.sent) : r.sent[i] < ids[k]
    BY <1>0, <1>1, <1>2, <1>3, <1>5 DEF sid
  <2> QED
    BY <1>0, <1>1, <2>1, <2>2
<1>6. CASE ~ r.full /\ len # 0 /\ r.used + len + 2 > Room
  <2>1. q.full = TRUE /\ q.used = r.used /\ q.sent = r.sent
    BY <1>4, <1>6
  <2>2. \A k \in 1..n + 1 : \/ ~ Has(k)
                            \/ \E i \in 1..Len(r.sent) : r.sent[i] = ids[k]
                            \/ \A i \in 1..Len(r.sent) : r.sent[i] < ids[k]
    BY <1>0, <1>1, <1>2, <1>3, <1>6 DEF sid
  <2> QED
    BY <1>0, <1>1, <1>4, <2>1, <2>2
<1>7. CASE ~ r.full /\ len # 0 /\ ~ (r.used + len + 2 > Room)
  <2>1. q.used = r.used + len /\ q.sent = Append(r.sent, sid)
    BY <1>4, <1>7
  <2>2. Len(q.sent) = Len(r.sent) + 1 /\ q.sent[Len(r.sent) + 1] = sid
        /\ \A i \in 1..Len(r.sent) : q.sent[i] = r.sent[i]
    BY <1>0, <1>1, <2>1
  <2> DEFINE m == Len(r.sent)
  <2>30. m \in Nat
    BY <1>1
  <2> HIDE DEF m
  <2>3. m \in Nat /\ \A i \in 1..m + 1 : i \in 1..m \/ i = m + 1
    BY <2>30
  <2>4. q.used + 2 <= Room
    BY <1>1, <1>2, <1>7, <2>1, ListBounds
  <2>5. \A i, j \in 1..m + 1 : i < j => q.sent[i] < q.sent[j]
    <3> SUFFICES ASSUME NEW i \in 1..m + 1, NEW j \in 1..m + 1, i < j PROVE q.sent[i] < q.sent[j]
      OBVIOUS
    <3>1. i \in 1..m /\ q.sent[i] = r.sent[i]
      BY <2>2, <2>3 DEF m
    <3>2. CASE j = m + 1
      BY <1>3, <2>2, <3>1, <3>2 DEF m
    <3>3. CASE j \in 1..m
      BY <1>1, <2>2, <3>1, <3>3 DEF m
    <3> QED
      BY <2>3, <3>2, <3>3
  <2>6. \A i \in 1..m + 1 : \E k \in 1..n + 1 : q.sent[i] = ids[k] /\ Has(k)
    <3> SUFFICES ASSUME NEW i \in 1..m + 1 PROVE \E k \in 1..n + 1 : q.sent[i] = ids[k] /\ Has(k)
      OBVIOUS
    <3>1. CASE i = m + 1
      BY <1>0, <1>2, <1>7, <2>2, <3>1 DEF m, sid
    <3>2. CASE i \in 1..m
      BY <1>0, <1>1, <2>2, <3>2 DEF m
    <3> QED
      BY <2>3, <3>1, <3>2
  <2>7. \A k \in 1..n + 1 : ~ Has(k) \/ \E i \in 1..m + 1 : q.sent[i] = ids[k]
    <3> SUFFICES ASSUME NEW k \in 1..n + 1, Has(k) PROVE \E i \in 1..m + 1 : q.sent[i] = ids[k]
      OBVIOUS
    <3>1. CASE k = n + 1
      <4>1. m + 1 \in 1..m + 1
        BY <2>3
      <4> QED
        BY <2>2, <3>1, <4>1 DEF m, sid
    <3>2. CASE k \in 1..n
      <4>1. PICK i \in 1..m : r.sent[i] = ids[k]
        BY <1>1, <1>7, <3>2 DEF m
      <4>2. i \in 1..m + 1
        BY <2>3
      <4> QED
        BY <2>2, <4>1, <4>2 DEF m
    <3> QED
      BY <1>0, <3>1, <3>2
  <2> QED
    BY <1>4, <2>2, <2>4, <2>5, <2>6, <2>7 DEF m
<1> QED
  BY <1>5, <1>6, <1>7

\* What the response says of all of them.
LEMMA ResponseAnswers ==
  ASSUME NEW ids \in Seq(Nat), Ascending(ids), NEW entry_len,
         \A i \in 1..Len(ids) : entry_len[ids[i]] \in Nat
  PROVE  Answers(Response(ids, entry_len), ids, entry_len, Len(ids))
<1>1. PICK response : Growing(response, ids, entry_len)
                      /\ Response(ids, entry_len) = response[Len(ids)]
  BY ResponseDefined
<1> DEFINE Good == {n \in Nat : n <= Len(ids) => Answers(response[n], ids, entry_len, n)}
<1>2. 0 \in Good
  <2>1. response[0] = [full |-> FALSE, used |-> HeadLen, sent |-> <<>>]
    BY <1>1 DEF Growing
  <2>2. HeadLen \in Nat /\ HeadLen + 2 <= Room
    BY ListBounds
  <2> DEFINE r == response[0]
  <2>3. r.full = FALSE /\ r.used = HeadLen /\ r.sent = <<>> /\ r \in Responses
    BY <2>1, <2>2 DEF Responses
  <2> HIDE DEF r
  <2>4. Answers(r, ids, entry_len, 0)
    <3>1. Len(r.sent) = 0
      BY <2>3
    <3> QED
      BY <2>2, <2>3, <3>1 DEF Answers, Ascending
  <2> QED
    BY <2>4 DEF r
<1>3. ASSUME NEW n \in Nat, n \in Good PROVE n + 1 \in Good
  <2> SUFFICES ASSUME n + 1 <= Len(ids) PROVE Answers(response[n + 1], ids, entry_len, n + 1)
    OBVIOUS
  <2>1. n + 1 \in 1..Len(ids) /\ (n + 1) - 1 = n /\ n <= Len(ids)
    OBVIOUS
  <2>2. response[n + 1] = AfterOne(response[n], ids[n + 1], entry_len[ids[n + 1]])
    BY <1>1, <2>1 DEF Growing
  <2>3. Answers(response[n], ids, entry_len, n)
    BY <1>3, <2>1
  <2> QED
    BY <2>1, <2>2, <2>3, AnswersOneMore
<1>4. \A n \in Nat : n \in Good
  <2> HIDE DEF Good
  <2> QED
    BY <1>2, <1>3, Induction
<1>5. Len(ids) \in Nat
  OBVIOUS
<1> QED
  BY <1>1, <1>4, <1>5

\* A list with places left, or that is as long as all the numbers together, misses none.
LEMMA NoneMissing ==
  ASSUME NEW W \in SUBSET Nat, IsFiniteSet(W), NEW ids, Holds(ids, W),
         Cardinality(W) <= ListMax, NEW s \in W
  PROVE  \E i \in 1..Len(ids) : ids[i] = s
<1> SUFFICES ASSUME Len(ids) = ListMax, \A i \in 1..Len(ids) : ids[i] < s
             PROVE  FALSE
  BY DEF Holds
<1> DEFINE places == 1..ListMax
           lower == W \ {s}
           place == [i \in places |-> ids[i]]
<1>1. ListMax \in Nat /\ IsFiniteSet(places) /\ Cardinality(places) = ListMax
  BY ListBounds, FS_Interval
<1>2. \A i \in places : ids[i] \in W /\ ids[i] \in Nat /\ ids[i] < s
  BY DEF Holds
<1>3. \A i, j \in places : ids[i] = ids[j] => i = j
  <2> SUFFICES ASSUME NEW i \in places, NEW j \in places, ids[i] = ids[j], i # j PROVE FALSE
    OBVIOUS
  <2>1. \A k, l \in places : k < l => ids[k] < ids[l]
    BY DEF Holds, Ascending
  <2>2. i < j \/ j < i
    BY <1>1
  <2> QED
    BY <1>2, <2>1, <2>2
<1> HIDE DEF places
<1>4. \A i \in places : ids[i] \in lower
  BY <1>2
<1>5. place \in Injection(places, lower)
  BY <1>3, <1>4 DEF Injection, IsInjective
<1>6. IsFiniteSet(lower) /\ Cardinality(lower) = Cardinality(W) - 1
  BY FS_RemoveElement
<1> HIDE DEF place, lower
<1>7. Cardinality(places) <= Cardinality(lower)
  BY <1>5, <1>6, FS_Injection
<1>8. Cardinality(W) \in Nat
  BY FS_CardinalityType
<1> QED
  BY <1>1, <1>6, <1>7, <1>8

\* The list, for one directory.
LEMMA ListIsExact == ASSUME input \in Inputs PROVE ListKeepsLowest
<1> SUFFICES ASSUME input.kind = "list" PROVE ListKeepsLowest
  BY DEF ListKeepsLowest
<1> DEFINE dir == input.dir
           entry_len == input.entry_len
           active == input.active
           last_synced == input.last_synced
           wanted == {s \in {dir[i] : i \in DOMAIN dir} : s # active /\ s > last_synced}
           kept == Kept(dir, active, last_synced)
           reply == Response(kept, entry_len)
           sent == {reply.sent[i] : i \in DOMAIN reply.sent}
<1>1. /\ dir \in Orders /\ entry_len \in [Ids -> EntryLens]
      /\ active \in {0} \cup Ids /\ last_synced \in 0..1
  BY DEF Inputs
<1>2. /\ Ids \subseteq Nat /\ EntryLens \subseteq Nat /\ active \in Nat /\ last_synced \in Nat
  <2> HIDE DEF dir, entry_len, active, last_synced
  <2>1. Ids \subseteq Nat /\ EntryLens \subseteq Nat
    BY ListBounds
  <2> QED
    BY <1>1, <2>1
<1>3. /\ dir \in Seq(Nat) /\ Len(dir) \in Nat /\ DOMAIN dir = 1..Len(dir)
      /\ \A i \in 1..Len(dir) : dir[i] \in Ids
      /\ \A i, j \in 1..Len(dir) : i # j => dir[i] # dir[j]
  <2>1. PICK n \in Nat : dir \in [1..n -> Ids]
    BY <1>1 DEF Orders
  <2>2. dir \in [1..n -> Nat]
    BY <1>2, <2>1
  <2>3. dir \in Seq(Nat) /\ Len(dir) = n
    BY <2>2
  <2>4. \A i, j \in DOMAIN dir : i # j => dir[i] # dir[j]
    BY <1>1 DEF Orders
  <2> HIDE DEF dir
  <2> QED
    BY <2>1, <2>3, <2>4
<1> HIDE DEF dir, entry_len, active, last_synced
<1>4. wanted = WantedOf(dir, active, last_synced, Len(dir))
  <2>1. \A s \in Nat : (s # active /\ s > last_synced) <=> ~ (s = active \/ s <= last_synced)
    BY <1>2
  <2>2. \A i \in 1..Len(dir) : dir[i] \in Nat
    BY <1>2, <1>3
  <2> QED
    BY <1>3, <2>1, <2>2 DEF WantedOf, PassedOver
<1>5. wanted \in SUBSET Ids
  BY <1>3
<1>6. wanted \in SUBSET Nat /\ IsFiniteSet(wanted)
  <2> HIDE DEF wanted
  <2> QED
    BY <1>2, <1>5, ListBounds, FS_Subset
<1>7. Holds(kept, wanted)
  BY <1>2, <1>3, <1>4, KeptHolds
<1> HIDE DEF wanted, kept
<1>8. /\ kept \in Seq(Nat) /\ Ascending(kept) /\ Len(kept) \in Nat
      /\ \A k \in 1..Len(kept) : kept[k] \in wanted
      /\ \A s \in wanted : \/ \E k \in 1..Len(kept) : kept[k] = s
                           \/ Len(kept) = ListMax /\ \A k \in 1..Len(kept) : kept[k] < s
  BY <1>7 DEF Holds
<1>9. \A s \in Ids : entry_len[s] \in Nat
  BY <1>1, <1>2 DEF entry_len
<1>10. Answers(reply, kept, entry_len, Len(kept))
  BY <1>5, <1>8, <1>9, ResponseAnswers
<1> HIDE DEF reply
<1>11. /\ reply.used + 2 <= Room /\ reply.sent \in Seq(Nat) /\ DOMAIN reply.sent = 1..Len(reply.sent)
       /\ \A i, j \in 1..Len(reply.sent) : i < j => reply.sent[i] < reply.sent[j]
       /\ \A i \in 1..Len(reply.sent) :
            \E k \in 1..Len(kept) : reply.sent[i] = kept[k] /\ entry_len[kept[k]] # 0
       /\ \A k \in 1..Len(kept) : \/ entry_len[kept[k]] = 0
                                  \/ \E i \in 1..Len(reply.sent) : reply.sent[i] = kept[k]
                                  \/ reply.full /\ \A i \in 1..Len(reply.sent) : reply.sent[i] < kept[k]
  BY <1>10 DEF Answers, Ascending, Responses
<1>12. \A t \in sent : \E k \in 1..Len(kept) : t = kept[k] /\ entry_len[t] # 0
  BY <1>11
<1>13. \A i \in 1..Len(reply.sent) : reply.sent[i] \in sent
  BY <1>11
<1>14. sent = {reply.sent[i] : i \in 1..Len(reply.sent)}
  BY <1>11
<1>15. \A k \in 1..Len(kept) : \/ entry_len[kept[k]] = 0 \/ kept[k] \in sent
                               \/ reply.full /\ \A t \in sent : t < kept[k]
  BY <1>11, <1>13, <1>14
<1> HIDE DEF sent
<1>16. sent \subseteq wanted
  BY <1>8, <1>12
<1>17. \A s \in wanted \ sent :
         \/ entry_len[s] = 0
         \/ /\ Len(kept) = ListMax \/ reply.full
            /\ \A t \in sent : t < s
  <2> SUFFICES ASSUME NEW s \in wanted \ sent, entry_len[s] # 0
               PROVE  (Len(kept) = ListMax \/ reply.full) /\ \A t \in sent : t < s
    OBVIOUS
  <2>1. CASE \E k \in 1..Len(kept) : kept[k] = s
    BY <1>15, <2>1
  <2>2. CASE Len(kept) = ListMax /\ \A k \in 1..Len(kept) : kept[k] < s
    BY <1>12, <2>2
  <2> QED
    BY <1>8, <2>1, <2>2
<1>18. ASSUME Cardinality(wanted) <= ListMax, ~ reply.full
       PROVE  sent = {s \in wanted : entry_len[s] > 0}
  <2>1. \A s \in sent : s \in wanted /\ entry_len[s] > 0
    BY <1>5, <1>9, <1>12, <1>16
  <2>2. ASSUME NEW s \in wanted, entry_len[s] > 0 PROVE s \in sent
    <3>1. PICK k \in 1..Len(kept) : kept[k] = s
      BY <1>6, <1>7, <1>18, NoneMissing
    <3> QED
      BY <1>15, <1>18, <2>2, <3>1
  <2> QED
    BY <2>1, <2>2
<1> QED
  BY <1>11, <1>16, <1>17, <1>18
     DEF ListKeepsLowest, sent, reply, kept, wanted, dir, entry_len, active, last_synced

-----------------------------------------------------------------------------

\* What is computed on is one of the inputs, for as long as the specification runs.
Fed == input = None \/ input \in Inputs

\* It holds of every behaviour.
LEMMA AlwaysFed == NumbersSpec => []Fed
<1>1. NumbersInit => Fed
  BY DEF NumbersInit, Fed
<1>2. Fed /\ [NumbersNext]_input => Fed'
  BY DEF Fed, NumbersNext, Feed
<1> QED
  BY <1>1, <1>2, PTL DEF NumbersSpec

\* For every width of a byte that is even and every scale and divisor: what the bench's
\* encoder puts into a frame is what the decoder reads, the current is the quotient C
\* computes, and the dash shows the nearest whole speed.
THEOREM DecodedExactlyAlways == NumbersSpec => []DecodedExactly
<1>1. Fed => DecodedExactly
  <2>1. CASE input = None
    BY <2>1 DEF DecodedExactly, None
  <2> QED
    BY <2>1, WordsAreExact DEF Fed
<1> QED
  BY <1>1, AlwaysFed, PTL

\* For every base, every width of a number and every number: the digits put_u32, put_u64
\* and put_hex write into a row have the number for their value.
THEOREM RowsReadBackAlways == NumbersSpec => []RowsReadBack
<1>1. Fed => RowsReadBack
  <2>1. CASE input = None
    BY <2>1 DEF RowsReadBack, None
  <2> QED
    BY <2>1, RowsAreExact DEF Fed
<1> QED
  BY <1>1, AlwaysFed, PTL

\* For every number of sessions, places and bytes, and every order of the directory: LIST
\* sends the lowest sessions in ascending order and leaves none out below one it sends.
THEOREM ListKeepsLowestAlways == NumbersSpec => []ListKeepsLowest
<1>1. Fed => ListKeepsLowest
  <2>1. CASE input = None
    BY <2>1 DEF ListKeepsLowest, None
  <2> QED
    BY <2>1, ListIsExact DEF Fed
<1> QED
  BY <1>1, AlwaysFed, PTL

=============================================================================
