--------------------------- MODULE NakDelayProofs ---------------------------
(***************************************************************************)
(* That the closed formula of the code gives the Fibonacci sequence at     *)
(* every delivery count, and with it BacksOff.                             *)
(*                                                                         *)
(* PhiPower and Fibonacci are recursive functions.  What holds of every    *)
(* entry is shown by the least entry for which it does not: a set of       *)
(* naturals that has an element has a least one.                           *)
(***************************************************************************)
EXTENDS MCConsumer, WellFoundedInduction, TLAPS

(* The order of the naturals is well-founded: a set of them that is not    *)
(* empty has a least element.                                              *)
LEMMA LeastNatural ==
  ASSUME NEW T, T \subseteq Nat, T # {}
  PROVE  \E x \in T : \A y \in T : x <= y
<1> DEFINE R == OpToRel(<, Nat)
<1>1. IsWellFoundedOn(R, Nat)
  BY NatLessThanWellFounded
<1>2. \A x, y \in Nat : x < y => <<x, y>> \in R
  BY DEF OpToRel
<1> HIDE DEF R
<1>3. PICK x \in T : \A y \in T : ~ (<<y, x>> \in R)
  BY <1>1, WFMin
<1>4. ASSUME NEW y \in T
      PROVE  x <= y
  <2>1. x \in Nat /\ y \in Nat
    OBVIOUS
  <2>2. y < x => <<y, x>> \in R
    BY <1>2, <2>1
  <2> QED
    BY <1>3, <2>1, <2>2
<1> QED
  BY <1>4

(* Induction over the naturals, for a property given by the set of those   *)
(* that have it: 0 does, and the successor of one that does.               *)
LEMMA Induction ==
  ASSUME NEW H, 0 \in H, \A n \in Nat : n \in H => n + 1 \in H
  PROVE  Nat \subseteq H
<1> DEFINE T == {n \in Nat : n \notin H}
<1>1. SUFFICES ASSUME T # {} PROVE FALSE
  OBVIOUS
<1>2. PICK x \in T : \A y \in T : x <= y
  BY <1>1, LeastNatural
<1>3. x \in Nat /\ x \notin H /\ x # 0
  BY <1>2
<1>4. x - 1 \in Nat /\ x - 1 < x /\ x = (x - 1) + 1
  BY <1>3
<1>5. x - 1 \in H
  BY <1>2, <1>4
<1> QED
  BY <1>3, <1>4, <1>5

-----------------------------------------------------------------------------
(* The powers of phi                                                       *)

(* The pair for phi^n, from the pair for phi^(n-1)                         *)
First   == [a |-> 1, b |-> 0]
After(p) == [a |-> p.b, b |-> p.a + p.b]

(* f holds the powers up to phi^N.                                         *)
ArePowers(f, N) == f = [n \in 0 .. N |-> IF n = 0 THEN First ELSE After(f[n - 1])]

(* There are powers up to every N: those up to N - 1 and one more.         *)
LEMMA PowersExist == \A N \in Nat : \E f : ArePowers(f, N)
<1> DEFINE H == {N \in Nat : \E f : ArePowers(f, N)}
<1>1. 0 \in H
  <2> DEFINE f == [n \in 0 .. 0 |-> First]
  <2>1. f = [n \in 0 .. 0 |-> IF n = 0 THEN First ELSE After(f[n - 1])]
    <3>1. \A n \in 0 .. 0 : n = 0
      OBVIOUS
    <3>2. \A n \in 0 .. 0 : f[n] = IF n = 0 THEN First ELSE After(f[n - 1])
      BY <3>1
    <3>3. f = [n \in 0 .. 0 |-> f[n]]
      OBVIOUS
    <3> HIDE DEF f
    <3> QED
      BY <3>2, <3>3
  <2> HIDE DEF f
  <2> QED
    BY <2>1 DEF ArePowers
<1>2. ASSUME NEW N \in Nat, N \in H
      PROVE  N + 1 \in H
  <2>1. PICK g : ArePowers(g, N)
    BY <1>2
  <2>2. \A n \in 0 .. N : g[n] = IF n = 0 THEN First ELSE After(g[n - 1])
    BY <2>1 DEF ArePowers
  <2> DEFINE f == [n \in 0 .. (N + 1) |-> IF n = N + 1 THEN After(g[N]) ELSE g[n]]
  <2>3. ASSUME NEW n \in 0 .. (N + 1)
        PROVE  f[n] = IF n = 0 THEN First ELSE After(f[n - 1])
    <3>1. CASE n = N + 1
      <4>1. n - 1 = N /\ N \in 0 .. (N + 1) /\ N # N + 1 /\ n # 0
        BY <3>1
      <4>2. f[n - 1] = g[N]
        BY <4>1
      <4> QED
        BY <3>1, <4>1, <4>2
    <3>2. CASE n # N + 1 /\ n # 0
      <4>1. n \in 0 .. N /\ n - 1 \in 0 .. (N + 1) /\ n - 1 # N + 1
        BY <3>2
      <4>2. f[n - 1] = g[n - 1] /\ f[n] = g[n]
        BY <3>2, <4>1
      <4> QED
        BY <2>2, <3>2, <4>1, <4>2
    <3>3. CASE n = 0
      <4>1. n \in 0 .. N /\ n # N + 1
        BY <3>3
      <4> QED
        BY <2>2, <3>3, <4>1
    <3> QED
      BY <3>1, <3>2, <3>3
  <2>4. f = [n \in 0 .. (N + 1) |-> f[n]]
    OBVIOUS
  <2> HIDE DEF f
  <2>5. f = [n \in 0 .. (N + 1) |-> IF n = 0 THEN First ELSE After(f[n - 1])]
    BY <2>3, <2>4
  <2> QED
    BY <2>5 DEF ArePowers
<1> HIDE DEF H
<1>3. Nat \subseteq H
  BY <1>1, <1>2, Induction
<1> QED
  BY <1>3 DEF H

(* PhiPower is well defined: it satisfies the equation it is defined by.   *)
LEMMA PhiPowerEquation ==
  \A n \in 0 .. MaxDeliveries : PhiPower[n] = IF n = 0 THEN First ELSE After(PhiPower[n - 1])
<1>1. \E f : ArePowers(f, MaxDeliveries)
  BY PowersExist, MaxDeliveriesAssumption
<1>2. PhiPower = CHOOSE f : ArePowers(f, MaxDeliveries)
  BY DEF PhiPower, ArePowers, First, After
<1>3. ArePowers(PhiPower, MaxDeliveries)
  BY <1>1, <1>2
<1> QED
  BY <1>3 DEF ArePowers

(* phi^n = a + b*phi has the norm 1 or -1, so that phi^n / sqrt(5) is as   *)
(* close to b as the rounding needs.                                       *)
IsUnit(p) ==
  /\ p.a \in Nat /\ p.b \in Nat \ {0}
  /\ p.a * p.a + p.a * p.b - p.b * p.b \in {1, -1}

(* Products of sums, multiplied out                                        *)
LEMMA ProductsOfSums ==
  ASSUME NEW a \in Int, NEW b \in Int
  PROVE  /\ b * (a + b) = a * b + b * b
         /\ (a + b) * (a + b) = a * a + 2 * (a * b) + b * b
         /\ (2 * a + b) * (2 * a + b) = 4 * (a * a) + 4 * (a * b) + b * b
<1>1. b * (a + b) = a * b + b * b
  OBVIOUS
<1>2. (a + b) * (a + b) = a * a + 2 * (a * b) + b * b
  OBVIOUS
<1>3. (2 * a + b) * (2 * a + b) = 4 * (a * a) + 4 * (a * b) + b * b
  OBVIOUS
<1> QED
  BY <1>1, <1>2, <1>3

(* The squares beside that of b                                            *)
LEMMA NextSquares ==
  ASSUME NEW b \in Int
  PROVE  (b - 1) * (b - 1) = b * b - 2 * b + 1 /\ (b + 1) * (b + 1) = b * b + 2 * b + 1
<1>1. (b - 1) * (b - 1) = b * b - 2 * b + 1
  OBVIOUS
<1>2. (b + 1) * (b + 1) = b * b + 2 * b + 1
  OBVIOUS
<1> QED
  BY <1>1, <1>2

(* Squares keep the order of naturals.                                     *)
LEMMA SquaresGrow ==
  ASSUME NEW x \in Int, NEW y \in Int, 0 <= x, x <= y
  PROVE  x * x <= y * y
<1>1. x * x <= x * y
  OBVIOUS
<1>2. x * y <= y * y
  OBVIOUS
<1> QED
  BY <1>1, <1>2

(* The next power is a unit too, of the other sign.                        *)
LEMMA UnitsStay ==
  ASSUME NEW p, IsUnit(p)
  PROVE  IsUnit(After(p))
<1> DEFINE a == p.a
           b == p.b
           c == a + b
<1>1. a \in Nat /\ b \in Nat \ {0} /\ c \in Nat \ {0} /\ (a * a + a * b - b * b = 1 \/ a * a + a * b - b * b = -1)
  BY DEF IsUnit
<1>2. After(p).a = b /\ After(p).b = c
  BY DEF After
<1>3. b * b + b * c - c * c = b * b - a * a - a * b
  <2>1. b * c = a * b + b * b /\ c * c = a * a + 2 * (a * b) + b * b
    BY <1>1, ProductsOfSums
  <2>2. a * a \in Int /\ a * b \in Int /\ b * b \in Int
    BY <1>1
  <2> QED
    BY <2>1, <2>2
<1>4. a * a \in Int /\ a * b \in Int /\ b * b \in Int
  BY <1>1
<1> HIDE DEF a, b, c
<1>5. b * b - a * a - a * b = 1 \/ b * b - a * a - a * b = -1
  BY <1>1, <1>4
<1> QED
  BY <1>1, <1>2, <1>3, <1>5 DEF IsUnit

(* Every power but that of 0 is a unit.                                    *)
LEMMA PowersAreUnits == \A n \in 1 .. MaxDeliveries : IsUnit(PhiPower[n])
<1> DEFINE H == {n \in Nat : n + 1 \in 1 .. MaxDeliveries => IsUnit(PhiPower[n + 1])}
<1>0. MaxDeliveries \in Nat \ {0}
  BY MaxDeliveriesAssumption
<1>1. 0 \in H
  <2>1. 0 \in 0 .. MaxDeliveries /\ 1 \in 0 .. MaxDeliveries
    BY <1>0
  <2>2. PhiPower[1] = After(First)
    BY <2>1, PhiPowerEquation
  <2>3. PhiPower[1].a = 0 /\ PhiPower[1].b = 1
    BY <2>2 DEF After, First
  <2> QED
    BY <2>3 DEF IsUnit
<1>2. ASSUME NEW n \in Nat, n \in H
      PROVE  n + 1 \in H
  <2>1. SUFFICES ASSUME n + 2 \in 1 .. MaxDeliveries
                 PROVE  IsUnit(PhiPower[n + 2])
    OBVIOUS
  <2>2. n + 1 \in 1 .. MaxDeliveries /\ n + 2 \in 0 .. MaxDeliveries /\ n + 2 # 0 /\ (n + 2) - 1 = n + 1
    BY <1>0, <2>1
  <2>3. PhiPower[n + 2] = After(PhiPower[n + 1])
    BY <2>2, PhiPowerEquation
  <2> QED
    BY <1>2, <2>2, <2>3, UnitsStay
<1> HIDE DEF H
<1>3. Nat \subseteq H
  BY <1>1, <1>2, Induction
<1>4. ASSUME NEW n \in 1 .. MaxDeliveries
      PROVE  IsUnit(PhiPower[n])
  <2>1. n - 1 \in H /\ (n - 1) + 1 = n
    BY <1>0, <1>3
  <2> QED
    BY <2>1 DEF H
<1> QED
  BY <1>4

-----------------------------------------------------------------------------
(* The rounding                                                            *)

(* The square that AtLeastHalves compares with is within 4 of 5*b*b.       *)
LEMMA SquareOfUnit ==
  ASSUME NEW p, IsUnit(p)
  PROVE  LET s == (2 * p.a + p.b) * (2 * p.a + p.b)
         IN s \in {5 * (p.b * p.b) - 4, 5 * (p.b * p.b) + 4}
<1> DEFINE a == p.a
           b == p.b
<1>1. a \in Nat /\ b \in Nat /\ (a * a + a * b - b * b = 1 \/ a * a + a * b - b * b = -1)
  BY DEF IsUnit
<1> HIDE DEF a, b
<1>2. a * a \in Int /\ a * b \in Int /\ b * b \in Int
  BY <1>1
<1>3. (2 * a + b) * (2 * a + b) = 4 * (a * a) + 4 * (a * b) + b * b
  BY <1>1, ProductsOfSums
<1>4. 4 * (a * a) + 4 * (a * b) + b * b \in {5 * (b * b) - 4, 5 * (b * b) + 4}
  BY <1>1, <1>2
<1> QED
  BY <1>3, <1>4 DEF a, b

(* b is the integer that phi^n / sqrt(5) is rounded to, and no other is.   *)
LEMMA RoundsToB ==
  ASSUME NEW p, IsUnit(p), NEW k \in Int
  PROVE  (AtLeastHalves(p, 2 * k - 1) /\ ~AtLeastHalves(p, 2 * k + 1)) <=> k = p.b
<1> DEFINE b == p.b
           s == (2 * p.a + b) * (2 * p.a + b)
           low == 2 * k - 1 - b
           high == 2 * k + 1 - b
<1>1. b \in Nat \ {0} /\ s \in Int /\ s >= 5 * (b * b) - 4 /\ s <= 5 * (b * b) + 4 /\ b * b \in Int
  <2>1. p.a \in Nat /\ b \in Nat \ {0}
    BY DEF IsUnit
  <2>2. b * b \in Int /\ s \in Int
    BY <2>1
  <2>3. s \in {5 * (b * b) - 4, 5 * (b * b) + 4}
    BY SquareOfUnit
  <2> HIDE DEF s, b
  <2> QED
    BY <2>1, <2>2, <2>3
<1>2. /\ AtLeastHalves(p, 2 * k - 1) <=> (low <= 0 \/ s >= 5 * low * low)
      /\ AtLeastHalves(p, 2 * k + 1) <=> (high <= 0 \/ s >= 5 * high * high)
  BY <1>1 DEF AtLeastHalves
<1>3. low \in Int /\ high \in Int
  BY <1>1
<1> HIDE DEF s
<1>5. s >= 5 * ((b - 1) * (b - 1)) /\ s < 5 * ((b + 1) * (b + 1))
  <2> DEFINE square == b * b
             below == (b - 1) * (b - 1)
             above == (b + 1) * (b + 1)
  <2>1. below = square - 2 * b + 1 /\ above = square + 2 * b + 1
    <3>1. b \in Int
      BY <1>1
    <3> HIDE DEF b
    <3> QED
      BY <3>1, NextSquares
  <2>2. square \in Int /\ s >= 5 * square - 4 /\ s <= 5 * square + 4
    BY <1>1
  <2> HIDE DEF square, below, above
  <2>3. s >= 5 * below /\ s < 5 * above
    BY <1>1, <2>1, <2>2
  <2> QED
    BY <2>3 DEF below, above
<1>6. CASE k = b
  <2>1. low = b - 1 /\ high = b + 1
    BY <1>1, <1>6
  <2> QED
    BY <1>1, <1>2, <1>5, <1>6, <2>1
<1>7. CASE k < b
  <2>1. high <= b - 1
    BY <1>1, <1>7
  <2>2. high > 0 => high * high <= (b - 1) * (b - 1)
    BY <1>1, <1>3, <2>1, SquaresGrow
  <2> QED
    BY <1>1, <1>2, <1>3, <1>5, <1>7, <2>2
<1>8. CASE k > b
  <2>1. low >= b + 1
    BY <1>1, <1>8
  <2>2. low * low >= (b + 1) * (b + 1)
    BY <1>1, <1>3, <2>1, SquaresGrow
  <2> QED
    BY <1>1, <1>2, <1>3, <1>5, <1>8, <2>1, <2>2
<1> QED
  BY <1>1, <1>6, <1>7, <1>8

(* fibonacciApproximation() gives b: its choice has one solution.          *)
LEMMA ApproximationIsB == \A n \in 1 .. MaxDeliveries : fibonacciApproximation(n) = PhiPower[n].b
<1> SUFFICES ASSUME NEW n \in 1 .. MaxDeliveries
             PROVE  fibonacciApproximation(n) = PhiPower[n].b
  OBVIOUS
<1> DEFINE p == PhiPower[n]
<1>1. IsUnit(p)
  BY PowersAreUnits
<1>2. fibonacciApproximation(n) = CHOOSE k \in 0 .. 2 * p.b : AtLeastHalves(p, 2 * k - 1) /\ ~AtLeastHalves(p, 2 * k + 1)
  BY DEF fibonacciApproximation
<1> HIDE DEF p
<1>3. p.b \in 0 .. 2 * p.b /\ 0 .. 2 * p.b \subseteq Int
  BY <1>1 DEF IsUnit
<1>4. \A k \in 0 .. 2 * p.b : (AtLeastHalves(p, 2 * k - 1) /\ ~AtLeastHalves(p, 2 * k + 1)) <=> k = p.b
  BY <1>1, <1>3, RoundsToB
<1>5. (CHOOSE k \in 0 .. 2 * p.b : AtLeastHalves(p, 2 * k - 1) /\ ~AtLeastHalves(p, 2 * k + 1)) = p.b
  BY <1>3, <1>4
<1> QED
  BY <1>2, <1>5 DEF p

-----------------------------------------------------------------------------
(* The sequence                                                            *)

(* f is the Fibonacci sequence up to N.                                    *)
IsSequenceUpTo(f, N) == f = [n \in 1 .. N |-> IF n <= 2 THEN 1 ELSE f[n - 1] + f[n - 2]]

(* The b of the powers are the Fibonacci sequence.                         *)
LEMMA PowersAreSequence == IsSequenceUpTo([n \in 1 .. MaxDeliveries |-> PhiPower[n].b], MaxDeliveries)
<1> DEFINE f == [n \in 1 .. MaxDeliveries |-> PhiPower[n].b]
<1>0. MaxDeliveries \in Nat \ {0}
  BY MaxDeliveriesAssumption
<1>1. PhiPower[0] = First
  BY <1>0, PhiPowerEquation
<1>2. \A n \in 1 .. MaxDeliveries : PhiPower[n] = After(PhiPower[n - 1])
  BY <1>0, PhiPowerEquation
<1>3. \A n \in 1 .. MaxDeliveries : /\ PhiPower[n].a = PhiPower[n - 1].b
                                    /\ PhiPower[n].b = PhiPower[n - 1].a + PhiPower[n - 1].b
  <2>1. \A p : After(p).a = p.b /\ After(p).b = p.a + p.b
    BY DEF After
  <2> QED
    BY <1>2, <2>1
<1>4. ASSUME NEW n \in 1 .. MaxDeliveries
      PROVE  f[n] = IF n <= 2 THEN 1 ELSE f[n - 1] + f[n - 2]
  <2>1. CASE n = 1
    <3>1. PhiPower[n].b = 1
      BY <1>1, <1>3, <2>1 DEF First
    <3> QED
      BY <2>1, <3>1
  <2>2. CASE n = 2
    <3>1. 1 \in 1 .. MaxDeliveries /\ 2 - 1 = 1
      BY <1>0, <2>2
    <3>2. PhiPower[1].a = 0 /\ PhiPower[1].b = 1
      BY <1>1, <1>3, <3>1 DEF First
    <3>3. PhiPower[n].b = PhiPower[1].a + PhiPower[1].b
      BY <1>3, <2>2, <3>1
    <3> QED
      BY <2>2, <3>2, <3>3
  <2>3. CASE n # 1 /\ n # 2
    <3>1. n - 1 \in 1 .. MaxDeliveries /\ n - 2 \in 1 .. MaxDeliveries /\ (n - 1) - 1 = n - 2 /\ ~(n <= 2)
      BY <1>0, <2>3
    <3>2. PhiPower[n].b = PhiPower[n - 1].a + PhiPower[n - 1].b /\ PhiPower[n - 1].a = PhiPower[n - 2].b
      BY <1>3, <3>1
    <3>3. PhiPower[n - 1].b \in Nat /\ PhiPower[n - 2].b \in Nat
      BY <3>1, PowersAreUnits DEF IsUnit
    <3>4. f[n] = PhiPower[n].b /\ f[n - 1] = PhiPower[n - 1].b /\ f[n - 2] = PhiPower[n - 2].b
      BY <3>1
    <3> HIDE DEF f
    <3> QED
      BY <3>1, <3>2, <3>3, <3>4
  <2> QED
    BY <2>1, <2>2, <2>3
<1>5. f = [n \in 1 .. MaxDeliveries |-> f[n]]
  OBVIOUS
<1> HIDE DEF f
<1>6. f = [n \in 1 .. MaxDeliveries |-> IF n <= 2 THEN 1 ELSE f[n - 1] + f[n - 2]]
  BY <1>4, <1>5
<1>7. IsSequenceUpTo(f, MaxDeliveries)
  BY <1>6 DEF IsSequenceUpTo
<1> QED
  BY <1>7 DEF f

(* A Fibonacci sequence has the values of any other.                       *)
LEMMA SequenceIsUnique ==
  ASSUME NEW f, NEW g, NEW N \in Nat, IsSequenceUpTo(f, N), IsSequenceUpTo(g, N)
  PROVE  \A n \in 1 .. N : f[n] = g[n]
<1>1. \A n \in 1 .. N : /\ f[n] = IF n <= 2 THEN 1 ELSE f[n - 1] + f[n - 2]
                        /\ g[n] = IF n <= 2 THEN 1 ELSE g[n - 1] + g[n - 2]
  BY DEF IsSequenceUpTo
<1> DEFINE H == {n \in Nat : \A k \in 1 .. N : k <= n => f[k] = g[k]}
<1>2. 0 \in H
  OBVIOUS
<1>3. ASSUME NEW n \in Nat, n \in H
      PROVE  n + 1 \in H
  <2>1. ASSUME NEW k \in 1 .. N, k <= n + 1
        PROVE  f[k] = g[k]
    <3>1. CASE k <= 2
      BY <1>1, <3>1
    <3>2. CASE ~(k <= 2)
      <4>1. k - 1 \in 1 .. N /\ k - 2 \in 1 .. N /\ k - 1 <= n /\ k - 2 <= n
        BY <2>1, <3>2
      <4>2. f[k - 1] = g[k - 1] /\ f[k - 2] = g[k - 2]
        BY <1>3, <4>1
      <4>3. f[k] = f[k - 1] + f[k - 2] /\ g[k] = g[k - 1] + g[k - 2]
        BY <1>1, <3>2
      <4> QED
        BY <4>2, <4>3
    <3> QED
      BY <3>1, <3>2
  <2> QED
    BY <2>1
<1> HIDE DEF H
<1>4. N \in H
  BY <1>2, <1>3, Induction
<1> QED
  BY <1>4 DEF H

(* The closed formula of the code gives the Fibonacci number of every      *)
(* delivery count.                                                         *)
THEOREM ApproximationIsFibonacci == \A n \in 1 .. MaxDeliveries : fibonacciApproximation(n) = Fibonacci[n]
<1> DEFINE f == [n \in 1 .. MaxDeliveries |-> PhiPower[n].b]
<1>1. IsSequenceUpTo(f, MaxDeliveries)
  BY PowersAreSequence
<1>2. \A n \in 1 .. MaxDeliveries : f[n] = PhiPower[n].b
  OBVIOUS
<1> HIDE DEF f
<1>3. Fibonacci = CHOOSE g : IsSequenceUpTo(g, MaxDeliveries)
  BY DEF Fibonacci, IsSequenceUpTo
<1>4. IsSequenceUpTo(Fibonacci, MaxDeliveries)
  BY <1>1, <1>3
<1>5. \A n \in 1 .. MaxDeliveries : f[n] = Fibonacci[n]
  BY <1>1, <1>4, MaxDeliveriesAssumption, SequenceIsUnique
<1> QED
  BY <1>2, <1>5, ApproximationIsB

-----------------------------------------------------------------------------
(* The delay                                                               *)

(* The options an application can give, beyond those that TLC tries        *)
AllOptions == [nak_strategy : {"unset", "regular", "increment", "fibonacci"},
               nak_delay : Nat, nak_delay_max : Nat]

Base(o) == Or(o.nak_delay, DEFAULT_NAK_DELAY)
Maximum(o) == Or(o.nak_delay_max, DEFAULT_MAX_NAK_DELAY)

(* The multiple of the base that the strategy gives, up to the maximum     *)
(* where the strategy is capped                                            *)
ExactDelay(n, o) ==
  LET exact == Times(n, o.nak_strategy) * Base(o)
  IN IF exact > Maximum(o) /\ o.nak_strategy \in {"increment", "fibonacci"} THEN Maximum(o) ELSE exact

(* calculateNakDelay() gives the exact delay for every delivery count and  *)
(* all options, with any base and maximum.                                 *)
THEOREM DelayIsExact == \A n \in 1 .. MaxDeliveries, o \in AllOptions : calculateNakDelay(n, o) = ExactDelay(n, o)
<1> SUFFICES ASSUME NEW n \in 1 .. MaxDeliveries, NEW o \in AllOptions
             PROVE  calculateNakDelay(n, o) = ExactDelay(n, o)
  OBVIOUS
<1>1. Base(o) \in Nat /\ o.nak_strategy \in {"unset", "regular", "increment", "fibonacci"}
  BY DEF AllOptions, Base, Or, DEFAULT_NAK_DELAY
<1>2. fibonacciApproximation(n) = Fibonacci[n]
  BY ApproximationIsFibonacci
<1>3. \A d : Capped(d, o) = IF d > Maximum(o) THEN Maximum(o) ELSE d
  BY DEF Capped, Maximum
<1>4. CASE o.nak_strategy \in {"unset", "regular"}
  <2>1. Times(n, o.nak_strategy) = 1 /\ calculateNakDelay(n, o) = Base(o)
    BY <1>4 DEF Times, calculateNakDelay, Base
  <2>2. 1 * Base(o) = Base(o)
    BY <1>1
  <2> QED
    BY <1>4, <2>1, <2>2 DEF ExactDelay
<1>5. CASE o.nak_strategy = "increment"
  <2>1. Times(n, o.nak_strategy) = n /\ calculateNakDelay(n, o) = Capped(n * Base(o), o)
    BY <1>5 DEF Times, calculateNakDelay, Base
  <2> QED
    BY <1>3, <1>5, <2>1 DEF ExactDelay
<1>6. CASE o.nak_strategy = "fibonacci"
  <2>1. Times(n, o.nak_strategy) = Fibonacci[n] /\ calculateNakDelay(n, o) = Capped(Fibonacci[n] * Base(o), o)
    BY <1>2, <1>6 DEF Times, calculateNakDelay, Base
  <2> QED
    BY <1>3, <1>6, <2>1 DEF ExactDelay
<1> QED
  BY <1>1, <1>4, <1>5, <1>6

(* The entries of IsExact, which TLC evaluates, are all TRUE.              *)
LEMMA EveryDelayIsExact == \A n \in 1 .. MaxDeliveries : IsExact[n]
<1>1. Options \subseteq AllOptions
  BY DEF Options, AllOptions
<1>2. \A n \in 1 .. MaxDeliveries, o \in Options : calculateNakDelay(n, o) = ExactDelay(n, o)
  BY <1>1, DelayIsExact
<1> QED
  BY <1>2 DEF IsExact, ExactDelay, Base, Maximum

(* README, Retry Strategies: a message that its handler fails, at this or  *)
(* any later delivery count, waits the multiple of the base of its         *)
(* strategy: 1, 1, 2, 3, 5, 8, ... with fibonacci, up to the maximum.      *)
THEOREM BacksOffHolds == Spec => []BacksOff
<1>1. BacksOff
  BY EveryDelayIsExact DEF BacksOff
<1> QED
  BY <1>1, PTL
=============================================================================
