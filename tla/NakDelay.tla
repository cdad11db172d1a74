------------------------------ MODULE NakDelay ------------------------------
(***************************************************************************)
(* The delay that a JetStream message is NAKed with.  calculateNakDelay()  *)
(* keeps nothing between two deliveries: it goes by the delivery count of  *)
(* NATS, which also counts the deliveries that were not answered           *)
(* (ack_wait, a crash), so any counts can follow one another.              *)
(*                                                                         *)
(* fibonacciApproximation() rounds phi^n / sqrt(5), which is irrational.   *)
(* Here phi^n is exact, as a + b*phi with integers a and b, and the        *)
(* rounding compares squares.  Up to 60 deliveries the error of the        *)
(* doubles in the code stays far below one half, and they round alike.     *)
(***************************************************************************)
EXTENDS Integers

CONSTANT MaxDeliveries  \* bound: deliveries of a message; the 32-bit integers of TLC carry 22

ASSUME MaxDeliveriesAssumption == MaxDeliveries \in 1 .. 60

DEFAULT_NAK_DELAY     == 1000
DEFAULT_MAX_NAK_DELAY == 60000

\* phi^n = a + b*phi, by phi*phi = phi + 1
PhiPower[n \in 0 .. MaxDeliveries] ==
    IF n = 0 THEN [a |-> 1, b |-> 0]
    ELSE LET p == PhiPower[n - 1] IN [a |-> p.b, b |-> p.a + p.b]

\* phi^n / sqrt(5) >= k/2: with phi = (1 + sqrt(5)) / 2 this compares 2*a + b and (k - b) * sqrt(5)
AtLeastHalves(p, k) ==
    k <= p.b \/ (2 * p.a + p.b) * (2 * p.a + p.b) >= 5 * (k - p.b) * (k - p.b)

\* Mutant: the fraction is cut off
fibonacciTruncated(n) ==
    LET p == PhiPower[n] IN
    CHOOSE k \in 0 .. 2 * p.b : AtLeastHalves(p, 2 * k) /\ ~AtLeastHalves(p, 2 * k + 2)

\* Math.round(): the integer k with k - 1/2 <= x < k + 1/2
fibonacciApproximation(n) ==
    LET p == PhiPower[n] IN
    CHOOSE k \in 0 .. 2 * p.b : AtLeastHalves(p, 2 * k - 1) /\ ~AtLeastHalves(p, 2 * k + 1)

\* An option that is not set is 0, and 0 counts as not set
Or(value, default) == IF value # 0 THEN value ELSE default

Capped(d, o) ==
    LET max == Or(o.nak_delay_max, DEFAULT_MAX_NAK_DELAY) IN IF d > max THEN max ELSE d

calculateNakDelay(n, o) ==
    LET nak_delay == Or(o.nak_delay, DEFAULT_NAK_DELAY) IN
    CASE o.nak_strategy \in {"unset", "regular"} -> nak_delay
      [] o.nak_strategy = "increment" -> Capped(n * nak_delay, o)
      [] o.nak_strategy = "fibonacci" -> Capped(fibonacciApproximation(n) * nak_delay, o)

-----------------------------------------------------------------------------
(* The defaults, and caps that are reached at once, on the way and never.  *)
Options == [nak_strategy : {"unset", "regular", "increment", "fibonacci"},
            nak_delay : {0, 7, 500}, nak_delay_max : {0, 1000, 60001}]

Fibonacci[n \in 1 .. MaxDeliveries] == IF n <= 2 THEN 1 ELSE Fibonacci[n - 1] + Fibonacci[n - 2]

\* How many times the base a delivery waits
Times(n, strategy) ==
    CASE strategy \in {"unset", "regular"} -> 1
      [] strategy = "increment" -> n
      [] strategy = "fibonacci" -> Fibonacci[n]

\* Whether the delay is a multiple of the base, up to the maximum, by delivery count
IsExact ==
    [n \in 1 .. MaxDeliveries |-> \A o \in Options :
        LET max   == Or(o.nak_delay_max, DEFAULT_MAX_NAK_DELAY)
            exact == Times(n, o.nak_strategy) * Or(o.nak_delay, DEFAULT_NAK_DELAY)
        IN calculateNakDelay(n, o) = IF exact > max /\ o.nak_strategy \in {"increment", "fibonacci"}
                                     THEN max ELSE exact]
=============================================================================
