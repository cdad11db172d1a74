----------------------------- MODULE MCConsumer -----------------------------
(***************************************************************************)
(* Instances of JetStreamConsumer for TLC, with the delays of its NAKs.    *)
(***************************************************************************)
EXTENDS JetStreamConsumer, NakDelay

CONSTANTS m1, m2, g1, g2

OneMessage  == {m1}
TwoMessages == {m1, m2}
TwoLoops    == {g1, g2}

\* The handler returns values, or, of the first delivery, a stream of two packets or of one
NoStreams    == [d \in Deliveries |-> 0]
FirstStreams == [d \in Deliveries |-> IF d.n = 1 THEN 1 ELSE 0]

(* README, Retry Strategies: "Fibonacci sequence backoff (1s, 1s, 2s, 3s, 5s, 8s...)":
   a message that a handler fails now or after more deliveries, which other processes
   may have had, waits the multiple of the base that its strategy gives, up to the
   maximum: the closed formula agrees with the sequence at every delivery count. *)
BacksOff == \A m \in Messages, n \in 1 .. MaxDeliveries : n >= count[m] => IsExact[n]
=============================================================================
