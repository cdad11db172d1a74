------------------------------ MODULE MCClient ------------------------------
(***************************************************************************)
(* Instances of ClientLifecycle for TLC.                                   *)
(***************************************************************************)
EXTENDS ClientLifecycle

CONSTANTS r1, r2, c1, c2, c3

TwoCalls   == {r1, r2}
TwoConns   == {c1, c2}
ThreeConns == {c1, c2, c3}
=============================================================================
