---------------------------- MODULE MCProcessing ----------------------------
(***************************************************************************)
(* Instances of MessageProcessing for TLC: a request beside a message of   *)
(* each other path.                                                        *)
(***************************************************************************)
EXTENDS MessageProcessing, TLC

CONSTANTS m1, m2

TwoMessages == {m1, m2}
BesideARequest == {m1 :> p @@ m2 :> "request" : p \in {"event", "jetstream"}}
=============================================================================
