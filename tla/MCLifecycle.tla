---------------------------- MODULE MCLifecycle ----------------------------
(***************************************************************************)
(* Instances of ServerLifecycle for TLC.                                   *)
(***************************************************************************)
EXTENDS ServerLifecycle, TLC

CONSTANTS c1, c2, c3, h1, h2

TwoConns    == {c1, c2}
ThreeConns  == {c1, c2, c3}
OneHandler  == {h1}
TwoHandlers == {h1, h2}

\* Connections and handlers are told apart by nothing but their names
Symmetry == Permutations(Conns) \cup Permutations(Handlers)
=============================================================================
