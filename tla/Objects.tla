------------------------------- MODULE Objects -------------------------------
(***************************************************************************)
(* JavaScript objects and Maps as functions from the names of their        *)
(* fields, or their keys.                                                  *)
(***************************************************************************)

(* { ...object, ...fields } *)
Spread(object, fields) ==
  [f \in DOMAIN object \cup DOMAIN fields |-> IF f \in DOMAIN fields THEN fields[f] ELSE object[f]]

(* map.set(key, value) *)
Put(map, key, value) == [k \in DOMAIN map \cup {key} |-> IF k = key THEN value ELSE map[k]]
=============================================================================
