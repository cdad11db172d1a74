---------------------------- MODULE Settlement ----------------------------
(***************************************************************************)
(* What ServerNats promises for a message that a sender or a stream waits  *)
(* on: it is processed once, to one result, and then answered once; it is  *)
(* answered as a success only when the result is one.                      *)
(***************************************************************************)
CONSTANT Msgs  \* requests and JetStream messages

VARIABLES result,  \* what the processing of a message came to
          answer   \* the reply or the acknowledgement

Init ==
    /\ result = [m \in Msgs |-> "none"]
    /\ answer = [m \in Msgs |-> "none"]

Complete(m) ==
    /\ result[m] = "none"
    /\ \E r \in {"ok", "term", "error"} : result' = [result EXCEPT ![m] = r]
    /\ UNCHANGED answer

\* A reply that cannot be sent becomes an error reply
Answer(m) ==
    /\ answer[m] = "none" /\ result[m] # "none"
    /\ \E a \in {result[m], "error"} : answer' = [answer EXCEPT ![m] = a]
    /\ UNCHANGED result

Next == \E m \in Msgs : Complete(m) \/ Answer(m)

Spec == Init /\ [][Next]_<<result, answer>>
=============================================================================
