----------------------------- MODULE MCMessages -----------------------------
(***************************************************************************)
(* A gateway and two services that call one another: one with the request  *)
(* context and the exception filter of the package, one without either.    *)
(***************************************************************************)
EXTENDS MessagePath

MCServices == {"gateway", "orders", "billing"}
MCCalls == {<<"gateway", "orders">>, <<"orders", "billing">>, <<"billing", "orders">>}
MCRequestContext == [s \in MCServices |-> [client |-> s # "billing", server |-> s # "billing"]]
MCFilter == [s \in MCServices |-> s = "orders"]
MCExplicit == {[k \in {"X-Trace-Id"} |-> "own"],
               [k \in {TRACE, "X-Request-Id"} |-> IF k = TRACE THEN "empty" ELSE "own"]}

Meant(message, errorCode, statusCode, errors) ==
  [message |-> message, errorCode |-> errorCode, statusCode |-> statusCode, errors |-> errors]
Error(thrown, meant) == [thrown |-> thrown, meant |-> meant]

NotFound == Exception("not found", "NOT_FOUND", "404", "details")
MCErrors == {
  Error(Thrown("string", [message |-> "text"]), Meant("text", "none", "none", "none")),
  Error(Thrown("object", [message |-> "falsy", statusCode |-> "falsy", status |-> "404"]), Meant("Unknown error", "none", "404", "none")),
  Error(Thrown("object", [message |-> "text", statusCode |-> "ERR_1"]), Meant("text", "none", "none", "none")),
  Error(RpcException(NotFound), Meant("not found", "NOT_FOUND", "404", "details"))}
=============================================================================
