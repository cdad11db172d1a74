------------------------------ MODULE RpcErrors ------------------------------
(***************************************************************************)
(* An error on its way from the handler of one service to the caller in    *)
(* another: NatsRpcException, the interceptor, the exception filter, the   *)
(* JSON of the reply and request() of the client.                          *)
(*                                                                         *)
(* A thrown value is a record with a `kind`: "string", "other" (undefined, *)
(* a number), "exception" (a NatsRpcException) or "object" (any other      *)
(* error or object).  Its fields are "none" when they are undefined and    *)
(* "falsy" when they are 0 or ""; `error` is the set of the object that it *)
(* wraps, empty when that is no object.                                    *)
(***************************************************************************)
EXTENDS Objects

Thrown(kind, given) ==
  Spread([kind |-> kind, message |-> "none", errorCode |-> "none", statusCode |-> "none",
          status |-> "none", errors |-> "none", error |-> {}], given)

OrElse(value, default) == IF value \in {"none", "falsy"} THEN default ELSE value

(* Status codes that are numbers; in some errors they are strings.         *)
Numbers == {"404", "400", "500"}

Exception(message, errorCode, statusCode, errors) ==
  Thrown("exception", [message |-> message, errorCode |-> errorCode,
                       statusCode |-> statusCode, errors |-> errors])

Inside(obj) == CHOOSE error \in obj.error : TRUE

(* Mutant: the error inside an RpcException is not looked at.              *)
SourceIsOuter(obj) == obj

(* The error that an RpcException wraps counts.                            *)
Source(obj) == IF obj.error # {} THEN Inside(obj) ELSE obj

AssignFromObject(obj) ==
  LET source == Source(obj)
      statusCode == OrElse(source.statusCode, source.status)
  IN Exception(OrElse(source.message, "Unknown error"), OrElse(source.errorCode, "none"),
               IF statusCode \in Numbers THEN statusCode ELSE "none", OrElse(source.errors, "none"))

(* new NatsRpcException(err) *)
NatsRpcException(err) ==
  CASE err.kind = "exception" -> err
    [] err.kind = "string" -> Exception(err.message, "none", "none", "none")
    [] err.kind = "object" -> AssignFromObject(err)
    [] err.kind = "other" -> Exception("Unknown error", "none", "none", "none")

(* RpcException of NestJS: it has the message of what it wraps.            *)
RpcException(error) == Thrown("object", [message |-> error.message, error |-> {error}])

(* NatsRpcExceptionInterceptor *)
Intercept(err) == RpcException(NatsRpcException(err))

(* NatsRpcExceptionFilter sends the RpcException as it is, and the filter  *)
(* of NestJS the error inside it.                                          *)
Caught(exception, filter) == IF filter THEN exception ELSE Inside(exception)

(* The reply is JSON: no exception arrives as one.                         *)
Json(value) ==
  LET plain(v) == IF v.kind = "exception" THEN [v EXCEPT !.kind = "object"] ELSE v
  IN [plain(value) EXCEPT !.error = {plain(error) : error \in value.error}]

(* errorReply(): what the library answers to a request it cannot process   *)
ErrorReply(statusCode) == Thrown("object", [message |-> "reason", statusCode |-> statusCode])

(* request() of the client rethrows what arrives.                          *)
Arrives(reply) == NatsRpcException(Json(reply))
=============================================================================
