------------------------------ MODULE MCSetup ------------------------------
(***************************************************************************)
(* Two services that share a stream and a consumer: replicas of one        *)
(* service, of which one is deployed again with another version.           *)
(***************************************************************************)
EXTENDS ServiceSetup

Handler(id, pattern, event, extras) == [id |-> id, pattern |-> pattern, event |-> event, extras |-> extras]
Stream(name, config) == [name |-> name, config |-> config]
Version(jetStream, handlers, globals, configs) ==
  [consumerName |-> "g", jetStream |-> jetStream, handlers |-> handlers,
   globalEventOptions |-> globals, streams |-> configs]

MCDefaults == [subjects |-> {}, max_age |-> "default", num_replicas |-> "default"]
MCStreamNames == {"ORDERS", "LOGS"}

Orders(extras) == Handler("orders", "orders", TRUE, extras)
Plain == [ack_wait |-> "long", nak_delay |-> "long"]

V1 == Version(TRUE, {Orders([ack_wait |-> "short", headers_only |-> "yes", max_handlers |-> "five"])}, Plain,
        <<Stream("ORDERS", [subjects |-> {"orders"}, max_age |-> "day"])>>)
V2 == Version(TRUE,
        {Orders([ack_wait |-> "unset", headers_only |-> "falsy",
                 deliver_policy |-> "by_sequence", opt_start_seq |-> "ten"]),
         Handler("logs", "logs", TRUE, [max_deliver |-> "falsy"])}, Plain,
        <<Stream("LOGS", [subjects |-> {"logs"}]), Stream("ORDERS", [num_replicas |-> "three"])>>)
(* An event handler and an RPC handler of one pattern *)
V3 == Version(TRUE, {Orders(Plain), Handler("rpc", "orders", FALSE, Plain)}, Plain, <<>>)
(* Two event handlers of one pattern, with JetStream and without *)
V4 == Version(TRUE, {Orders(Plain), Handler("second", "orders", TRUE, Plain)}, Plain, <<>>)
V5 == [V4 EXCEPT !.jetStream = FALSE,
                 !.handlers = @ \cup {Handler("rpc", "logs", FALSE, Plain)}]
(* Two RPC handlers of one pattern *)
V6 == Version(FALSE, {Handler("rpc", "logs", FALSE, Plain), Handler("again", "logs", FALSE, Plain)}, Plain, <<>>)

MCVersions == {V1, V2, V3, V4, V5, V6}
MCServices == {"A", "B"}
MCDeployed == [s \in MCServices |-> IF s = "A" THEN V1 ELSE V2]
=============================================================================
