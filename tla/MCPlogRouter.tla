---------------------------- MODULE MCPlogRouter ----------------------------
(* A source that publishes, a relay that subscribes and publishes, and a   *)
(* sink that subscribes: the roles of mq-sensor-source, mq-batch, nbus-mq. *)
EXTENDS PlogRouter

CONSTANTS source, relay, sink

MCMatches == [x \in Filters \X Topics |-> x[1] = x[2]]
MCMaxMsgs == [c \in Clients |-> IF c = source THEN 2 ELSE IF c = relay THEN 1 ELSE 0]
MCMaxFilters == [c \in Clients |-> IF c = source THEN 0 ELSE IF c = relay THEN 1 ELSE 2]
=============================================================================
