---------------------------- MODULE MCNbusPacket ----------------------------
(* The module TLC runs: NbusPacket with the constants of a configuration.  *)
EXTENDS NbusPacket
=============================================================================
