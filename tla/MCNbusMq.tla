------------------------------ MODULE MCNbusMq ------------------------------
(* The module TLC runs: NbusMq with the constants of a configuration.      *)
EXTENDS NbusMq
=============================================================================
