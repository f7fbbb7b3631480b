---------------------------- MODULE MCNbusSwitch ----------------------------
(* The module TLC runs: NbusSwitch with the constants of a configuration.  *)
EXTENDS NbusSwitch
=============================================================================
