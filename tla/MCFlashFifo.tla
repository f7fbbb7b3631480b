---------------------------- MODULE MCFlashFifo ----------------------------
(* Instances of FlashFifo for TLC; the cfg files choose the constants.     *)
EXTENDS FlashFifo

=============================================================================
