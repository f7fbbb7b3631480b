--------------------------- MODULE MCNbusChannels ---------------------------
(* Three channels on two nodes.  The first hashes of c1 and c3 coincide,   *)
(* both retreat to the id of c2, and c3 meets c1 again after that.         *)
EXTENDS NbusChannels, TLC

CONSTANTS n1, n2, c1, c2, c3

MCOwner == (c1 :> n1) @@ (c2 :> n1) @@ (c3 :> n2)

Chain(c, id) ==
  IF id = 0 THEN IF c = c2 THEN 2 ELSE 1
  ELSE IF c = c1 THEN (id % 3) + 1
  ELSE IF c = c2 THEN IF id = 2 THEN 4 ELSE 2
  ELSE IF id = 1 THEN 2 ELSE 3
MCHash == [x \in Channels \X Ids |-> Chain(x[1], x[2])]
=============================================================================
