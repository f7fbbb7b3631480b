---------------------------- MODULE DurableFifo ----------------------------
(***************************************************************************)
(* What the flash-fifo service promises its users: a bounded queue of      *)
(* bytes that survives power failures.  A producer appends at the end, a   *)
(* consumer removes whole chunks (flash blocks) from the front, and        *)
(* nothing else, a restart included, ever changes it.                      *)
(***************************************************************************)
EXTENDS Integers, Sequences

CONSTANTS
  Chunk,      (* bytes removed at once: the payload of a flash block       *)
  Capacity,   (* most bytes the queue can hold                             *)
  Bytes       (* values an appended byte may have                          *)

VARIABLE queue

Init == queue = <<>>

AppendBytes(old, new) ==
  /\ Len(old) < Len(new) /\ Len(new) <= Capacity
  /\ SubSeq(new, 1, Len(old)) = old
  /\ \A i \in Len(old) + 1 .. Len(new) : new[i] \in Bytes

Remove(old, new) ==
  /\ Len(old) >= Chunk
  /\ new = SubSeq(old, Chunk + 1, Len(old))

Next == \E old \in {queue}, new \in {queue'} : AppendBytes(old, new) \/ Remove(old, new)

Spec == Init /\ [][Next]_queue

=============================================================================
