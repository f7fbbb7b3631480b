---------------------------- MODULE LossyChannel ----------------------------
(***************************************************************************)
(* What a channel of nbus promises: packets are delivered with their       *)
(* endpoint and length, in the order in which they were sent and at most   *)
(* once; any of them may be missing.  A packet is delivered whole unless   *)
(* losses have blurred its border with the next one; then bytes of later   *)
(* packets may stand in it.  Bytes are represented by the number of the    *)
(* packet they come from.                                                  *)
(***************************************************************************)
EXTENDS Integers, Sequences

CONSTANTS Eps, Lens    (* endpoints and packet lengths *)

VARIABLES sent, delivered, blurred

Init == sent = <<>> /\ delivered = <<>> /\ blurred = {}

Submit(ep, len) ==
  /\ sent' = Append(sent, [ep |-> ep, len |-> len])
  /\ UNCHANGED <<delivered, blurred>>

Blur(n) ==
  /\ blurred' = blurred \cup {n}
  /\ UNCHANGED <<sent, delivered>>

(* The packets of which a byte of packet n may come out.                   *)
Origin(n) == IF n \in blurred THEN n .. Len(sent) ELSE {n}

Deliver(n) ==
  /\ \A i \in DOMAIN delivered : delivered[i].pkt < n
  /\ \E bytes \in [1 .. sent[n].len -> Origin(n)] :
       delivered' = Append(delivered, [pkt |-> n, ep |-> sent[n].ep, bytes |-> bytes])
  /\ UNCHANGED <<sent, blurred>>

Next ==
  \/ \E ep \in Eps, len \in Lens : Submit(ep, len)
  \/ \E n \in DOMAIN sent : Blur(n) \/ Deliver(n)

Spec == Init /\ [][Next]_<<sent, delivered, blurred>>

=============================================================================
