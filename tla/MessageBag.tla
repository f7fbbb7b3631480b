----------------------------- MODULE MessageBag -----------------------------
(***************************************************************************)
(* What nbus-mq promises of the messages it has saved: each stays until a  *)
(* poll is answered with it, and is answered once.  Only while the channel *)
(* is not linked (it has no id on the bus) may messages be discarded.  In  *)
(* which order, and whether a message received is saved at all, is left    *)
(* open.                                                                   *)
(***************************************************************************)
EXTENDS Integers, Sequences

CONSTANT Msgs

VARIABLES
  kept,       (* messages saved and not yet answered *)
  answered,   (* all answers, one after the other    *)
  linked      (* the channel can send                *)

Init == kept = {} /\ answered = <<>> /\ linked = FALSE

Save(m) ==
  /\ m \notin kept /\ \A i \in DOMAIN answered : answered[i] # m
  /\ kept' = kept \cup {m}
  /\ UNCHANGED <<answered, linked>>

(* One answer: some of the messages kept, each once.                       *)
New == Len(answered) + 1 .. Len(answered')

Answer ==
  /\ \A i \in DOMAIN answered : i \in DOMAIN answered' /\ answered'[i] = answered[i]
  /\ \A i, j \in New : answered'[i] = answered'[j] => i = j
  /\ \A i \in New : answered'[i] \in kept
  /\ kept' = kept \ {answered'[i] : i \in New}
  /\ UNCHANGED linked

Discard ==
  /\ ~linked
  /\ kept' \in SUBSET kept
  /\ UNCHANGED <<answered, linked>>

Link ==
  /\ linked' = ~linked
  /\ UNCHANGED <<kept, answered>>

Next == (\E m \in Msgs : Save(m)) \/ Answer \/ Discard \/ Link

Spec == Init /\ [][Next]_<<kept, answered, linked>>

=============================================================================
