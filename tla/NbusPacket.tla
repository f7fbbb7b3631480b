----------------------------- MODULE NbusPacket -----------------------------
(***************************************************************************)
(* nbus layer 3 (src/services/nbus): a packet is cut into a leading frame, *)
(* data frames of FragLen bytes and a trailing frame (nbus_channel_send),  *)
(* the frames cross a CAN bus that may lose them, nbus_receive_task feeds  *)
(* them to the reassembly state machine of the channel                     *)
(* (nbus_rxpacket_append), and an application thread fetches packets with  *)
(* nbus_channel_receive.                                                   *)
(*                                                                         *)
(* The receive task has the higher priority: it handles a frame without    *)
(* being interrupted, between any two steps of the application thread.     *)
(* Payload bytes are represented by the number of the packet they come     *)
(* from.                                                                   *)
(***************************************************************************)
EXTENDS Integers, Sequences, FiniteSets

CONSTANTS
  FragLen,         (* payload bytes of a data frame: 8                     *)
  MTU,             (* NBUS_CHANNEL_MTU of the receiver                     *)
  TxMTU,           (* NBUS_CHANNEL_MTU of the sender                       *)
  BufSize,         (* buffer that the application passes                   *)
  Lens, Eps,       (* packet lengths and endpoints in use                  *)
  MaxPackets,      (* bound: packets sent                                  *)
  MaxLost,         (* bound: frames lost                                   *)
  MaxTimeouts      (* bound: timeouts of the waiting application           *)

ASSUME NbusAssumption ==
  /\ FragLen \in Nat \ {0} /\ MTU \in Nat \ {0} /\ TxMTU \in Nat /\ BufSize \in Nat
  /\ Lens \subseteq Nat /\ Eps \subseteq Nat
  /\ MaxPackets \in Nat /\ MaxLost \in Nat /\ MaxTimeouts \in Nat

VARIABLES
  tx,        (* NbusTxPacket of the sender                                 *)
  packets,   (* ghost: every packet sent, in order                         *)
  wire,      (* frames on their way                                        *)
  lost,      (* ghost: the frames lost so far                              *)
  rx,        (* NbusRxPacket of the receiving channel; ghost: pkt, the     *)
             (* packet whose leading frame it took last                    *)
  done,      (* its binary semaphore                                       *)
  completed, (* ghost: every packet reassembled, in order                  *)
  app,       (* where the application thread is in nbus_channel_receive    *)
  copy,      (* the application's buffer, len and ep                       *)
  between,   (* ghost: payload bytes that the receive task took between    *)
             (* the check of packet_size and its use as the copied size    *)
  timeouts   (* timeouts so far                                            *)

txVars == <<tx, packets>>
busVars == <<wire, lost>>
rxVars == <<rx, done, completed>>
appVars == <<app, copy, between, timeouts>>
vars == <<txVars, busVars, rxVars, appVars>>

Smaller(a, b) == IF a <= b THEN a ELSE b

Leading(pkt, ep, len) == [op |-> "leading", pkt |-> pkt, ep |-> ep, len |-> len, frag |-> 0]
Data(pkt, frag, len) == [op |-> "data", pkt |-> pkt, ep |-> 0, len |-> len, frag |-> frag]
Trailing(pkt) == [op |-> "trailing", pkt |-> pkt, ep |-> 0, len |-> 0, frag |-> 0]

NoPacket == [state |-> "EMPTY", pkt |-> 0, ep |-> 0, len |-> 0, sent |-> 0, next_frag |-> 0]
NoCopy == [bytes |-> <<>>, size |-> 0, len |-> 0, ep |-> 0]

Init ==
  /\ tx = NoPacket /\ packets = <<>> /\ wire = <<>> /\ lost = {}
  /\ rx = [state |-> "READY", buf |-> [i \in 1 .. MTU |-> 0], packet_size |-> 0,
           expected_packet_size |-> 0, frame_expected |-> 0, ep |-> 0, pkt |-> 0]
  /\ done = FALSE /\ completed = <<>>
  /\ app = "idle" /\ copy = NoCopy /\ between = 0 /\ timeouts = 0

-----------------------------------------------------------------------------
(* The sender                                                              *)

(* nbus_channel_send up to its loop: nbus_txpacket_init and _buf_ref of    *)
(* the channel's txpacket.  The early returns (too long, or the channel    *)
(* has no valid id) leave everything as it is.  A channel is sent to by    *)
(* one thread.                                                             *)
Send(ep, len) ==
  /\ tx.state \in {"EMPTY", "DONE"}
  /\ Len(packets) < MaxPackets
  /\ len <= TxMTU
  /\ packets' = Append(packets, [ep |-> ep, len |-> len])
  /\ tx' = [state |-> "LEADING", pkt |-> Len(packets) + 1, ep |-> ep, len |-> len,
            sent |-> 0, next_frag |-> 0]
  /\ UNCHANGED <<busVars, rxVars, appVars>>

(* nbus_channel_send_frame: the loop goes on whether or not it succeeds.   *)
nbus_channel_send_frame(frame) ==
  \/ wire' = Append(wire, frame) /\ UNCHANGED lost
  \/ /\ lost' = lost \cup {frame}
     /\ Cardinality(lost) < MaxLost
     /\ UNCHANGED wire

FragmentLength_Untrimmed == FragLen
FragmentLength == Smaller(tx.len - tx.sent, FragLen)

(* nbus_txpacket_get_fragment, one turn of the loop per step.              *)
GetLeading ==
  /\ tx.state = "LEADING"
  /\ nbus_channel_send_frame(Leading(tx.pkt, tx.ep, tx.len))
  /\ tx' = [tx EXCEPT !.state = "DATA", !.sent = 0, !.next_frag = 0]
  /\ UNCHANGED <<packets, rxVars, appVars>>

GetData ==
  /\ tx.state = "DATA"
  /\ nbus_channel_send_frame(Data(tx.pkt, tx.next_frag, FragmentLength))
  /\ tx' = [tx EXCEPT !.sent = @ + FragmentLength, !.next_frag = @ + 1,
                      !.state = IF tx.sent + FragmentLength = tx.len THEN "TRAILING" ELSE @]
  /\ UNCHANGED <<packets, rxVars, appVars>>

GetTrailing ==
  /\ tx.state = "TRAILING"
  /\ nbus_channel_send_frame(Trailing(tx.pkt))
  /\ tx' = [tx EXCEPT !.state = "DONE"]
  /\ UNCHANGED <<packets, rxVars, appVars>>

-----------------------------------------------------------------------------
(* The receiver: nbus_rxpacket_append, case by case                        *)

(* A leading frame restarts reassembly whatever the state is.              *)
AppendLeading_NotDominant(f) ==
  IF rx.state \notin {"READY", "DONE", "INVALID"} \/ f.len > MTU THEN rx
  ELSE [rx EXCEPT !.state = "DATA", !.packet_size = 0, !.expected_packet_size = f.len,
                  !.frame_expected = 0, !.ep = f.ep, !.pkt = f.pkt]
AppendLeading_Unbounded(f) ==
  [rx EXCEPT !.state = "DATA", !.packet_size = 0, !.expected_packet_size = f.len,
             !.frame_expected = 0, !.ep = f.ep, !.pkt = f.pkt]
AppendLeading(f) ==
  IF f.len > MTU THEN [rx EXCEPT !.state = "READY"]
  ELSE [rx EXCEPT !.state = "DATA", !.packet_size = 0, !.expected_packet_size = f.len,
                  !.frame_expected = 0, !.ep = f.ep, !.pkt = f.pkt]

DataAccepted(f) ==
  /\ rx.state = "DATA"
  /\ rx.frame_expected = f.frag
  /\ rx.packet_size + f.len <= rx.expected_packet_size

AppendData(f) ==
  IF DataAccepted(f)
  THEN [rx EXCEPT !.buf = [i \in 1 .. MTU |-> IF i \in rx.packet_size + 1 .. rx.packet_size + f.len
                                              THEN f.pkt ELSE rx.buf[i]],
                  !.packet_size = @ + f.len,
                  !.frame_expected = @ + 1,
                  !.state = IF rx.packet_size + f.len = rx.expected_packet_size
                            THEN "TRAILING" ELSE @]
  ELSE rx

AppendTrailing(f) == [rx EXCEPT !.state = IF @ = "TRAILING" THEN "DONE" ELSE "INVALID"]

nbus_rxpacket_append(f) ==
  IF f.op = "leading" THEN AppendLeading(f)
  ELSE IF f.op = "data" THEN AppendData(f)
  ELSE AppendTrailing(f)

Gives_Never(f) == FALSE
Gives_Unchecked(f) == f.op = "trailing"
Gives(f) == f.op = "trailing" /\ rx.state = "TRAILING"

Reassembled ==
  [pkt |-> rx.pkt, ep |-> rx.ep, bytes |-> [i \in 1 .. rx.packet_size |-> rx.buf[i]]]

(* Payload bytes that the reassembly takes from a frame.                   *)
Taken(f) == IF f.op = "data" /\ DataAccepted(f) THEN f.len ELSE 0

(* nbus_receive_task: one frame.                                           *)
ReceiveFrame ==
  /\ wire # <<>>
  /\ rx' = nbus_rxpacket_append(Head(wire))
  /\ done' = (done \/ Gives(Head(wire)))
  /\ completed' = IF Gives(Head(wire)) THEN Append(completed, Reassembled) ELSE completed
  /\ wire' = Tail(wire)
  /\ between' = IF app = "checked" THEN between + Taken(Head(wire)) ELSE between
  /\ UNCHANGED <<txVars, lost, app, copy, timeouts>>

-----------------------------------------------------------------------------
(* The application: nbus_channel_receive                                   *)

(* nbus_rxpacket_wait: a packet that is already there is taken without     *)
(* taking the semaphore that was given for it.                             *)
WaitCall ==
  /\ app = "idle"
  /\ app' = IF rx.state = "DONE" THEN "ready" ELSE "blocked"
  /\ UNCHANGED <<txVars, busVars, rxVars, copy, between, timeouts>>

WaitTake ==
  /\ app = "blocked" /\ done
  /\ done' = FALSE
  /\ app' = "ready"
  /\ UNCHANGED <<txVars, busVars, rx, completed, copy, between, timeouts>>

WaitTimeout ==
  /\ app = "blocked" /\ ~done
  /\ timeouts < MaxTimeouts
  /\ timeouts' = timeouts + 1
  /\ app' = "idle"
  /\ UNCHANGED <<txVars, busVars, rxVars, copy, between>>

FitsCaller_NoCheck == TRUE
FitsCaller == rx.packet_size <= BufSize

(* Endpoint 0 is served by nbus_channel_process_cc in this thread, which   *)
(* sends a response if the request parses and runs.                        *)
ReceiveCc ==
  /\ app = "ready" /\ rx.ep = 0
  /\ app' = "reset"
  /\ copy' = NoCopy
  /\ UNCHANGED <<txVars, busVars, rxVars, between, timeouts>>

ReceiveUser ==
  /\ app = "ready" /\ rx.ep # 0
  /\ app' = "user"
  /\ UNCHANGED <<txVars, busVars, rxVars, copy, between, timeouts>>

(* A packet too big for the caller is dropped.                             *)
ReceiveBig ==
  /\ app = "user"
  /\ ~FitsCaller
  /\ app' = "reset"
  /\ copy' = NoCopy
  /\ UNCHANGED <<txVars, busVars, rxVars, between, timeouts>>

ReceiveFits ==
  /\ app = "user"
  /\ FitsCaller
  /\ app' = "checked"
  /\ between' = 0
  /\ UNCHANGED <<txVars, busVars, rxVars, copy, timeouts>>

(* memcpy: the size is read again, for its argument, and then the bytes    *)
(* are copied one by one.                                                  *)
ReceiveCopy ==
  /\ app = "checked"
  /\ copy' = [NoCopy EXCEPT !.size = rx.packet_size]
  /\ app' = "copy"
  /\ UNCHANGED <<txVars, busVars, rxVars, between, timeouts>>

CopyByte ==
  /\ app = "copy"
  /\ Len(copy.bytes) < copy.size
  /\ copy' = [copy EXCEPT !.bytes = Append(@, rx.buf[Len(@) + 1])]
  /\ UNCHANGED <<txVars, busVars, rxVars, app, between, timeouts>>

CopyLen ==
  /\ app = "copy"
  /\ Len(copy.bytes) = copy.size
  /\ copy' = [copy EXCEPT !.len = rx.packet_size, !.ep = rx.ep]
  /\ app' = "reset"
  /\ UNCHANGED <<txVars, busVars, rxVars, between, timeouts>>

nbus_rxpacket_reset_Forgotten == rx
nbus_rxpacket_reset == [rx EXCEPT !.state = "READY"]

(* nbus_rxpacket_reset, and the return to the caller.                      *)
Reset ==
  /\ app = "reset"
  /\ rx' = nbus_rxpacket_reset
  /\ app' = IF copy = NoCopy THEN "idle" ELSE "returned"
  /\ UNCHANGED <<txVars, busVars, done, completed, copy, between, timeouts>>

(* The caller (nbus_task of a service) answers and calls again.            *)
Respond ==
  /\ app = "returned"
  /\ copy' = NoCopy
  /\ app' = "idle"
  /\ UNCHANGED <<txVars, busVars, rxVars, between, timeouts>>

ReceiverStep ==
  \/ ReceiveFrame
  \/ WaitCall \/ WaitTake
  \/ ReceiveCc \/ ReceiveUser \/ ReceiveBig \/ ReceiveFits \/ ReceiveCopy \/ CopyByte \/ CopyLen
  \/ Reset \/ Respond

Next ==
  \/ \E ep \in Eps, len \in Lens : Send(ep, len)
  \/ GetLeading \/ GetData \/ GetTrailing
  \/ WaitTimeout
  \/ ReceiverStep

Spec == Init /\ [][Next]_vars

(* Tasks are scheduled: whoever can run keeps running.                     *)
FairSpec == Spec /\ WF_vars(ReceiveFrame) /\ WF_vars(ReceiverStep)

-----------------------------------------------------------------------------
(* Properties                                                              *)

Frame == [op : {"leading", "data", "trailing"}, pkt : Nat, ep : Nat, len : Nat, frag : Nat]

(* The fields of both packet structures keep their types; the sender never *)
(* counts more bytes than the packet has (size_t would wrap).              *)
TypeOK ==
  /\ tx \in [state : {"EMPTY", "LEADING", "DATA", "TRAILING", "DONE"}, pkt : Nat, ep : Nat,
             len : Nat, sent : Nat, next_frag : Nat]
  /\ tx.sent <= tx.len
  /\ packets \in Seq([ep : Nat, len : Nat])
  /\ wire \in Seq(Frame) /\ lost \subseteq Frame
  /\ rx \in [state : {"READY", "DATA", "TRAILING", "DONE", "INVALID"}, buf : [1 .. MTU -> Nat],
             packet_size : Nat, expected_packet_size : Nat, frame_expected : Nat, ep : Nat,
             pkt : Nat]
  /\ done \in BOOLEAN
  /\ completed \in Seq([pkt : Nat, ep : Nat, bytes : Seq(Nat)])
  /\ app \in {"idle", "blocked", "ready", "user", "checked", "copy", "reset", "returned"}
  /\ copy \in [bytes : Seq(Nat), size : Nat, len : Nat, ep : Nat]
  /\ between \in Nat /\ timeouts \in Nat

(***************************************************************************)
(* nbus_rxpacket_append never writes past the malloc'ed reassembly buffer, *)
(* whichever frames of whichever packets reach it: the received size stays *)
(* within the announced one, and that within the MTU.                      *)
(***************************************************************************)
RxBounded ==
  /\ rx.packet_size <= rx.expected_packet_size
  /\ rx.expected_packet_size <= MTU

(***************************************************************************)
(* nbus_channel_receive checks packet_size against the caller's buffer and *)
(* reads it again for memcpy, without a lock.  Whatever the receive task   *)
(* does in between, the copy stays inside the reassembly buffer, and it    *)
(* exceeds the caller's buffer by at most the payload that was reassembled *)
(* between those two reads: not at all when there was none.                *)
(***************************************************************************)
CopyBounded ==
  /\ Len(copy.bytes) <= copy.size
  /\ copy.size <= MTU
  /\ copy.size <= BufSize + between

(* A data frame and the trailing frame of packet n and the leading frame   *)
(* of the next packet are lost.                                            *)
Blurred(n) ==
  /\ \E f \in lost : f.op = "data" /\ f.pkt = n
  /\ \E f \in lost : f.op = "trailing" /\ f.pkt = n
  /\ \E f \in lost : f.op = "leading" /\ f.pkt = n + 1

(***************************************************************************)
(* A reassembled packet has the endpoint and the length of one packet that *)
(* was sent, and it consists of that packet's bytes.  Nothing checks the   *)
(* MAC of the trailing frame, so there is one exception, and only one:     *)
(* when a data frame and the trailing frame of the packet and the next     *)
(* leading frame are all lost, bytes of later packets may take the place   *)
(* of the missing ones.                                                    *)
(***************************************************************************)
DoneIsWhole ==
  rx.state = "DONE" =>
    \E p \in DOMAIN packets :
      /\ packets[p] = [ep |-> rx.ep, len |-> rx.packet_size]
      /\ \A i \in 1 .. rx.packet_size : rx.buf[i] = p \/ (rx.buf[i] > p /\ Blurred(p))

Channel == INSTANCE LossyChannel
             WITH sent <- packets, delivered <- completed,
                  blurred <- {n \in DOMAIN packets : Blurred(n)}

(***************************************************************************)
(* Between nbus_channel_send and the reassembly, packets get lost but are  *)
(* neither cut, duplicated nor reordered, nor mixed, other than by the     *)
(* three losses of Blurred.                                                *)
(***************************************************************************)
ImplementsLossyChannel == Channel!Spec

(***************************************************************************)
(* No lost wake-up: a thread never sleeps in nbus_rxpacket_wait while a    *)
(* complete packet is there and its semaphore has not been given.          *)
(***************************************************************************)
NoLostWakeup == ~(app = "blocked" /\ rx.state = "DONE" /\ ~done)

(***************************************************************************)
(* A complete packet does not occupy the only reassembly buffer for ever:  *)
(* the application takes it or the next leading frame displaces it.        *)
(***************************************************************************)
PacketTaken == (rx.state = "DONE") ~> (rx.state # "DONE")

=============================================================================
