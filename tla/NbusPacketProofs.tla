-------------------------- MODULE NbusPacketProofs --------------------------
(***************************************************************************)
(* Theorems about NbusPacket, for every fragment length, MTU, set of       *)
(* packet lengths and pattern of lost frames.                              *)
(***************************************************************************)
EXTENDS NbusPacket, TLAPS

RxStates == {"READY", "DATA", "TRAILING", "DONE", "INVALID"}
RxType == [state : RxStates, buf : [1 .. MTU -> Nat], packet_size : Nat,
           expected_packet_size : Nat, frame_expected : Nat, ep : Nat, pkt : Nat]

(* The reassembly state machine keeps its type and its bounds, for any     *)
(* frame at all.                                                           *)
LEMMA AppendBounded ==
  ASSUME rx \in RxType, RxBounded, NEW f \in Frame,
         rx' = nbus_rxpacket_append(f)
  PROVE  rx' \in RxType /\ RxBounded'
<1>0. MTU \in Nat
  BY NbusAssumption
<1>f. f.len \in Nat /\ f.pkt \in Nat /\ f.ep \in Nat /\ f.frag \in Nat
  BY DEF Frame
<1>1. CASE f.op = "leading"
  <2>1. rx' = AppendLeading(f)
    BY <1>1 DEF nbus_rxpacket_append
  <2>2. CASE f.len > MTU
    BY <2>1, <2>2 DEF AppendLeading, RxType, RxStates, RxBounded
  <2>3. CASE ~(f.len > MTU)
    <3>1. rx' = [rx EXCEPT !.state = "DATA", !.packet_size = 0, !.expected_packet_size = f.len,
                           !.frame_expected = 0, !.ep = f.ep, !.pkt = f.pkt]
      BY <2>1, <2>3 DEF AppendLeading
    <3>2. rx' \in RxType
      <4>1. rx.buf \in [1 .. MTU -> Nat]
        BY DEF RxType
      <4>2. rx' = [state |-> "DATA", buf |-> rx.buf, packet_size |-> 0,
                   expected_packet_size |-> f.len, frame_expected |-> 0, ep |-> f.ep,
                   pkt |-> f.pkt]
        BY <3>1 DEF RxType
      <4> QED BY <1>f, <4>1, <4>2 DEF RxType, RxStates
    <3>3. rx'.packet_size = 0 /\ rx'.expected_packet_size = f.len
      BY <3>1 DEF RxType
    <3>4. f.len <= MTU /\ 0 <= f.len
      BY <1>0, <1>f, <2>3
    <3> QED BY <3>2, <3>3, <3>4 DEF RxBounded
  <2> QED BY <2>2, <2>3
<1>2. CASE f.op = "data"
  <2>1. rx' = AppendData(f)
    BY <1>2 DEF nbus_rxpacket_append
  <2>2. CASE DataAccepted(f)
    <3> DEFINE newbuf == [i \in 1 .. MTU |->
                            IF i \in rx.packet_size + 1 .. rx.packet_size + f.len
                            THEN f.pkt ELSE rx.buf[i]]
               newstate == IF rx.packet_size + f.len = rx.expected_packet_size
                           THEN "TRAILING" ELSE rx.state
    <3>1. newbuf \in [1 .. MTU -> Nat]
      BY <1>0, <1>f DEF RxType
    <3>2. newstate \in RxStates
      BY DEF RxType, RxStates
    <3>3. rx' = [rx EXCEPT !.buf = newbuf, !.packet_size = rx.packet_size + f.len,
                           !.frame_expected = rx.frame_expected + 1, !.state = newstate]
      BY <2>1, <2>2 DEF AppendData
    <3>x. rx.packet_size + f.len \in Nat /\ rx.frame_expected + 1 \in Nat
      BY <1>f DEF RxType
    <3> HIDE DEF newbuf, newstate
    <3>4. rx' \in RxType
      BY <3>x, <3>1, <3>2, <3>3 DEF RxType
    <3>5. rx'.packet_size <= rx'.expected_packet_size
      BY <2>2, <3>3, <1>f DEF RxType, DataAccepted
    <3>6. rx'.expected_packet_size <= MTU
      BY <3>3 DEF RxType, RxBounded
    <3> QED BY <3>4, <3>5, <3>6 DEF RxBounded
  <2>3. CASE ~DataAccepted(f)
    BY <2>1, <2>3 DEF AppendData, RxBounded
  <2> QED BY <2>2, <2>3
<1>3. CASE f.op # "leading" /\ f.op # "data"
  BY <1>3 DEF nbus_rxpacket_append, AppendTrailing, RxType, RxStates, RxBounded
<1> QED BY <1>1, <1>2, <1>3

(* A frame adds to the received size at most the payload taken from it.    *)
LEMMA AppendGrows ==
  ASSUME rx \in RxType, NEW f \in Frame, rx' = nbus_rxpacket_append(f)
  PROVE  Taken(f) \in Nat /\ rx'.packet_size <= rx.packet_size + Taken(f)
<1>f. f.len \in Nat /\ rx.packet_size \in Nat
  BY DEF Frame, RxType
<1>1. Taken(f) \in Nat
  BY <1>f DEF Taken
<1>2. CASE f.op = "leading"
  <2>1. rx'.packet_size = rx.packet_size \/ rx'.packet_size = 0
    BY <1>2 DEF nbus_rxpacket_append, AppendLeading, RxType
  <2> QED BY <1>f, <1>1, <2>1
<1>3. CASE f.op = "data" /\ DataAccepted(f)
  <2>1. rx'.packet_size = rx.packet_size + f.len /\ Taken(f) = f.len
    BY <1>3 DEF nbus_rxpacket_append, AppendData, RxType, Taken
  <2> QED BY <1>f, <2>1
<1>4. CASE f.op # "leading" /\ ~(f.op = "data" /\ DataAccepted(f))
  <2>1. rx'.packet_size = rx.packet_size
    BY <1>4 DEF nbus_rxpacket_append, AppendData, AppendTrailing, RxType
  <2> QED BY <1>f, <1>1, <2>1
<1> QED BY <1>1, <1>2, <1>3, <1>4

(* A frame put on the bus keeps the bus a sequence of frames.              *)
LEMMA SendFrameType ==
  ASSUME wire \in Seq(Frame), lost \subseteq Frame, NEW f \in Frame,
         nbus_channel_send_frame(f)
  PROVE  wire' \in Seq(Frame) /\ lost' \subseteq Frame
<1>1. CASE wire' = Append(wire, f) /\ UNCHANGED lost
  <2>1. Append(wire, f) \in Seq(Frame)
    OBVIOUS
  <2> QED BY <1>1, <2>1
<1>2. CASE lost' = lost \cup {f} /\ UNCHANGED wire
  BY <1>2
<1> QED BY <1>1, <1>2 DEF nbus_channel_send_frame

TxStates == {"EMPTY", "LEADING", "DATA", "TRAILING", "DONE"}
TxType == [state : TxStates, pkt : Nat, ep : Nat, len : Nat, sent : Nat, next_frag : Nat]
CopyType == [bytes : Seq(Nat), size : Nat, len : Nat, ep : Nat]
Completed == [pkt : Nat, ep : Nat, bytes : Seq(Nat)]

AppStates == {"idle", "blocked", "ready", "user", "checked", "copy", "reset", "returned"}

(* Nothing is copied before the check, and between the check and the copy  *)
(* the received size has grown by no more than what came in.               *)
Watched ==
  /\ app \in {"idle", "blocked", "ready", "user", "checked"} => copy.size = 0
  /\ app = "checked" => rx.packet_size <= BufSize + between

Inv == TypeOK /\ RxBounded /\ CopyBounded /\ Watched

(* What the receive task records of a packet is a packet.                  *)
LEMMA ReassembledType ==
  ASSUME rx \in RxType, RxBounded, completed \in Seq(Completed)
  PROVE  Append(completed, Reassembled) \in Seq(Completed)
<1> DEFINE bytes == [i \in 1 .. rx.packet_size |-> rx.buf[i]]
<1>1. /\ rx.packet_size \in Nat /\ rx.expected_packet_size \in Nat /\ MTU \in Nat
      /\ rx.buf \in [1 .. MTU -> Nat] /\ rx.pkt \in Nat /\ rx.ep \in Nat
  BY NbusAssumption DEF RxType
<1>2. bytes \in Seq(Nat)
  <2>1. \A i \in 1 .. rx.packet_size : rx.buf[i] \in Nat
    BY <1>1 DEF RxBounded
  <2>2. PICK n \in Nat : n = rx.packet_size
    BY <1>1
  <2>3. bytes \in [1 .. n -> Nat]
    BY <2>1, <2>2
  <2> HIDE DEF bytes
  <2> QED BY <2>3
<1> HIDE DEF bytes
<1>3. [pkt |-> rx.pkt, ep |-> rx.ep, bytes |-> bytes] \in Completed
  BY <1>1, <1>2 DEF Completed
<1>4. Reassembled \in Completed
  BY <1>3 DEF Reassembled, bytes
<1> QED BY <1>4

LEMMA InvInit == Init => Inv
<1> SUFFICES ASSUME Init PROVE Inv
  OBVIOUS
<1>1. TypeOK
  <2>1. tx \in TxType /\ tx.sent <= tx.len
    BY DEF Init, NoPacket, TxType, TxStates
  <2>2. [i \in 1 .. MTU |-> 0] \in [1 .. MTU -> Nat]
    OBVIOUS
  <2>3. rx \in RxType
    BY <2>2 DEF Init, RxType, RxStates
  <2>4. copy \in CopyType
    BY DEF Init, NoCopy, CopyType
  <2>5. done \in BOOLEAN
    BY Zenon DEF Init
  <2>6. /\ packets \in Seq([ep : Nat, len : Nat]) /\ wire \in Seq(Frame) /\ lost \subseteq Frame
        /\ app = "idle" /\ between \in Nat /\ timeouts \in Nat
        /\ completed \in Seq(Completed)
    BY DEF Init
  <2> QED BY <2>1, <2>3, <2>4, <2>5, <2>6
          DEF TypeOK, TxType, TxStates, RxType, RxStates, CopyType, Completed
<1>2. RxBounded
  BY NbusAssumption DEF Init, RxBounded
<1>3. CopyBounded
  BY NbusAssumption DEF Init, CopyBounded, NoCopy
<1>4. Watched
  BY DEF Init, Watched, NoCopy
<1> QED BY <1>1, <1>2, <1>3, <1>4 DEF Inv

LEMMA InvNext == Inv /\ [Next]_vars => Inv'
<1> SUFFICES ASSUME TypeOK, RxBounded, CopyBounded, Watched, [Next]_vars
             PROVE  TypeOK' /\ RxBounded' /\ CopyBounded' /\ Watched'
  BY DEF Inv
<1> USE DEF txVars, busVars, rxVars, appVars
<1>t. /\ tx \in TxType
      /\ tx.sent <= tx.len
      /\ packets \in Seq([ep : Nat, len : Nat])
      /\ wire \in Seq(Frame) /\ lost \subseteq Frame
  BY DEF TypeOK, TxType, TxStates, CopyType
<1>r. /\ rx \in RxType /\ done \in BOOLEAN
      /\ completed \in Seq(Completed)
  BY DEF TypeOK, RxType, RxStates, Completed
<1>p. /\ app \in AppStates
      /\ copy \in CopyType
      /\ between \in Nat /\ timeouts \in Nat
  BY DEF TypeOK, TxType, TxStates, CopyType, AppStates
<1>k. ASSUME tx' \in TxType, tx'.sent <= tx'.len, packets' \in Seq([ep : Nat, len : Nat]),
             wire' \in Seq(Frame), lost' \subseteq Frame, rx' \in RxType, done' \in BOOLEAN,
             completed' \in Seq(Completed), copy' \in CopyType, between' \in Nat,
             timeouts' \in Nat, app' \in AppStates
      PROVE  TypeOK'
  BY <1>k DEF TypeOK, TxType, TxStates, RxType, RxStates, Completed, CopyType, AppStates
<1>n. /\ NoCopy \in CopyType
      /\ Len(NoCopy.bytes) = 0 /\ NoCopy.size = 0
  BY DEF NoCopy, CopyType
<1>b. copy' = NoCopy /\ between' \in Nat => CopyBounded'
  BY <1>n, NbusAssumption DEF CopyBounded
<1>w. UNCHANGED <<rx, app, copy, between>> => RxBounded' /\ CopyBounded' /\ Watched'
  BY DEF RxBounded, CopyBounded, Watched
<1>1. ASSUME NEW ep \in Eps, NEW len \in Lens, Send(ep, len) PROVE TypeOK' /\ RxBounded' /\ CopyBounded' /\ Watched'
  <2>1. ep \in Nat /\ len \in Nat /\ Len(packets) \in Nat
    BY <1>t, NbusAssumption
  <2>2. packets' \in Seq([ep : Nat, len : Nat])
    BY <1>t, <1>1, <2>1 DEF Send
  <2>3. tx' \in TxType /\ tx'.sent <= tx'.len
    BY <1>1, <2>1 DEF Send, TxType, TxStates
  <2> QED BY <1>t, <1>p, <1>r, <1>1, <2>2, <2>3, <1>k, <1>w DEF Send
<1>2. CASE GetLeading
  <2>1. Leading(tx.pkt, tx.ep, tx.len) \in Frame
    BY <1>t DEF Leading, Frame, TxType
  <2>2. wire' \in Seq(Frame) /\ lost' \subseteq Frame
    BY <1>t, <1>2, <2>1, SendFrameType DEF GetLeading
  <2>3. tx' \in TxType /\ tx'.sent <= tx'.len
    <3>1. tx' = [tx EXCEPT !.state = "DATA", !.sent = 0, !.next_frag = 0]
      BY <1>2 DEF GetLeading
    <3>2. tx' \in TxType
      BY <1>t, <3>1 DEF TxType, TxStates
    <3>3. tx'.sent = 0 /\ tx'.len = tx.len /\ tx.len \in Nat
      BY <1>t, <3>1 DEF TxType
    <3> QED BY <3>2, <3>3
  <2>4. UNCHANGED <<packets, rxVars, appVars>>
    BY <1>2 DEF GetLeading
  <2> QED BY <1>t, <1>p, <1>r, <2>2, <2>3, <2>4, <1>k, <1>w
<1>3. CASE GetData
  <2>0. FragmentLength \in Nat /\ tx.sent + FragmentLength <= tx.len
    BY <1>t, NbusAssumption DEF FragmentLength, Smaller, TxType
  <2>1. Data(tx.pkt, tx.next_frag, FragmentLength) \in Frame
    BY <1>t, <2>0 DEF Data, Frame, TxType
  <2>2. wire' \in Seq(Frame) /\ lost' \subseteq Frame
    BY <1>t, <1>3, <2>1, SendFrameType DEF GetData
  <2>3. tx' \in TxType /\ tx'.sent <= tx'.len
    <3> DEFINE newstate == IF tx.sent + FragmentLength = tx.len THEN "TRAILING" ELSE tx.state
    <3>1. tx' = [tx EXCEPT !.sent = tx.sent + FragmentLength, !.next_frag = tx.next_frag + 1,
                           !.state = newstate]
      BY <1>3 DEF GetData
    <3>2. newstate \in TxStates
      BY <1>t DEF TxType, TxStates
    <3>3. tx.sent + FragmentLength \in Nat /\ tx.next_frag + 1 \in Nat
      BY <1>t, <2>0 DEF TxType
    <3> HIDE DEF newstate
    <3>4. tx' \in TxType
      BY <1>t, <3>1, <3>2, <3>3 DEF TxType
    <3>5. tx'.sent = tx.sent + FragmentLength /\ tx'.len = tx.len
      BY <1>t, <3>1 DEF TxType
    <3> QED BY <2>0, <3>4, <3>5
  <2>4. UNCHANGED <<packets, rxVars, appVars>>
    BY <1>3 DEF GetData
  <2> QED BY <1>t, <1>p, <1>r, <2>2, <2>3, <2>4, <1>k, <1>w
<1>4. CASE GetTrailing
  <2>1. Trailing(tx.pkt) \in Frame
    BY <1>t DEF Trailing, Frame, TxType
  <2>2. wire' \in Seq(Frame) /\ lost' \subseteq Frame
    BY <1>t, <1>4, <2>1, SendFrameType DEF GetTrailing
  <2>3. tx' \in TxType /\ tx'.sent <= tx'.len
    BY <1>t, <1>4 DEF GetTrailing, TxType, TxStates
  <2>4. UNCHANGED <<packets, rxVars, appVars>>
    BY <1>4 DEF GetTrailing
  <2> QED BY <1>t, <1>p, <1>r, <2>2, <2>3, <2>4, <1>k, <1>w
<1>5. CASE ReceiveFrame
  <2>1. Head(wire) \in Frame /\ Tail(wire) \in Seq(Frame)
    BY <1>t, <1>5 DEF ReceiveFrame
  <2>2. rx' \in RxType /\ RxBounded'
    BY <1>r, <1>5, <2>1, AppendBounded DEF ReceiveFrame
  <2>3. done' \in BOOLEAN
    BY <1>5, Zenon DEF ReceiveFrame
  <2>4. wire' \in Seq(Frame) /\ UNCHANGED <<txVars, lost, app, copy, timeouts>>
    BY <1>5, <2>1 DEF ReceiveFrame
  <2>6. Taken(Head(wire)) \in Nat /\ rx'.packet_size <= rx.packet_size + Taken(Head(wire))
    BY <1>r, <1>5, <2>1, AppendGrows DEF ReceiveFrame
  <2>7. /\ between' = (IF app = "checked" THEN between + Taken(Head(wire)) ELSE between)
        /\ between' \in Nat /\ between <= between'
    BY <1>p, <1>5, <2>6 DEF ReceiveFrame
  <2>8. CopyBounded' /\ Watched'
    <3>1. copy.size \in Nat /\ BufSize \in Nat /\ rx.packet_size \in Nat /\ rx'.packet_size \in Nat
      BY <1>p, <1>r, <2>2, NbusAssumption DEF CopyType, RxType
    <3>2. CopyBounded'
      BY <1>p, <2>4, <2>7, <3>1 DEF CopyBounded
    <3>3. app = "checked" => rx'.packet_size <= BufSize + between'
      BY <1>p, <2>6, <2>7, <3>1 DEF Watched
    <3> QED BY <2>4, <3>2, <3>3 DEF Watched
  <2>5. completed' \in Seq(Completed)
    BY <1>r, <1>5, ReassembledType DEF ReceiveFrame
  <2> QED BY <1>t, <1>p, <2>2, <2>3, <2>4, <2>5, <2>7, <2>8, <1>k
<1>6. CASE WaitCall
  BY <1>t, <1>p, <1>r, <1>6, <1>k DEF WaitCall, RxBounded, CopyBounded, Watched, AppStates
<1>7. CASE WaitTake
  <2>1. done' \in BOOLEAN
    BY <1>7, Zenon DEF WaitTake
  <2>2. app' = "ready" /\ app = "blocked"
        /\ UNCHANGED <<txVars, busVars, rx, completed, copy, between, timeouts>>
    BY <1>7 DEF WaitTake
  <2> QED BY <1>t, <1>p, <1>r, <2>1, <2>2, <1>k DEF RxBounded, CopyBounded, Watched, AppStates
<1>8. CASE WaitTimeout
  BY <1>t, <1>p, <1>r, <1>8, <1>k DEF WaitTimeout, RxBounded, CopyBounded, Watched, AppStates
<1>9. CASE ReceiveCc
  BY <1>t, <1>p, <1>r, <1>n, <1>b, <1>9, <1>k DEF ReceiveCc, RxBounded, Watched, AppStates
<1>10. CASE ReceiveBig
  BY <1>t, <1>p, <1>r, <1>n, <1>b, <1>10, <1>k DEF ReceiveBig, RxBounded, Watched, AppStates
<1>11. CASE ReceiveCopy
  <2>1. copy' \in CopyType
    <3>1. copy' = [NoCopy EXCEPT !.size = rx.packet_size] /\ rx.packet_size \in Nat
      BY <1>r, <1>11 DEF ReceiveCopy, RxType
    <3> QED BY <1>n, <3>1 DEF CopyType
  <2>2. CopyBounded'
    <3>1. copy'.size = rx.packet_size /\ Len(copy'.bytes) = 0
      BY <1>n, <1>11 DEF ReceiveCopy, CopyType
    <3>2. rx.packet_size \in Nat /\ rx.expected_packet_size \in Nat
      BY <1>r DEF RxType
    <3>3. rx.packet_size <= BufSize + between /\ between' = between
      BY <1>11 DEF ReceiveCopy, Watched
    <3> QED BY <3>1, <3>2, <3>3, NbusAssumption DEF RxBounded, CopyBounded
  <2>3. app' = "copy" /\ UNCHANGED <<txVars, busVars, rxVars, between, timeouts>>
    BY <1>11 DEF ReceiveCopy
  <2> QED BY <1>t, <1>p, <1>r, <2>1, <2>2, <2>3, <1>k DEF RxBounded, Watched, AppStates
<1>12. CASE CopyByte
  <2>1. copy.bytes \in Seq(Nat) /\ Len(copy.bytes) \in Nat
    BY <1>p DEF CopyType
  <2>2. Len(copy.bytes) < copy.size
    BY <1>12 DEF CopyByte
  <2>3. Len(copy.bytes) + 1 \in 1 .. MTU
    BY <1>p, <2>1, <2>2, NbusAssumption DEF CopyBounded, CopyType
  <2>4. rx.buf[Len(copy.bytes) + 1] \in Nat
    BY <1>r, <2>3 DEF RxType
  <2>x. copy' = [copy EXCEPT !.bytes = Append(copy.bytes, rx.buf[Len(copy.bytes) + 1])]
    BY <1>12 DEF CopyByte
  <2>y. /\ Append(copy.bytes, rx.buf[Len(copy.bytes) + 1]) \in Seq(Nat)
        /\ Len(Append(copy.bytes, rx.buf[Len(copy.bytes) + 1])) = Len(copy.bytes) + 1
    BY <2>1, <2>4
  <2>5. copy' \in CopyType
    BY <1>p, <2>x, <2>y DEF CopyType
  <2>z. CopyBounded'
    <3>1. /\ copy'.size = copy.size /\ Len(copy'.bytes) = Len(copy.bytes) + 1 /\ copy.size \in Nat
          /\ between' = between
      BY <1>p, <1>12, <2>x, <2>y DEF CopyType, CopyByte
    <3> QED BY <2>1, <2>2, <3>1 DEF CopyBounded
  <2>6. app = "copy" /\ UNCHANGED <<txVars, busVars, rxVars, app, between, timeouts>>
    BY <1>12 DEF CopyByte
  <2> QED BY <1>t, <1>p, <1>r, <2>5, <2>6, <2>z, <1>k DEF RxBounded, Watched, AppStates
<1>13. CASE CopyLen
  <2>1. copy' \in CopyType
    <3>1. copy' = [copy EXCEPT !.len = rx.packet_size, !.ep = rx.ep]
      BY <1>13 DEF CopyLen
    <3>2. rx.packet_size \in Nat /\ rx.ep \in Nat
      BY <1>r DEF RxType
    <3> QED BY <1>p, <3>1, <3>2 DEF CopyType
  <2>2. CopyBounded'
    <3>1. copy'.size = copy.size /\ copy'.bytes = copy.bytes /\ between' = between
      BY <1>p, <1>13 DEF CopyLen, CopyType
    <3> QED BY <3>1 DEF CopyBounded
  <2>3. app' = "reset" /\ UNCHANGED <<txVars, busVars, rxVars, between, timeouts>>
    BY <1>13 DEF CopyLen
  <2> QED BY <1>t, <1>p, <1>r, <2>1, <2>2, <2>3, <1>k DEF RxBounded, Watched, AppStates
<1>14. CASE Reset
  <2>1. rx' \in RxType /\ RxBounded'
    BY <1>r, <1>14 DEF Reset, nbus_rxpacket_reset, RxType, RxStates, RxBounded
  <2>2. /\ app' \in {"idle", "returned"} /\ (app' = "idle" => copy = NoCopy)
        /\ UNCHANGED <<txVars, busVars, done, completed, copy, between, timeouts>>
    BY <1>14 DEF Reset
  <2> QED BY <1>t, <1>p, <1>r, <1>n, <2>1, <2>2, <1>k DEF CopyBounded, Watched, AppStates
<1>15. CASE Respond
  BY <1>t, <1>p, <1>r, <1>n, <1>b, <1>15, <1>k DEF Respond, RxBounded, Watched, AppStates
<1>16. CASE UNCHANGED vars
  BY <1>t, <1>p, <1>r, <1>16, <1>k, <1>w DEF vars
<1>17. CASE ReceiveUser
  BY <1>t, <1>p, <1>r, <1>17, <1>k DEF ReceiveUser, RxBounded, CopyBounded, Watched, AppStates
<1>18. CASE ReceiveFits
  <2>1. /\ app = "user" /\ app' = "checked" /\ between' = 0 /\ rx.packet_size <= BufSize
        /\ UNCHANGED <<txVars, busVars, rxVars, copy, timeouts>>
    BY <1>18 DEF ReceiveFits, FitsCaller
  <2>2. CopyBounded' /\ Watched'
    BY <1>r, <2>1, NbusAssumption DEF CopyBounded, Watched, RxType
  <2> QED BY <1>t, <1>p, <1>r, <2>1, <2>2, <1>k DEF RxBounded, AppStates
<1> QED BY <1>1, <1>2, <1>3, <1>4, <1>5, <1>6, <1>7, <1>8, <1>9, <1>10, <1>11,
           <1>12, <1>13, <1>14, <1>15, <1>16, <1>17, <1>18 DEF Next, ReceiverStep

(* A frame completes a packet only together with the semaphore.            *)
LEMMA CompletionGives ==
  ASSUME NEW f \in Frame, rx \in RxType, rx' = nbus_rxpacket_append(f), rx'.state = "DONE"
  PROVE  Gives(f) \/ (rx.state = "DONE" /\ f.op # "trailing")
<1>1. CASE f.op = "leading"
  <2>1. CASE f.len > MTU
    BY <1>1, <2>1 DEF nbus_rxpacket_append, AppendLeading, RxType
  <2>2. CASE ~(f.len > MTU)
    BY <1>1, <2>2 DEF nbus_rxpacket_append, AppendLeading, RxType
  <2> QED BY <2>1, <2>2
<1>2. CASE f.op = "data"
  <2>1. CASE DataAccepted(f)
    <3>1. rx'.state \in {"TRAILING", "DATA"}
      BY <1>2, <2>1 DEF nbus_rxpacket_append, AppendData, DataAccepted, RxType
    <3> QED BY <3>1
  <2>2. CASE ~DataAccepted(f)
    BY <1>2, <2>2 DEF nbus_rxpacket_append, AppendData
  <2> QED BY <2>1, <2>2
<1>3. CASE f.op = "trailing"
  BY <1>3 DEF nbus_rxpacket_append, AppendTrailing, RxType, Gives
<1> QED BY <1>1, <1>2, <1>3 DEF Frame

LEMMA WakeupNext == TypeOK /\ NoLostWakeup /\ [Next]_vars => NoLostWakeup'
<1> SUFFICES ASSUME TypeOK, NoLostWakeup, [Next]_vars,
                    app' = "blocked", rx'.state = "DONE"
             PROVE  done'
  BY Zenon DEF NoLostWakeup
<1> USE DEF txVars, busVars, rxVars, appVars
<1>r. rx \in RxType /\ wire \in Seq(Frame)
  BY DEF TypeOK, RxType, RxStates
<1>1. CASE ReceiveFrame
  <2>1. Head(wire) \in Frame /\ rx' = nbus_rxpacket_append(Head(wire)) /\ app' = app
    BY <1>r, <1>1 DEF ReceiveFrame
  <2>2. Gives(Head(wire)) \/ rx.state = "DONE"
    BY <1>r, <2>1, CompletionGives
  <2>3. done \/ Gives(Head(wire))
    BY <2>1, <2>2, Zenon DEF NoLostWakeup
  <2> QED BY <1>1, <2>3, Zenon DEF ReceiveFrame
<1>2. CASE WaitCall
  BY <1>2 DEF WaitCall
<1>3. CASE WaitTake
  BY <1>3 DEF WaitTake
<1>4. CASE Reset
  BY <1>r, <1>4 DEF Reset
<1>5. CASE UNCHANGED <<app, rx, done>>
  BY <1>5, Zenon DEF NoLostWakeup
<1>6. CASE WaitTimeout \/ ReceiveCc \/ ReceiveUser \/ ReceiveBig \/ ReceiveFits \/ ReceiveCopy \/ CopyLen \/ Respond
  BY <1>6 DEF WaitTimeout, ReceiveCc, ReceiveUser, ReceiveBig, ReceiveFits, ReceiveCopy, CopyLen, Respond
<1>7. CASE \E ep \in Eps, len \in Lens : Send(ep, len)
  BY <1>5, <1>7 DEF Send
<1>8. CASE GetLeading \/ GetData \/ GetTrailing \/ CopyByte \/ UNCHANGED vars
  BY <1>5, <1>8 DEF GetLeading, GetData, GetTrailing, CopyByte, vars
<1> QED BY <1>1, <1>2, <1>3, <1>4, <1>6, <1>7, <1>8 DEF Next, ReceiverStep

(* Type correctness: every field keeps its type, and the sender's byte     *)
(* count never passes the packet's length.                                 *)
THEOREM TypeCorrect == Spec => []TypeOK
  BY InvInit, InvNext, PTL DEF Spec, Inv

(* Reassembly (nbus_rxpacket_append) never writes past its buffer, for     *)
(* every MTU, fragment length and pattern of lost frames.                  *)
THEOREM RxNeverOverruns == Spec => []RxBounded
  BY InvInit, InvNext, PTL DEF Spec, Inv

(* nbus_rxpacket_wait never sleeps on a complete packet whose semaphore    *)
(* has not been given: the check of the state before the wait loses no     *)
(* wake-up.                                                                *)
THEOREM WakeupNeverLost == Spec => []NoLostWakeup
<1>1. Init => NoLostWakeup
  BY DEF Init, NoLostWakeup
<1> QED BY <1>1, WakeupNext, TypeCorrect, PTL DEF Spec

(* nbus_channel_receive never reads past the reassembly buffer, and writes *)
(* past the caller's buffer no further than the payload that the receive   *)
(* task reassembled between the check of packet_size and its second read:  *)
(* for every size of the two buffers and every schedule.                   *)
THEOREM CopyNeverOverruns == Spec => []CopyBounded
  BY InvInit, InvNext, PTL DEF Spec, Inv

-----------------------------------------------------------------------------
(* Whole packets                                                           *)

(* Bytes of a packet before its data frame k.                              *)
Off(k) == k * FragLen

(* Packet n is cut into data frames 0, 1, ... up to its length; an empty   *)
(* packet has one as well.                                                 *)
HasFragment(n, k) == k = 0 \/ Off(k) < packets[n].len

Is(f, op, n, k) == f.op = op /\ f.pkt = n /\ f.frag = k

(* Frame k of packet n has been given to the bus.                          *)
Passed(op, n, k) ==
  \/ n < tx.pkt
  \/ /\ n = tx.pkt
     /\ \/ op = "leading" /\ tx.state \in {"DATA", "TRAILING", "DONE"}
        \/ op = "data" /\ tx.state = "DATA" /\ k < tx.next_frag
        \/ op = "data" /\ tx.state \in {"TRAILING", "DONE"}
        \/ op = "trailing" /\ tx.state = "DONE"

(* A frame that has been given to the bus is on its way or lost.           *)
Due(op, n, k) ==
  Passed(op, n, k) =>
    \/ \E i \in DOMAIN wire : Is(wire[i], op, n, k)
    \/ \E f \in lost : Is(f, op, n, k)

(* What the receiver must not have missed for it to take frames of packet  *)
(* n + 1 for frames of packet n, of which it expects frame k.              *)
Owes(n, k) == Due("data", n, k) /\ Due("trailing", n, 0) /\ Due("leading", n + 1, 0)

(* Frames are given to the bus in this order.                              *)
Order(f, g) ==
  \/ f.pkt < g.pkt
  \/ /\ f.pkt = g.pkt
     /\ \/ f.op = "leading" /\ g.op # "leading"
        \/ f.op = "data" /\ g.op = "data" /\ f.frag < g.frag
        \/ f.op = "data" /\ g.op = "trailing"

WellFormed(f) ==
  /\ f.pkt \in 1 .. Len(packets)
  /\ f.op = "leading" => f.frag = 0 /\ f.ep = packets[f.pkt].ep /\ f.len = packets[f.pkt].len
  /\ f.op = "data" => /\ HasFragment(f.pkt, f.frag)
                      /\ f.len = Smaller(packets[f.pkt].len - Off(f.frag), FragLen)
  /\ f.op = "trailing" => f.frag = 0

TxSound ==
  /\ tx.pkt = Len(packets)
  /\ tx.state = "EMPTY" => tx.pkt = 0
  /\ tx.state # "EMPTY" => tx.pkt > 0 /\ packets[tx.pkt] = [ep |-> tx.ep, len |-> tx.len]
  /\ tx.state = "DATA" => tx.sent = Off(tx.next_frag) /\ HasFragment(tx.pkt, tx.next_frag)

WireSound ==
  /\ \A i \in DOMAIN wire :
       WellFormed(wire[i]) /\ Passed(wire[i].op, wire[i].pkt, wire[i].frag)
  /\ \A i, j \in DOMAIN wire : i < j => Order(wire[i], wire[j])

(* Everything behind a frame on the wire is on its way or lost.            *)
Followed ==
  \A i \in DOMAIN wire :
    /\ wire[i].op = "leading" => Owes(wire[i].pkt, 0)
    /\ wire[i].op = "data" /\ HasFragment(wire[i].pkt, wire[i].frag + 1) =>
         Owes(wire[i].pkt, wire[i].frag + 1)

(* The reassembly is that of packet n: its leading frame was taken last.   *)
Heads(n) == rx.pkt = n /\ packets[n] = [ep |-> rx.ep, len |-> rx.expected_packet_size]

(* The reassembly buffer holds the beginning of packet n, or what may have *)
(* become of it once the losses have blurred its end.                      *)
Holds(n) == Heads(n) /\ \A i \in 1 .. rx.packet_size : rx.buf[i] = n
Mixes(n) ==
  Heads(n) /\ Blurred(n) /\ \A i \in 1 .. rx.packet_size : rx.buf[i] \in n .. Len(packets)

Reassembles(n) ==
  /\ Holds(n)
  /\ rx.packet_size = Off(rx.frame_expected) /\ HasFragment(n, rx.frame_expected)
  /\ Owes(n, rx.frame_expected)

RxSound ==
  /\ rx.state = "DATA" =>
       \E n \in 1 .. Len(packets) :
         /\ Reassembles(n) \/ Mixes(n)
         /\ \A i \in DOMAIN wire : n <= wire[i].pkt
  /\ rx.state \in {"TRAILING", "DONE"} =>
       /\ rx.packet_size = rx.expected_packet_size
       /\ \E n \in 1 .. Len(packets) : Holds(n) \/ Mixes(n)

LossSound == \A f \in lost : f.pkt \in 1 .. Len(packets)

Ops == {"leading", "data", "trailing"}

LEMMA Fields ==
  ASSUME TypeOK
  PROVE  /\ tx \in TxType /\ tx.sent <= tx.len
         /\ packets \in Seq([ep : Nat, len : Nat]) /\ Len(packets) \in Nat
         /\ wire \in Seq(Frame) /\ lost \subseteq Frame
         /\ rx \in RxType
<1>1. Len(packets) \in Nat
  BY DEF TypeOK
<1> QED BY <1>1 DEF TypeOK, TxType, TxStates, RxType, RxStates

LEMMA PacketFields ==
  ASSUME TypeOK, NEW n \in 1 .. Len(packets)
  PROVE  /\ packets[n] = [ep |-> packets[n].ep, len |-> packets[n].len]
         /\ packets[n].ep \in Nat /\ packets[n].len \in Nat
<1> DEFINE R == [ep : Nat, len : Nat]
<1>1. packets \in Seq(R)
  BY DEF TypeOK
<1> HIDE DEF R
<1>2. packets[n] \in R
  BY <1>1
<1> QED BY <1>2 DEF R

LEMMA OffLaws ==
  /\ FragLen \in Nat \ {0} /\ Off(0) = 0
  /\ \A k \in Nat : Off(k) \in Nat /\ Off(k + 1) = Off(k) + FragLen
  /\ \A k, m \in Nat : k <= m => Off(k) <= Off(m)
<1>1. FragLen \in Nat \ {0}
  BY NbusAssumption
<1>2. ASSUME NEW k \in Nat PROVE Off(k) \in Nat /\ Off(k + 1) = Off(k) + FragLen
  BY <1>1 DEF Off
<1>3. ASSUME NEW k \in Nat, NEW m \in Nat, k <= m PROVE Off(k) <= Off(m)
  <2>1. (m - k) * FragLen >= 0
    BY <1>1, <1>3
  <2>2. m * FragLen = k * FragLen + (m - k) * FragLen
    BY <1>1, <1>3
  <2> QED BY <1>1, <2>1, <2>2 DEF Off
<1> QED BY <1>1, <1>2, <1>3 DEF Off

(* Frame k of packet n goes up to the packet's end or is full, and then    *)
(* another one follows.                                                    *)
LEMMA FragmentLaws ==
  ASSUME TypeOK, NEW n \in 1 .. Len(packets), NEW k \in Nat, HasFragment(n, k),
         NEW s, s = Smaller(packets[n].len - Off(k), FragLen)
  PROVE  /\ s \in Nat /\ Off(k) + s <= packets[n].len
         /\ Off(k) + s = packets[n].len => ~HasFragment(n, k + 1)
         /\ Off(k) + s # packets[n].len => Off(k) + s = Off(k + 1) /\ HasFragment(n, k + 1)
<1>1. packets[n].len \in Nat /\ Off(k) \in Nat /\ Off(k + 1) = Off(k) + FragLen /\ FragLen \in Nat \ {0}
  BY PacketFields, OffLaws
<1>2. Off(k) <= packets[n].len
  <2>1. CASE k = 0
    <3>1. Off(k) = 0
      BY <2>1, OffLaws
    <3> QED BY <1>1, <3>1
  <2>2. CASE Off(k) < packets[n].len
    BY <1>1, <2>2
  <2> QED BY <2>1, <2>2 DEF HasFragment
<1>3. /\ s \in Nat /\ Off(k) + s <= packets[n].len
      /\ s = packets[n].len - Off(k) \/ s = FragLen
      /\ s <= FragLen
  BY <1>1, <1>2 DEF Smaller
<1>4. HasFragment(n, k + 1) <=> Off(k + 1) < packets[n].len
  BY DEF HasFragment
<1> QED BY <1>1, <1>3, <1>4

(* What is blurred stays blurred.                                          *)
LEMMA BlurredStays ==
  ASSUME lost \subseteq lost', NEW n, Blurred(n)
  PROVE  Blurred(n)'
  BY DEF Blurred

LEMMA MixesStays ==
  ASSUME UNCHANGED <<packets, rx>>, lost \subseteq lost', NEW n, Mixes(n)
  PROVE  Mixes(n)'
  BY BlurredStays DEF Mixes, Heads

-----------------------------------------------------------------------------
(* The sender's steps.                                                     *)

Exists(op, n, k) == IF op = "data" THEN HasFragment(n, k) ELSE k = 0

NotYet(n, k) ==
  /\ HasFragment(n, k) => ~Passed("data", n, k)
  /\ ~Passed("trailing", n, 0) /\ ~Passed("leading", n + 1, 0)

(* What the three actions that give a frame to the bus have in common: f   *)
(* is the next frame in order.                                             *)
Transmits(f) ==
  /\ f \in Frame /\ WellFormed(f) /\ f.pkt = Len(packets)
  /\ nbus_channel_send_frame(f) /\ UNCHANGED <<packets, rx>>
  /\ \A op \in Ops, n, k \in Nat : Passed(op, n, k) => Passed(op, n, k)'
  /\ Passed(f.op, f.pkt, f.frag)'
  /\ \A op \in Ops, n, k \in Nat :
       Passed(op, n, k)' /\ Exists(op, n, k) => Passed(op, n, k) \/ Is(f, op, n, k)
  /\ \A g \in Frame : WellFormed(g) /\ Passed(g.op, g.pkt, g.frag) => Order(g, f)
  /\ f.op = "leading" => NotYet(f.pkt, 0)'
  /\ f.op = "data" => NotYet(f.pkt, f.frag + 1)'

LEMMA FrameFields ==
  ASSUME NEW f \in Frame
  PROVE  f.op \in Ops /\ f.pkt \in Nat /\ f.ep \in Nat /\ f.len \in Nat /\ f.frag \in Nat
  BY DEF Frame, Ops

LEMMA WireFields ==
  ASSUME TypeOK
  PROVE  DOMAIN wire = 1 .. Len(wire) /\ Len(wire) \in Nat /\ \A i \in DOMAIN wire : wire[i] \in Frame
<1>1. wire \in Seq(Frame)
  BY Fields
<1> QED BY <1>1

LEMMA TransmitWire ==
  ASSUME TypeOK, NEW f, Transmits(f)
  PROVE  \/ /\ lost' = lost /\ DOMAIN wire' = 1 .. Len(wire) + 1 /\ wire'[Len(wire) + 1] = f
            /\ \A i \in DOMAIN wire : wire'[i] = wire[i]
         \/ wire' = wire /\ lost' = lost \cup {f}
<1>1. wire \in Seq(Frame) /\ f \in Frame
  BY Fields DEF Transmits
<1>2. CASE wire' = Append(wire, f) /\ UNCHANGED lost
  <2>1. /\ DOMAIN Append(wire, f) = 1 .. Len(wire) + 1 /\ Append(wire, f)[Len(wire) + 1] = f
        /\ \A i \in DOMAIN wire : Append(wire, f)[i] = wire[i]
    BY <1>1
  <2> QED BY <1>2, <2>1
<1>3. CASE lost' = lost \cup {f} /\ UNCHANGED wire
  BY <1>3
<1> QED BY <1>2, <1>3 DEF Transmits, nbus_channel_send_frame

LEMMA TransmitDue ==
  ASSUME TypeOK, NEW f, Transmits(f), NEW op \in Ops, NEW n \in Nat, NEW k \in Nat,
         Exists(op, n, k), Due(op, n, k)
  PROVE  Due(op, n, k)'
<1> SUFFICES ASSUME Passed(op, n, k)'
             PROVE  \/ \E i \in DOMAIN wire' : Is(wire'[i], op, n, k)
                    \/ \E g \in lost' : Is(g, op, n, k)
  BY DEF Due, Is
<1>w. DOMAIN wire = 1 .. Len(wire) /\ Len(wire) \in Nat
  BY WireFields
<1>1. CASE Is(f, op, n, k)
  <2>1. CASE DOMAIN wire' = 1 .. Len(wire) + 1 /\ wire'[Len(wire) + 1] = f
    BY <1>w, <1>1, <2>1
  <2>2. CASE lost' = lost \cup {f}
    BY <1>1, <2>2
  <2> QED BY <2>1, <2>2, TransmitWire
<1>2. CASE Passed(op, n, k)
  <2>1. CASE \E i \in DOMAIN wire : Is(wire[i], op, n, k)
    <3>1. PICK i \in DOMAIN wire : Is(wire[i], op, n, k)
      BY <2>1
    <3>2. i \in DOMAIN wire' /\ wire'[i] = wire[i]
      BY <1>w, <3>1, TransmitWire
    <3> QED BY <3>1, <3>2
  <2>2. CASE \E g \in lost : Is(g, op, n, k)
    <3>1. lost \subseteq lost'
      BY TransmitWire
    <3> QED BY <2>2, <3>1
  <2> QED BY <1>2, <2>1, <2>2 DEF Due
<1> QED BY <1>1, <1>2 DEF Transmits

LEMMA TransmitOwes ==
  ASSUME TypeOK, NEW f, Transmits(f), NEW n \in Nat, NEW k \in Nat, HasFragment(n, k), Owes(n, k)
  PROVE  Owes(n, k)'
<1>1. Exists("data", n, k) /\ Exists("trailing", n, 0) /\ Exists("leading", n + 1, 0)
  BY DEF Exists
<1>2. "data" \in Ops /\ "trailing" \in Ops /\ "leading" \in Ops
  BY DEF Ops
<1>3. Due("data", n, k)'
  BY <1>1, <1>2, TransmitDue DEF Owes
<1>4. Due("trailing", n, 0)'
  BY <1>1, <1>2, TransmitDue DEF Owes
<1>5. Due("leading", n + 1, 0)'
  <2>1. n + 1 \in Nat
    OBVIOUS
  <2> QED BY <1>1, <1>2, <2>1, TransmitDue DEF Owes
<1> QED BY <1>3, <1>4, <1>5 DEF Owes

LEMMA TransmitWireSound ==
  ASSUME TypeOK, WireSound, NEW f, Transmits(f)
  PROVE  WireSound'
<1>w. DOMAIN wire = 1 .. Len(wire) /\ Len(wire) \in Nat /\ \A i \in DOMAIN wire : wire[i] \in Frame
  BY WireFields
<1>1. ASSUME NEW g \in Frame, WellFormed(g), Passed(g.op, g.pkt, g.frag)
      PROVE  (WellFormed(g) /\ Passed(g.op, g.pkt, g.frag))' /\ Order(g, f)
  <2>1. g.op \in Ops /\ g.pkt \in Nat /\ g.frag \in Nat
    BY FrameFields
  <2>2. WellFormed(g)'
    BY <1>1 DEF Transmits, WellFormed, HasFragment
  <2>3. Passed(g.op, g.pkt, g.frag)'
    BY <1>1, <2>1 DEF Transmits
  <2> QED BY <1>1, <2>2, <2>3 DEF Transmits
<1>2. (WellFormed(f) /\ Passed(f.op, f.pkt, f.frag))'
  BY DEF Transmits, WellFormed, HasFragment
<1>3. \A i \in DOMAIN wire : WellFormed(wire[i]) /\ Passed(wire[i].op, wire[i].pkt, wire[i].frag)
  BY DEF WireSound
<1>4. CASE /\ DOMAIN wire' = 1 .. Len(wire) + 1 /\ wire'[Len(wire) + 1] = f
           /\ \A i \in DOMAIN wire : wire'[i] = wire[i]
  <2>1. ASSUME NEW i \in DOMAIN wire'
        PROVE  (WellFormed(wire[i]) /\ Passed(wire[i].op, wire[i].pkt, wire[i].frag))'
    <3>1. CASE i = Len(wire) + 1
      <4>1. wire'[i] = f
        BY <1>4, <3>1
      <4> QED BY <1>2, <4>1 DEF WellFormed, HasFragment, Passed
    <3>2. CASE i # Len(wire) + 1
      <4>1. i \in DOMAIN wire /\ wire'[i] = wire[i]
        BY <1>w, <1>4, <3>2
      <4>2. PICK g \in Frame : g = wire[i]
        BY <1>w, <4>1
      <4>3. (WellFormed(g) /\ Passed(g.op, g.pkt, g.frag))'
        BY <1>1, <1>3, <4>1, <4>2
      <4>4. wire'[i] = g
        BY <4>1, <4>2
      <4> QED BY <4>3, <4>4 DEF WellFormed, HasFragment, Passed
    <3> QED BY <3>1, <3>2
  <2>2. ASSUME NEW i \in DOMAIN wire', NEW j \in DOMAIN wire', i < j
        PROVE  Order(wire'[i], wire'[j])
    <3>1. i \in DOMAIN wire /\ wire'[i] = wire[i]
      BY <1>w, <1>4, <2>2
    <3>2. CASE j = Len(wire) + 1
      BY <1>w, <1>1, <1>3, <1>4, <3>1, <3>2
    <3>3. CASE j # Len(wire) + 1
      <4>1. j \in DOMAIN wire /\ wire'[j] = wire[j]
        BY <1>w, <1>4, <3>3
      <4> QED BY <2>2, <3>1, <4>1 DEF WireSound
    <3> QED BY <3>2, <3>3
  <2> QED BY <2>1, <2>2 DEF WireSound, Order
<1>5. CASE wire' = wire
  <2>1. ASSUME NEW i \in DOMAIN wire
        PROVE  (WellFormed(wire[i]) /\ Passed(wire[i].op, wire[i].pkt, wire[i].frag))'
    <3>1. PICK g \in Frame : g = wire[i]
      BY <1>w
    <3>2. (WellFormed(g) /\ Passed(g.op, g.pkt, g.frag))'
      BY <1>1, <1>3, <3>1
    <3>3. wire'[i] = g
      BY <1>5, <3>1
    <3> QED BY <3>2, <3>3 DEF WellFormed, HasFragment, Passed
  <2> QED BY <1>5, <2>1 DEF WireSound, Order
<1> QED BY <1>4, <1>5, TransmitWire

LEMMA TransmitFollowed ==
  ASSUME TypeOK, WireSound, Followed, NEW f, Transmits(f)
  PROVE  Followed'
<1>w. DOMAIN wire = 1 .. Len(wire) /\ Len(wire) \in Nat /\ \A i \in DOMAIN wire : wire[i] \in Frame
  BY WireFields
<1>p. packets' = packets /\ f \in Frame /\ f.pkt \in Nat /\ f.frag \in Nat
  BY FrameFields DEF Transmits
<1>1. ASSUME NEW i \in DOMAIN wire', NEW g \in Frame, g = wire'[i]
      PROVE  /\ g.op = "leading" => Owes(g.pkt, 0)'
             /\ g.op = "data" /\ HasFragment(g.pkt, g.frag + 1) => Owes(g.pkt, g.frag + 1)'
  <2>0. g.pkt \in Nat /\ g.frag + 1 \in Nat /\ HasFragment(g.pkt, 0)
    BY FrameFields DEF HasFragment
  <2>1. CASE i \in DOMAIN wire /\ wire'[i] = wire[i]
    <3>1. /\ g.op = "leading" => Owes(g.pkt, 0)
          /\ g.op = "data" /\ HasFragment(g.pkt, g.frag + 1) => Owes(g.pkt, g.frag + 1)
      BY <1>1, <2>1 DEF Followed
    <3> QED BY <2>0, <3>1, TransmitOwes
  <2>2. CASE g = f
    <3>1. ASSUME NEW n \in Nat, NEW k \in Nat, NotYet(n, k)', HasFragment(n, k)
          PROVE  Owes(n, k)'
      <4>1. HasFragment(n, k)'
        BY <1>p, <3>1 DEF HasFragment
      <4> QED BY <3>1, <4>1 DEF NotYet, Owes, Due
    <3> QED BY <2>0, <2>2, <3>1 DEF Transmits
  <2>3. \/ i \in DOMAIN wire /\ wire'[i] = wire[i]
        \/ wire'[i] = f
    BY <1>w, TransmitWire
  <2> QED BY <1>1, <2>1, <2>2, <2>3
<1>2. ASSUME NEW i \in DOMAIN wire'
      PROVE  /\ wire'[i].op = "leading" => Owes(wire[i].pkt, 0)'
             /\ wire'[i].op = "data" /\ HasFragment(wire[i].pkt, wire[i].frag + 1)' =>
                  Owes(wire[i].pkt, wire[i].frag + 1)'
  <2>1. wire'[i] \in Frame
    BY <1>w, <1>p, TransmitWire
  <2>2. PICK g \in Frame : g = wire'[i]
    BY <2>1
  <2>3. /\ g.op = "leading" => Owes(g.pkt, 0)'
        /\ g.op = "data" /\ HasFragment(g.pkt, g.frag + 1)' => Owes(g.pkt, g.frag + 1)'
    BY <1>1, <1>p, <2>2 DEF HasFragment
  <2> QED BY <2>2, <2>3 DEF Owes, Due, Passed, Is, HasFragment
<1> QED BY <1>2 DEF Followed

LEMMA TransmitRx ==
  ASSUME TypeOK, RxSound, NEW f, Transmits(f)
  PROVE  RxSound'
<1>p. packets' = packets /\ rx' = rx /\ Len(packets) \in Nat /\ lost \subseteq lost'
  BY Fields, TransmitWire DEF Transmits
<1>1. ASSUME NEW n \in 1 .. Len(packets), Reassembles(n) PROVE Reassembles(n)'
  <2>1. rx.frame_expected \in Nat /\ n \in Nat
    BY Fields DEF RxType
  <2>2. PICK k \in Nat : k = rx.frame_expected
    BY <2>1
  <2>3. Owes(n, k)'
    BY <1>1, <2>1, <2>2, TransmitOwes DEF Reassembles
  <2>4. Owes(n, rx.frame_expected)'
    BY <1>p, <2>2, <2>3 DEF Owes, Due, Passed, Is
  <2> QED BY <1>1, <1>p, <2>4 DEF Reassembles, Holds, Heads, HasFragment
<1>2. ASSUME NEW n \in 1 .. Len(packets), \A i \in DOMAIN wire : n <= wire[i].pkt
      PROVE  \A i \in DOMAIN wire' : n <= wire'[i].pkt
  <2>1. f.pkt = Len(packets)
    BY DEF Transmits
  <2>2. \A i \in DOMAIN wire' : (i \in DOMAIN wire /\ wire'[i] = wire[i]) \/ wire'[i] = f
    BY WireFields, TransmitWire
  <2> QED BY <1>2, <1>p, <2>1, <2>2
<1>3. \A n \in 1 .. Len(packets) : (Holds(n) => Holds(n)') /\ (Mixes(n) => Mixes(n)')
  BY <1>p, MixesStays DEF Holds, Heads
<1> QED BY <1>p, <1>1, <1>2, <1>3 DEF RxSound

LEMMA TransmitLoss ==
  ASSUME TypeOK, LossSound, NEW f, Transmits(f)
  PROVE  LossSound'
<1>1. packets' = packets /\ f.pkt \in 1 .. Len(packets)
  BY DEF Transmits, WellFormed
<1> QED BY <1>1, TransmitWire DEF LossSound

LEMMA LeadingTransmits ==
  ASSUME TypeOK, TxSound, GetLeading, NEW f, f = Leading(tx.pkt, tx.ep, tx.len)
  PROVE  Transmits(f) /\ TxSound'
<1>t. /\ tx \in TxType /\ Len(packets) \in Nat /\ tx.pkt \in Nat /\ tx.next_frag \in Nat
      /\ tx.ep \in Nat /\ tx.len \in Nat
  BY Fields DEF TxType
<1>1. /\ tx.state = "LEADING" /\ tx.pkt = Len(packets) /\ tx.pkt > 0
      /\ packets[tx.pkt] = [ep |-> tx.ep, len |-> tx.len]
  BY DEF TxSound, GetLeading
<1>2. /\ tx'.state = "DATA" /\ tx'.pkt = tx.pkt /\ tx'.ep = tx.ep /\ tx'.len = tx.len
      /\ tx'.sent = 0 /\ tx'.next_frag = 0
      /\ UNCHANGED <<packets, rx>>
  BY <1>t DEF GetLeading, TxType, rxVars
<1>3. /\ f.op = "leading" /\ f.pkt = tx.pkt /\ f.frag = 0 /\ f.ep = tx.ep /\ f.len = tx.len
      /\ f \in Frame
  BY <1>t DEF Leading, Frame
<1>4. WellFormed(f) /\ nbus_channel_send_frame(f)
  BY <1>t, <1>1, <1>3 DEF WellFormed, GetLeading
<1>5. \A op \in Ops, n, k \in Nat : Passed(op, n, k) => Passed(op, n, k)'
  BY <1>1, <1>2 DEF Passed, Ops
<1>6. Passed(f.op, f.pkt, f.frag)'
  BY <1>2, <1>3 DEF Passed
<1>7. \A op \in Ops, n, k \in Nat :
        Passed(op, n, k)' /\ Exists(op, n, k) => Passed(op, n, k) \/ Is(f, op, n, k)
  BY <1>t, <1>1, <1>2, <1>3 DEF Passed, Ops, Exists, Is
<1>8. \A g \in Frame : WellFormed(g) /\ Passed(g.op, g.pkt, g.frag) => Order(g, f)
  BY <1>t, <1>1, <1>3, FrameFields DEF Passed, Order
<1>9. NotYet(f.pkt, 0)'
  BY <1>t, <1>2, <1>3 DEF NotYet, Passed
<1>10. TxSound'
  BY <1>1, <1>2, OffLaws DEF TxSound, HasFragment
<1> QED BY <1>1, <1>2, <1>3, <1>4, <1>5, <1>6, <1>7, <1>8, <1>9, <1>10 DEF Transmits

LEMMA DataTransmits ==
  ASSUME TypeOK, TxSound, GetData, NEW f, f = Data(tx.pkt, tx.next_frag, FragmentLength)
  PROVE  Transmits(f) /\ TxSound'
<1>t. /\ tx \in TxType /\ Len(packets) \in Nat /\ tx.pkt \in Nat /\ tx.next_frag \in Nat
      /\ tx.ep \in Nat /\ tx.len \in Nat /\ tx.sent \in Nat
  BY Fields DEF TxType
<1>1. /\ tx.state = "DATA" /\ tx.pkt = Len(packets) /\ tx.pkt > 0
      /\ packets[tx.pkt] = [ep |-> tx.ep, len |-> tx.len]
      /\ tx.sent = Off(tx.next_frag) /\ HasFragment(tx.pkt, tx.next_frag)
  BY DEF TxSound, GetData
<1> DEFINE s == FragmentLength
           last == Off(tx.next_frag) + s = tx.len
<1>2. /\ tx'.state = (IF last THEN "TRAILING" ELSE "DATA")
      /\ tx'.pkt = tx.pkt /\ tx'.ep = tx.ep /\ tx'.len = tx.len
      /\ tx'.sent = tx.sent + s /\ tx'.next_frag = tx.next_frag + 1
      /\ UNCHANGED <<packets, rx>>
  BY <1>t, <1>1 DEF GetData, TxType, rxVars
<1>3. packets[tx.pkt].len = tx.len /\ s = Smaller(packets[tx.pkt].len - Off(tx.next_frag), FragLen)
  BY <1>1 DEF FragmentLength
<1>4. /\ s \in Nat
      /\ last => ~HasFragment(tx.pkt, tx.next_frag + 1)
      /\ ~last => Off(tx.next_frag) + s = Off(tx.next_frag + 1) /\ HasFragment(tx.pkt, tx.next_frag + 1)
  <2>1. tx.pkt \in 1 .. Len(packets)
    BY <1>t, <1>1
  <2> HIDE DEF s
  <2> QED BY <1>t, <1>1, <1>3, <2>1, FragmentLaws
<1>f. f = Data(tx.pkt, tx.next_frag, s)
  OBVIOUS
<1> HIDE DEF s
<1>5. /\ f.op = "data" /\ f.pkt = tx.pkt /\ f.frag = tx.next_frag /\ f.len = s
      /\ f \in Frame
  BY <1>t, <1>4, <1>f DEF Data, Frame
<1>6. WellFormed(f)
  BY <1>t, <1>1, <1>3, <1>5 DEF WellFormed
<1>7. nbus_channel_send_frame(f)
  BY DEF GetData
<1>8. last => \A k \in Nat : HasFragment(tx.pkt, k) => k <= tx.next_frag
  <2> SUFFICES ASSUME last, NEW k \in Nat, k > tx.next_frag PROVE ~HasFragment(tx.pkt, k)
    BY <1>t
  <2>1. ~(Off(tx.next_frag + 1) < tx.len)
    BY <1>3, <1>4 DEF HasFragment
  <2>2. Off(tx.next_frag + 1) <= Off(k) /\ Off(k) \in Nat /\ Off(tx.next_frag + 1) \in Nat
    <3>1. tx.next_frag + 1 \in Nat /\ tx.next_frag + 1 <= k
      BY <1>t
    <3> QED BY <3>1, OffLaws
  <2>3. ~(Off(k) < tx.len) /\ k # 0
    BY <1>t, <2>1, <2>2
  <2> QED BY <1>3, <2>3 DEF HasFragment
<1> HIDE DEF last
<1>9. \A op \in Ops, n, k \in Nat : Passed(op, n, k) => Passed(op, n, k)'
  BY <1>t, <1>1, <1>2 DEF Passed, Ops
<1>10. Passed(f.op, f.pkt, f.frag)'
  BY <1>t, <1>2, <1>5 DEF Passed
<1>11. ASSUME NEW op \in Ops, NEW n \in Nat, NEW k \in Nat, Passed(op, n, k)', Exists(op, n, k)
       PROVE  Passed(op, n, k) \/ Is(f, op, n, k)
  <2>1. CASE n # tx.pkt \/ op # "data"
    BY <1>1, <1>2, <1>11, <2>1 DEF Passed, Ops
  <2>2. CASE n = tx.pkt /\ op = "data"
    <3>1. HasFragment(tx.pkt, k)
      BY <1>11, <2>2 DEF Exists
    <3>2. k <= tx.next_frag
      <4>1. CASE last
        BY <1>8, <3>1, <4>1
      <4>2. CASE ~last
        BY <1>t, <1>2, <1>11, <2>2, <4>2 DEF Passed
      <4> QED BY <4>1, <4>2
    <3> QED BY <1>t, <1>1, <1>5, <2>2, <3>2 DEF Passed, Is
  <2> QED BY <2>1, <2>2
<1>12. \A g \in Frame : WellFormed(g) /\ Passed(g.op, g.pkt, g.frag) => Order(g, f)
  BY <1>t, <1>1, <1>5, FrameFields DEF Passed, Order
<1>13. NotYet(f.pkt, f.frag + 1)'
  <2>1. HasFragment(f.pkt, f.frag + 1)' => ~last
    BY <1>2, <1>4, <1>5 DEF HasFragment
  <2> QED BY <1>t, <1>2, <1>5, <2>1 DEF NotYet, Passed
<1>14. TxSound'
  BY <1>t, <1>1, <1>2, <1>4 DEF TxSound, HasFragment
<1> QED BY <1>1, <1>2, <1>5, <1>6, <1>7, <1>9, <1>10, <1>11, <1>12, <1>13, <1>14 DEF Transmits

LEMMA TrailingTransmits ==
  ASSUME TypeOK, TxSound, GetTrailing, NEW f, f = Trailing(tx.pkt)
  PROVE  Transmits(f) /\ TxSound'
<1>t. /\ tx \in TxType /\ Len(packets) \in Nat /\ tx.pkt \in Nat /\ tx.next_frag \in Nat
  BY Fields DEF TxType
<1>1. /\ tx.state = "TRAILING" /\ tx.pkt = Len(packets) /\ tx.pkt > 0
      /\ packets[tx.pkt] = [ep |-> tx.ep, len |-> tx.len]
  BY DEF TxSound, GetTrailing
<1>2. /\ tx'.state = "DONE" /\ tx'.pkt = tx.pkt /\ tx'.ep = tx.ep /\ tx'.len = tx.len
      /\ UNCHANGED <<packets, rx>>
  BY <1>t DEF GetTrailing, TxType, rxVars
<1>3. f.op = "trailing" /\ f.pkt = tx.pkt /\ f.frag = 0 /\ f \in Frame
  BY <1>t DEF Trailing, Frame
<1>4. WellFormed(f) /\ nbus_channel_send_frame(f)
  BY <1>t, <1>1, <1>3 DEF WellFormed, GetTrailing
<1>5. \A op \in Ops, n, k \in Nat : Passed(op, n, k) => Passed(op, n, k)'
  BY <1>1, <1>2 DEF Passed, Ops
<1>6. Passed(f.op, f.pkt, f.frag)'
  BY <1>2, <1>3 DEF Passed
<1>7. \A op \in Ops, n, k \in Nat :
        Passed(op, n, k)' /\ Exists(op, n, k) => Passed(op, n, k) \/ Is(f, op, n, k)
  BY <1>t, <1>1, <1>2, <1>3 DEF Passed, Ops, Exists, Is
<1>8. \A g \in Frame : WellFormed(g) /\ Passed(g.op, g.pkt, g.frag) => Order(g, f)
  BY <1>t, <1>1, <1>3, FrameFields DEF Passed, Order, Ops
<1>9. TxSound'
  BY <1>1, <1>2 DEF TxSound
<1> QED BY <1>1, <1>2, <1>3, <1>4, <1>5, <1>6, <1>7, <1>8, <1>9 DEF Transmits

(* A new packet changes nothing for the frames of the earlier ones.        *)
LEMMA SendSound ==
  ASSUME TypeOK, TxSound, WireSound, Followed, RxSound, LossSound,
         NEW ep \in Eps, NEW len \in Lens, Send(ep, len)
  PROVE  TxSound' /\ WireSound' /\ Followed' /\ RxSound' /\ LossSound'
<1> DEFINE L == Len(packets)
           r == [ep |-> ep, len |-> len]
<1>t. /\ L \in Nat /\ tx.pkt \in Nat /\ ep \in Nat /\ len \in Nat
      /\ packets \in Seq([ep : Nat, len : Nat])
  BY Fields, NbusAssumption DEF TxType
<1>1. /\ tx.state \in {"EMPTY", "DONE"} /\ packets' = Append(packets, r)
      /\ tx' = [state |-> "LEADING", pkt |-> L + 1, ep |-> ep, len |-> len, sent |-> 0, next_frag |-> 0]
      /\ UNCHANGED <<wire, lost, rx>>
  BY DEF Send, busVars, rxVars
<1>2. /\ Len(packets') = L + 1 /\ packets'[L + 1] = r
      /\ \A n \in 1 .. L : packets'[n] = packets[n]
  <2> DEFINE R == [ep : Nat, len : Nat]
  <2>1. r \in R /\ packets \in Seq(R)
    BY <1>t
  <2> HIDE DEF r, R
  <2>2. /\ Len(Append(packets, r)) = L + 1 /\ Append(packets, r)[L + 1] = r
        /\ \A n \in 1 .. L : Append(packets, r)[n] = packets[n]
    BY <2>1
  <2> QED BY <1>1, <2>2
<1>3. TxSound'
  BY <1>t, <1>1, <1>2 DEF TxSound
<1>4. \A op \in Ops, n \in Nat \ {0}, k \in Nat : Passed(op, n, k)' <=> Passed(op, n, k)
  <2>1. /\ tx.pkt = L /\ (tx.state = "EMPTY" => L = 0) /\ tx.state \in {"EMPTY", "DONE"}
        /\ tx'.pkt = L + 1 /\ tx'.state = "LEADING"
    BY <1>1 DEF TxSound
  <2> HIDE DEF L
  <2> QED BY <1>t, <2>1 DEF Passed, Ops
<1> HIDE DEF L
<1>5. \A n \in 1 .. L, k \in Nat : HasFragment(n, k)' <=> HasFragment(n, k)
  BY <1>2 DEF HasFragment
<1>6. \A n \in Nat \ {0}, k \in Nat : Owes(n, k) => Owes(n, k)'
  <2>1. \A op \in Ops, n \in Nat \ {0}, k \in Nat : Due(op, n, k) => Due(op, n, k)'
    BY <1>1, <1>4 DEF Due, Is
  <2>2. \A n \in Nat \ {0} : n + 1 \in Nat \ {0}
    OBVIOUS
  <2> QED BY <2>1, <2>2 DEF Owes, Ops
<1>w. \A i \in DOMAIN wire : wire[i] \in Frame /\ wire[i].pkt \in 1 .. L
  BY WireFields DEF WireSound, WellFormed, L
<1>7. WireSound'
  <2>1. ASSUME NEW i \in DOMAIN wire
        PROVE  (WellFormed(wire[i]) /\ Passed(wire[i].op, wire[i].pkt, wire[i].frag))'
    <3>1. PICK g \in Frame : g = wire[i]
      BY <1>w
    <3>2. g.pkt \in 1 .. L /\ WellFormed(g) /\ Passed(g.op, g.pkt, g.frag) /\ g.op \in Ops /\ g.frag \in Nat
      BY <1>w, <3>1, FrameFields DEF WireSound
    <3>3. WellFormed(g)'
      BY <1>t, <1>2, <1>5, <3>2 DEF WellFormed
    <3>4. Passed(g.op, g.pkt, g.frag)'
      BY <1>t, <1>4, <3>2
    <3>5. wire'[i] = g
      BY <1>1, <3>1
    <3> QED BY <3>3, <3>4, <3>5 DEF WellFormed, HasFragment, Passed
  <2> QED BY <1>1, <2>1 DEF WireSound, Order
<1>8. Followed'
  <2>1. ASSUME NEW i \in DOMAIN wire
        PROVE  /\ wire'[i].op = "leading" => Owes(wire[i].pkt, 0)'
               /\ wire'[i].op = "data" /\ HasFragment(wire[i].pkt, wire[i].frag + 1)' =>
                    Owes(wire[i].pkt, wire[i].frag + 1)'
    <3>1. PICK g \in Frame : g = wire[i]
      BY <1>w
    <3>2. /\ g.op = "leading" => Owes(g.pkt, 0)
          /\ g.op = "data" /\ HasFragment(g.pkt, g.frag + 1) => Owes(g.pkt, g.frag + 1)
      BY <3>1 DEF Followed
    <3>3. g.pkt \in 1 .. L /\ g.pkt \in Nat \ {0} /\ g.frag + 1 \in Nat
      BY <1>t, <1>w, <3>1, FrameFields
    <3>4. /\ g.op = "leading" => Owes(g.pkt, 0)'
          /\ g.op = "data" /\ HasFragment(g.pkt, g.frag + 1)' => Owes(g.pkt, g.frag + 1)'
      BY <1>5, <1>6, <3>2, <3>3
    <3>5. wire'[i] = g
      BY <1>1, <3>1
    <3> QED BY <3>4, <3>5 DEF Owes, Due, Passed, Is, HasFragment
  <2> QED BY <1>1, <2>1 DEF Followed
<1>9. RxSound'
  <2>1. ASSUME NEW n \in 1 .. L, Holds(n) PROVE Holds(n)'
    BY <1>1, <1>2, <2>1 DEF Holds, Heads
  <2>2. ASSUME NEW n \in 1 .. L, Reassembles(n) PROVE Reassembles(n)'
    <3>1. PICK k \in Nat : k = rx.frame_expected
      BY Fields DEF RxType
    <3>2. Owes(n, k)' /\ HasFragment(n, k)' /\ n \in Nat \ {0}
      BY <1>t, <1>5, <1>6, <2>2, <3>1 DEF Reassembles
    <3>3. rx'.frame_expected = k
      BY <1>1, <3>1
    <3>4. (HasFragment(n, rx.frame_expected) /\ Owes(n, rx.frame_expected))'
      BY <3>2, <3>3 DEF Owes, Due, Passed, Is, HasFragment
    <3> QED BY <1>1, <2>1, <2>2, <3>4 DEF Reassembles
  <2>4. ASSUME NEW n \in 1 .. L, Mixes(n) PROVE Mixes(n)'
    <3>1. Heads(n)' /\ Blurred(n)'
      BY <1>1, <1>2, <2>4, BlurredStays DEF Mixes, Heads
    <3>2. \A m \in n .. L : m \in n .. Len(packets')
      BY <1>t, <1>2
    <3>3. \A i \in 1 .. rx.packet_size : rx.buf[i] \in n .. L
      BY <2>4 DEF Mixes, L
    <3> QED BY <1>1, <3>1, <3>2, <3>3 DEF Mixes
  <2>3. 1 .. L \subseteq 1 .. Len(packets')
    BY <1>t, <1>2
  <2> QED BY <1>1, <2>1, <2>2, <2>3, <2>4 DEF RxSound, L
<1>10. LossSound'
  <2>1. 1 .. L \subseteq 1 .. Len(packets')
    BY <1>t, <1>2
  <2> QED BY <1>1, <2>1 DEF LossSound, L
<1> QED BY <1>3, <1>7, <1>8, <1>9, <1>10

-----------------------------------------------------------------------------
(* The receive task.                                                       *)

LEMMA PopFields ==
  ASSUME TypeOK, ReceiveFrame
  PROVE  /\ 1 \in DOMAIN wire /\ Head(wire) = wire[1] /\ wire[1] \in Frame
         /\ \A i \in DOMAIN wire' : i + 1 \in DOMAIN wire /\ wire'[i] = wire[i + 1] /\ 1 < i + 1
         /\ \A i \in DOMAIN wire : i # 1 => i - 1 \in DOMAIN wire' /\ wire'[i - 1] = wire[i]
         /\ UNCHANGED <<tx, packets, lost>>
<1>1. wire \in Seq(Frame) /\ wire # <<>> /\ wire' = Tail(wire)
  BY Fields DEF ReceiveFrame
<1>2. /\ 1 \in DOMAIN wire /\ Head(wire) = wire[1] /\ wire[1] \in Frame
      /\ DOMAIN wire = 1 .. Len(wire) /\ Len(wire) \in Nat
      /\ DOMAIN Tail(wire) = 1 .. Len(wire) - 1
      /\ \A i \in 1 .. Len(wire) - 1 : Tail(wire)[i] = wire[i + 1]
  BY <1>1
<1>3. UNCHANGED <<tx, packets, lost>>
  BY DEF ReceiveFrame, txVars
<1>4. ASSUME NEW i \in DOMAIN wire' PROVE i + 1 \in DOMAIN wire /\ wire'[i] = wire[i + 1] /\ 1 < i + 1
  BY <1>1, <1>2
<1>5. ASSUME NEW i \in DOMAIN wire, i # 1 PROVE i - 1 \in DOMAIN wire' /\ wire'[i - 1] = wire[i]
  <2>1. i - 1 \in 1 .. Len(wire) - 1 /\ (i - 1) + 1 = i
    BY <1>2, <1>5
  <2> QED BY <1>1, <1>2, <2>1
<1> QED BY <1>2, <1>3, <1>4, <1>5

LEMMA PopDue ==
  ASSUME TypeOK, ReceiveFrame, NEW op, NEW n, NEW k,
         Due(op, n, k), ~Is(wire[1], op, n, k)
  PROVE  Due(op, n, k)'
<1> SUFFICES ASSUME Passed(op, n, k)'
             PROVE  \/ \E i \in DOMAIN wire' : Is(wire'[i], op, n, k)
                    \/ \E g \in lost' : Is(g, op, n, k)
  BY DEF Due, Is
<1>1. Passed(op, n, k) /\ lost' = lost
  BY PopFields DEF Passed
<1>2. CASE \E i \in DOMAIN wire : Is(wire[i], op, n, k)
  <2>1. PICK i \in DOMAIN wire : Is(wire[i], op, n, k)
    BY <1>2
  <2>2. i - 1 \in DOMAIN wire' /\ wire'[i - 1] = wire[i]
    BY <2>1, PopFields
  <2> QED BY <2>1, <2>2
<1>3. CASE \E g \in lost : Is(g, op, n, k)
  BY <1>1, <1>3
<1> QED BY <1>1, <1>2, <1>3 DEF Due

LEMMA PopOwes ==
  ASSUME TypeOK, ReceiveFrame, NEW n, NEW k, Owes(n, k),
         ~Is(wire[1], "data", n, k), ~Is(wire[1], "trailing", n, 0), ~Is(wire[1], "leading", n + 1, 0)
  PROVE  Owes(n, k)'
<1>1. Due("data", n, k)'
  BY PopDue DEF Owes
<1>2. Due("trailing", n, 0)'
  BY PopDue DEF Owes
<1>3. Due("leading", n + 1, 0)'
  BY PopDue DEF Owes
<1> QED BY <1>1, <1>2, <1>3 DEF Owes

LEMMA PopWire ==
  ASSUME TypeOK, WireSound, Followed, ReceiveFrame
  PROVE  WireSound' /\ Followed'
<1>1. ASSUME NEW i \in DOMAIN wire'
      PROVE  \E g \in Frame :
               /\ g = wire[i + 1] /\ g = wire'[i] /\ i + 1 \in DOMAIN wire
               /\ Order(wire[1], g)
  <2>1. i + 1 \in DOMAIN wire /\ wire'[i] = wire[i + 1] /\ 1 < i + 1 /\ 1 \in DOMAIN wire
    BY PopFields
  <2> QED BY <2>1, WireFields DEF WireSound
<1>2. WireSound'
  <2>1. ASSUME NEW i \in DOMAIN wire'
        PROVE  (WellFormed(wire[i]) /\ Passed(wire[i].op, wire[i].pkt, wire[i].frag))'
    <3>1. PICK g \in Frame : g = wire[i + 1] /\ g = wire'[i] /\ i + 1 \in DOMAIN wire
      BY <1>1
    <3>2. WellFormed(g) /\ Passed(g.op, g.pkt, g.frag)
      BY <3>1 DEF WireSound
    <3>3. (WellFormed(g) /\ Passed(g.op, g.pkt, g.frag))'
      BY <3>2, PopFields DEF WellFormed, HasFragment, Passed
    <3> QED BY <3>1, <3>3 DEF WellFormed, HasFragment, Passed
  <2>2. ASSUME NEW i \in DOMAIN wire', NEW j \in DOMAIN wire', i < j
        PROVE  Order(wire'[i], wire'[j])
    <3>0. i \in Int /\ j \in Int
      <4>1. DOMAIN wire' = 1 .. Len(wire) - 1
        BY Fields DEF ReceiveFrame
      <4> QED BY <4>1
    <3>1. i + 1 < j + 1
      BY <2>2, <3>0
    <3> QED BY <3>1, PopFields DEF WireSound
  <2> QED BY <2>1, <2>2 DEF WireSound, Order
<1>3. ASSUME NEW i \in DOMAIN wire'
      PROVE  /\ wire'[i].op = "leading" => Owes(wire[i].pkt, 0)'
             /\ wire'[i].op = "data" /\ HasFragment(wire[i].pkt, wire[i].frag + 1)' =>
                  Owes(wire[i].pkt, wire[i].frag + 1)'
  <2>1. PICK g \in Frame : g = wire[i + 1] /\ g = wire'[i] /\ i + 1 \in DOMAIN wire /\ Order(wire[1], g)
    BY <1>1
  <2>2. g.pkt \in Nat /\ g.frag \in Nat /\ wire[1].pkt \in Nat /\ wire[1].frag \in Nat
    BY FrameFields, PopFields
  <2>3. CASE g.op = "leading"
    <3>1. Owes(g.pkt, 0)
      BY <2>1, <2>3 DEF Followed
    <3>2. /\ ~Is(wire[1], "data", g.pkt, 0) /\ ~Is(wire[1], "trailing", g.pkt, 0)
          /\ ~Is(wire[1], "leading", g.pkt + 1, 0)
      BY <2>1, <2>2, <2>3 DEF Is, Order
    <3>3. Owes(g.pkt, 0)'
      BY <3>1, <3>2, PopOwes
    <3> QED BY <2>1, <2>3, <3>3 DEF Owes, Due, Passed, Is, HasFragment
  <2>4. CASE g.op = "data" /\ HasFragment(g.pkt, g.frag + 1)
    <3>1. Owes(g.pkt, g.frag + 1)
      BY <2>1, <2>4 DEF Followed
    <3>2. /\ ~Is(wire[1], "data", g.pkt, g.frag + 1) /\ ~Is(wire[1], "trailing", g.pkt, 0)
          /\ ~Is(wire[1], "leading", g.pkt + 1, 0)
      BY <2>1, <2>2, <2>4 DEF Is, Order
    <3>3. Owes(g.pkt, g.frag + 1)'
      BY <3>1, <3>2, PopOwes
    <3> QED BY <2>1, <2>4, <3>3 DEF Owes, Due, Passed, Is, HasFragment
  <2>5. CASE g.op # "leading" /\ ~(g.op = "data" /\ HasFragment(g.pkt, g.frag + 1))
    <3>1. HasFragment(wire[i].pkt, wire[i].frag + 1)' <=> HasFragment(g.pkt, g.frag + 1)
      BY <2>1, PopFields DEF HasFragment
    <3> QED BY <2>1, <2>5, <3>1
  <2> QED BY <2>3, <2>4, <2>5
<1> QED BY <1>2, <1>3 DEF Followed

(* A data frame of a later packet meets a sound reassembly only if         *)
(* the frame that the reassembly waits for, the trailing frame behind it   *)
(* and the next leading frame are all lost.                                *)
LEMMA NoMixing ==
  ASSUME TypeOK, TxSound, WireSound, 1 \in DOMAIN wire, NEW n \in 1 .. Len(packets),
         Reassembles(n), n <= wire[1].pkt, wire[1].op = "data"
  PROVE  wire[1].pkt = n \/ Blurred(n)
<1> DEFINE h == wire[1]
<1>t. /\ h \in Frame /\ h.pkt \in Nat /\ n \in Nat /\ tx.pkt \in Nat /\ rx.frame_expected \in Nat
      /\ Len(packets) \in Nat
  BY WireFields, FrameFields, Fields DEF TxType, RxType
<1>1. WellFormed(h) /\ Passed("data", h.pkt, h.frag)
  BY DEF WireSound
<1> SUFFICES ASSUME n < h.pkt PROVE Blurred(n)
  BY <1>t
<1>2. h.pkt <= tx.pkt /\ (h.pkt = tx.pkt => tx.state \in {"DATA", "TRAILING", "DONE"})
  BY <1>t, <1>1 DEF WellFormed, TxSound, Passed
<1>3. Passed("data", n, rx.frame_expected) /\ Passed("trailing", n, 0) /\ Passed("leading", n + 1, 0)
  BY <1>t, <1>2 DEF Passed
<1>4. ASSUME NEW op, NEW m \in Nat, NEW k, NEW i \in DOMAIN wire, Is(wire[i], op, m, k),
             m < h.pkt \/ (m = h.pkt /\ op = "leading")
      PROVE  FALSE
  <2>1. CASE i = 1
    BY <1>t, <1>4, <2>1 DEF Is
  <2>2. CASE i # 1
    <3>1. 1 < i
      BY <2>2, WireFields
    <3>2. Order(h, wire[i])
      BY <3>1 DEF WireSound
    <3> QED BY <1>t, <1>4, <3>2 DEF Order, Is
  <2> QED BY <2>1, <2>2
<1>5. \E a \in lost : Is(a, "data", n, rx.frame_expected)
  BY <1>t, <1>3, <1>4 DEF Reassembles, Owes, Due
<1>6. \E b \in lost : Is(b, "trailing", n, 0)
  BY <1>t, <1>3, <1>4 DEF Reassembles, Owes, Due
<1>7. \E c \in lost : Is(c, "leading", n + 1, 0)
  <2>1. n + 1 \in Nat /\ (n + 1 < h.pkt \/ n + 1 = h.pkt)
    BY <1>t
  <2> QED BY <1>3, <1>4, <2>1 DEF Reassembles, Owes, Due
<1> QED BY <1>5, <1>6, <1>7 DEF Blurred, Is

LEMMA PopLeading ==
  ASSUME TypeOK, WireSound, Followed, ReceiveFrame, wire[1].op = "leading"
  PROVE  RxSound'
<1> DEFINE h == wire[1]
<1>p. /\ 1 \in DOMAIN wire /\ h \in Frame /\ UNCHANGED <<tx, packets, lost>>
      /\ rx' = AppendLeading(h) /\ rx \in RxType
  BY PopFields, Fields DEF ReceiveFrame, nbus_rxpacket_append
<1>1. CASE h.len > MTU
  <2>1. rx'.state = "READY"
    BY <1>p, <1>1 DEF AppendLeading, RxType
  <2> QED BY <2>1 DEF RxSound
<1>2. CASE ~(h.len > MTU)
  <2>1. /\ rx'.state = "DATA" /\ rx'.packet_size = 0 /\ rx'.expected_packet_size = h.len
        /\ rx'.frame_expected = 0 /\ rx'.ep = h.ep /\ rx'.pkt = h.pkt
    BY <1>p, <1>2 DEF AppendLeading, RxType
  <2>2. PICK n \in 1 .. Len(packets) : n = h.pkt
    BY <1>p DEF WireSound, WellFormed
  <2>3. Holds(n)'
    <3>1. h.ep = packets[n].ep /\ h.len = packets[n].len
      BY <1>p, <2>2 DEF WireSound, WellFormed
    <3>2. packets[n] = [ep |-> rx'.ep, len |-> rx'.expected_packet_size]
      BY <2>1, <3>1, PacketFields
    <3> QED BY <1>p, <2>1, <2>2, <3>2 DEF Holds, Heads
  <2>4. Owes(n, 0)'
    <3>1. Owes(n, 0)
      BY <1>p, <2>2 DEF Followed
    <3>2. n \in Nat
      OBVIOUS
    <3>3. ~Is(h, "data", n, 0) /\ ~Is(h, "trailing", n, 0) /\ ~Is(h, "leading", n + 1, 0)
      BY <2>2, <3>2 DEF Is
    <3> QED BY <3>1, <3>3, PopOwes
  <2>5. \A i \in DOMAIN wire' : n <= wire'[i].pkt
    <3> TAKE i \in DOMAIN wire'
    <3>1. i + 1 \in DOMAIN wire /\ wire'[i] = wire[i + 1] /\ 1 < i + 1 /\ wire[i + 1] \in Frame
      BY PopFields, WireFields
    <3>2. Order(h, wire[i + 1]) /\ wire[i + 1].pkt \in Nat
      BY <1>p, <3>1, FrameFields DEF WireSound
    <3> QED BY <2>2, <3>1, <3>2 DEF Order
  <2>6. Reassembles(n)'
    <3>1. (rx.packet_size = Off(rx.frame_expected) /\ HasFragment(n, rx.frame_expected))'
      BY <2>1, OffLaws DEF HasFragment, Off
    <3>2. Owes(n, rx.frame_expected)'
      BY <2>1, <2>4 DEF Owes, Due, Passed, Is
    <3> QED BY <2>3, <3>1, <3>2 DEF Reassembles
  <2> QED BY <1>p, <2>1, <2>5, <2>6 DEF RxSound
<1> QED BY <1>1, <1>2

LEMMA PopData ==
  ASSUME TypeOK, RxBounded, TxSound, WireSound, Followed, RxSound, ReceiveFrame, wire[1].op = "data"
  PROVE  RxSound'
<1> DEFINE h == wire[1]
<1>p. /\ 1 \in DOMAIN wire /\ h \in Frame /\ UNCHANGED <<tx, packets, lost>>
      /\ rx' = AppendData(h) /\ rx \in RxType /\ Len(packets) \in Nat
  BY PopFields, Fields DEF ReceiveFrame, nbus_rxpacket_append
<1>h. h.pkt \in Nat /\ h.frag \in Nat /\ h.len \in Nat
  BY <1>p, FrameFields
<1>r. rx.packet_size \in Nat /\ rx.expected_packet_size \in Nat /\ rx.frame_expected \in Nat
  BY <1>p DEF RxType
<1>w. WellFormed(h)
  BY <1>p DEF WireSound
<1>o. \A i \in DOMAIN wire' : i + 1 \in DOMAIN wire /\ wire'[i] = wire[i + 1]
  BY PopFields
<1>b. \A n \in 1 .. Len(packets) : Blurred(n) => Blurred(n)'
  BY <1>p, BlurredStays
<1>1. ASSUME NEW n \in 1 .. Len(packets), Reassembles(n), h.pkt = n
      PROVE  /\ h.len = Smaller(packets[n].len - Off(h.frag), FragLen) /\ HasFragment(n, h.frag)
             /\ packets[n] = [ep |-> rx.ep, len |-> rx.expected_packet_size]
             /\ packets[n].len = rx.expected_packet_size
             /\ h.frag = rx.frame_expected => DataAccepted(h) \/ rx.state # "DATA"
  <2>2. h.len = Smaller(packets[n].len - Off(h.frag), FragLen) /\ HasFragment(n, h.frag)
    BY <1>w, <1>1 DEF WellFormed
  <2>3. packets[n] = [ep |-> rx.ep, len |-> rx.expected_packet_size]
    BY <1>1 DEF Reassembles, Holds, Heads
  <2>4. packets[n].len = rx.expected_packet_size
    BY <2>3
  <2>5. Off(h.frag) + h.len <= packets[n].len
    BY <1>h, <2>2, FragmentLaws
  <2>6. rx.packet_size = Off(rx.frame_expected)
    BY <1>1 DEF Reassembles
  <2>7. h.frag = rx.frame_expected => DataAccepted(h) \/ rx.state # "DATA"
    BY <2>4, <2>5, <2>6 DEF DataAccepted
  <2> QED BY <2>2, <2>3, <2>4, <2>7
<1>2. CASE DataAccepted(h)
  <2>1. rx.state = "DATA" /\ rx.frame_expected = h.frag /\ rx.packet_size + h.len <= rx.expected_packet_size
    BY <1>2 DEF DataAccepted
  <2>2. PICK n \in 1 .. Len(packets) :
          /\ Reassembles(n) \/ Mixes(n)
          /\ \A i \in DOMAIN wire : n <= wire[i].pkt
    BY <2>1 DEF RxSound
  <2>o. n <= h.pkt /\ \A i \in DOMAIN wire' : n <= wire'[i].pkt
    BY <1>p, <1>o, <2>2
  <2> DEFINE size == rx.packet_size + h.len
             full == size = rx.expected_packet_size
             newbuf == [i \in 1 .. MTU |-> IF i \in rx.packet_size + 1 .. size THEN h.pkt ELSE rx.buf[i]]
  <2>3. /\ rx'.packet_size = size /\ rx'.frame_expected = rx.frame_expected + 1
        /\ rx'.expected_packet_size = rx.expected_packet_size /\ rx'.ep = rx.ep /\ rx'.pkt = rx.pkt
        /\ rx'.state = (IF full THEN "TRAILING" ELSE "DATA")
        /\ rx'.buf = newbuf
    <3> DEFINE state == IF full THEN "TRAILING" ELSE rx.state
    <3>1. rx' = [rx EXCEPT !.buf = newbuf, !.packet_size = size, !.frame_expected = rx.frame_expected + 1,
                           !.state = state]
      BY <1>p, <1>2 DEF AppendData
    <3>2. state = IF full THEN "TRAILING" ELSE "DATA"
      BY <2>1
    <3> HIDE DEF newbuf, size, state
    <3>3. /\ rx'.packet_size = size /\ rx'.frame_expected = rx.frame_expected + 1
          /\ rx'.expected_packet_size = rx.expected_packet_size /\ rx'.ep = rx.ep /\ rx'.pkt = rx.pkt
          /\ rx'.state = state /\ rx'.buf = newbuf
      BY <1>p, <3>1 DEF RxType
    <3> QED BY <3>2, <3>3
  <2>4. size \in Nat /\ size <= MTU
    BY <1>h, <1>r, <2>1, NbusAssumption DEF RxBounded
  <2>5. ASSUME NEW i \in 1 .. size
        PROVE  newbuf[i] = h.pkt \/ (i \in 1 .. rx.packet_size /\ newbuf[i] = rx.buf[i])
    <3>1. i \in 1 .. MTU
      BY <2>4, NbusAssumption
    <3>2. CASE i \in rx.packet_size + 1 .. size
      BY <3>1, <3>2
    <3>3. CASE i \notin rx.packet_size + 1 .. size
      <4>1. i \in 1 .. rx.packet_size
        BY <1>r, <1>h, <2>4, <3>3
      <4> QED BY <3>1, <3>3, <4>1
    <3> QED BY <3>2, <3>3
  <2>6. Heads(n)'
    BY <1>p, <2>2, <2>3 DEF Reassembles, Mixes, Holds, Heads
  <2> HIDE DEF newbuf, size
  <2>7. CASE Blurred(n)
    <3>1. h.pkt \in n .. Len(packets)
      BY <1>p, <1>h, <1>w, <2>o DEF WellFormed
    <3>2. ASSUME NEW i \in 1 .. rx.packet_size PROVE rx.buf[i] \in n .. Len(packets)
      BY <1>p, <2>2 DEF Reassembles, Mixes, Holds
    <3>3. \A i \in 1 .. rx'.packet_size : rx'.buf[i] \in n .. Len(packets')
      BY <1>p, <2>3, <2>5, <3>1, <3>2
    <3>4. Mixes(n)'
      BY <1>b, <2>6, <2>7, <3>3 DEF Mixes
    <3>5. rx'.state = "TRAILING" => rx'.packet_size = rx'.expected_packet_size
      BY <2>3
    <3>6. rx'.state \in {"TRAILING", "DATA"}
      BY <2>3
    <3> QED BY <1>p, <2>o, <3>4, <3>5, <3>6 DEF RxSound
  <2>8. CASE ~Blurred(n)
    <3>0. Reassembles(n) /\ h.pkt = n
      BY <1>p, <2>2, <2>8, <2>o, NoMixing DEF Mixes
    <3>a. Holds(n)'
      <4>1. \A i \in 1 .. rx'.packet_size : rx'.buf[i] = n
        BY <2>3, <2>5, <3>0 DEF Reassembles, Holds
      <4> QED BY <2>6, <4>1 DEF Holds
    <3>b. CASE full
      BY <1>p, <2>3, <3>a, <3>b DEF RxSound
    <3>c. CASE ~full
      <4>1. /\ h.len = Smaller(packets[n].len - Off(h.frag), FragLen)
            /\ HasFragment(n, h.frag) /\ packets[n].len = rx.expected_packet_size
            /\ rx.packet_size = Off(h.frag)
        BY <1>1, <2>1, <3>0 DEF Reassembles
      <4>2. size = Off(h.frag + 1) /\ HasFragment(n, h.frag + 1)
        BY <1>h, <3>c, <4>1, FragmentLaws DEF size
      <4>3. PICK k \in Nat : k = h.frag + 1
        BY <1>h
      <4>4. Owes(n, k)
        BY <1>p, <3>0, <4>1, <4>2, <4>3 DEF Followed
      <4>5. n \in Nat
        OBVIOUS
      <4>6. ~Is(h, "data", n, k) /\ ~Is(h, "trailing", n, 0) /\ ~Is(h, "leading", n + 1, 0)
        BY <1>h, <4>1, <4>3, <4>5 DEF Is
      <4>7. Owes(n, k)'
        BY <4>4, <4>6, PopOwes
      <4>8. rx'.frame_expected = k /\ rx'.packet_size = Off(k) /\ HasFragment(n, k)
        BY <2>1, <2>3, <4>2, <4>3
      <4>9. (rx.packet_size = Off(rx.frame_expected) /\ HasFragment(n, rx.frame_expected)
             /\ Owes(n, rx.frame_expected))'
        BY <1>p, <4>7, <4>8 DEF Owes, Due, Passed, Is, HasFragment, Off
      <4>10. Reassembles(n)' /\ rx'.state = "DATA"
        BY <2>3, <3>a, <3>c, <4>9 DEF Reassembles
      <4> QED BY <1>p, <2>o, <4>10 DEF RxSound
    <3> QED BY <3>b, <3>c
  <2> QED BY <2>7, <2>8
<1>3. CASE ~DataAccepted(h)
  <2>1. rx' = rx
    BY <1>p, <1>3 DEF AppendData
  <2>2. ASSUME NEW n \in 1 .. Len(packets), rx.state = "DATA", Reassembles(n) PROVE Reassembles(n)'
    <3>1. h.pkt # n \/ h.frag # rx.frame_expected
      BY <1>1, <1>3, <2>2
    <3>2. PICK k \in Nat : k = rx.frame_expected
      BY <1>r
    <3>3. Owes(n, k) /\ ~Is(h, "data", n, k) /\ ~Is(h, "trailing", n, 0) /\ ~Is(h, "leading", n + 1, 0)
      BY <2>2, <3>1, <3>2 DEF Is, Reassembles
    <3>4. Owes(n, k)'
      BY <3>3, PopOwes
    <3>5. Owes(n, rx.frame_expected)'
      BY <2>1, <3>2, <3>4 DEF Owes, Due, Passed, Is
    <3> QED BY <1>p, <2>1, <2>2, <3>5 DEF Reassembles, Holds, Heads, HasFragment
  <2>3. \A n \in 1 .. Len(packets) : (Holds(n) => Holds(n)') /\ (Mixes(n) => Mixes(n)')
    BY <1>p, <2>1, MixesStays DEF Holds, Heads
  <2>4. \A n : (\A i \in DOMAIN wire : n <= wire[i].pkt) => \A i \in DOMAIN wire' : n <= wire'[i].pkt
    BY <1>o
  <2> QED BY <1>p, <2>1, <2>2, <2>3, <2>4 DEF RxSound
<1> QED BY <1>2, <1>3

LEMMA PopTrailing ==
  ASSUME TypeOK, RxSound, ReceiveFrame, wire[1].op = "trailing"
  PROVE  RxSound'
<1>p. UNCHANGED <<tx, packets, lost>> /\ rx' = AppendTrailing(wire[1]) /\ rx \in RxType
  BY PopFields, Fields DEF ReceiveFrame, nbus_rxpacket_append
<1>1. /\ rx'.state = (IF rx.state = "TRAILING" THEN "DONE" ELSE "INVALID")
      /\ rx'.packet_size = rx.packet_size /\ rx'.expected_packet_size = rx.expected_packet_size
      /\ rx'.ep = rx.ep /\ rx'.pkt = rx.pkt /\ rx'.buf = rx.buf
  BY <1>p DEF AppendTrailing, RxType
<1>2. \A n \in 1 .. Len(packets) : (Holds(n) => Holds(n)') /\ (Mixes(n) => Mixes(n)')
  BY <1>p, <1>1 DEF Holds, Mixes, Heads, Blurred
<1> QED BY <1>p, <1>1, <1>2 DEF RxSound

-----------------------------------------------------------------------------
Sound == Inv /\ TxSound /\ WireSound /\ Followed /\ RxSound /\ LossSound

LEMMA SoundInit == Init => Sound
<1> SUFFICES ASSUME Init PROVE Sound
  OBVIOUS
<1>1. wire = <<>> /\ packets = <<>> /\ lost = {} /\ DOMAIN wire = {} /\ Len(packets) = 0
  BY DEF Init
<1>2. tx.state = "EMPTY" /\ tx.pkt = 0 /\ rx.state = "READY"
  BY DEF Init, NoPacket
<1>3. TxSound /\ WireSound /\ Followed /\ RxSound
  BY <1>1, <1>2 DEF TxSound, WireSound, Followed, RxSound
<1>4. LossSound
  BY <1>1 DEF LossSound
<1> QED BY <1>3, <1>4, InvInit DEF Sound

(* Steps of the application leave the sender and the bus alone, and the    *)
(* reassembly too except for its reset.                                    *)
LEMMA AppSound ==
  ASSUME TxSound, WireSound, Followed, RxSound, LossSound,
         UNCHANGED <<tx, packets, wire, lost>>, rx' = rx \/ rx'.state = "READY"
  PROVE  TxSound' /\ WireSound' /\ Followed' /\ RxSound' /\ LossSound'
<1> USE DEF HasFragment, Owes, Due, Passed, Is, Off
<1>1. TxSound'
  BY DEF TxSound
<1>2. WireSound'
  BY DEF WireSound, WellFormed, Order
<1>3. Followed'
  BY DEF Followed
<1>4. RxSound'
  <2>1. CASE rx' = rx
    BY <2>1 DEF RxSound, Reassembles, Holds, Mixes, Heads, Blurred
  <2>2. CASE rx'.state = "READY"
    BY <2>2 DEF RxSound
  <2> QED BY <2>1, <2>2
<1>5. LossSound'
  BY DEF LossSound
<1> QED BY <1>1, <1>2, <1>3, <1>4, <1>5

LEMMA TransmitSound ==
  ASSUME Sound, NEW f, Transmits(f)
  PROVE  WireSound' /\ Followed' /\ RxSound' /\ LossSound'
<1>1. TypeOK /\ WireSound /\ Followed /\ RxSound /\ LossSound
  BY DEF Sound, Inv
<1> QED BY <1>1, TransmitWireSound, TransmitFollowed, TransmitRx, TransmitLoss

LEMMA SoundNext == Sound /\ [Next]_vars => Sound'
<1> SUFFICES ASSUME Sound, [Next]_vars
             PROVE  TxSound' /\ WireSound' /\ Followed' /\ RxSound' /\ LossSound'
  BY InvNext DEF Sound
<1>0. TypeOK /\ RxBounded /\ TxSound /\ WireSound /\ Followed /\ RxSound /\ LossSound
  BY DEF Sound, Inv
<1>r. rx \in RxType
  BY <1>0, Fields
<1>1. ASSUME NEW ep \in Eps, NEW len \in Lens, Send(ep, len)
      PROVE  TxSound' /\ WireSound' /\ Followed' /\ RxSound' /\ LossSound'
  BY <1>0, <1>1, SendSound
<1>2. CASE GetLeading
  BY <1>0, <1>2, LeadingTransmits, TransmitSound
<1>3. CASE GetData
  BY <1>0, <1>3, DataTransmits, TransmitSound
<1>4. CASE GetTrailing
  BY <1>0, <1>4, TrailingTransmits, TransmitSound
<1>5. CASE ReceiveFrame
  <2>1. UNCHANGED <<tx, packets, lost>> /\ wire[1] \in Frame
    BY <1>0, <1>5, PopFields
  <2>2. TxSound' /\ LossSound'
    BY <1>0, <2>1 DEF TxSound, LossSound, HasFragment
  <2>3. RxSound'
    <3>1. wire[1].op \in {"leading", "data", "trailing"}
      BY <2>1, FrameFields DEF Ops
    <3> QED BY <1>0, <1>5, <3>1, PopLeading, PopData, PopTrailing
  <2> QED BY <1>0, <1>5, <2>2, <2>3, PopWire
<1>6. CASE Reset
  <2>1. UNCHANGED <<tx, packets, wire, lost>> /\ rx'.state = "READY"
    BY <1>r, <1>6 DEF Reset, nbus_rxpacket_reset, RxType, txVars, busVars
  <2> QED BY <1>0, <2>1, AppSound
<1>7. CASE \/ WaitTimeout \/ WaitCall \/ WaitTake \/ ReceiveCc \/ ReceiveUser \/ ReceiveBig
           \/ ReceiveFits \/ ReceiveCopy
           \/ CopyByte \/ CopyLen \/ Respond \/ UNCHANGED vars
  <2>1. UNCHANGED <<tx, packets, wire, lost, rx>>
    BY <1>7 DEF WaitTimeout, WaitCall, WaitTake, ReceiveCc, ReceiveUser, ReceiveBig,
                ReceiveFits, ReceiveCopy, CopyByte, CopyLen,
                Respond, vars, txVars, busVars, rxVars
  <2> QED BY <1>0, <2>1, AppSound
<1> QED BY <1>1, <1>2, <1>3, <1>4, <1>5, <1>6, <1>7 DEF Next, ReceiverStep

LEMMA SoundWhole == Sound => DoneIsWhole
<1> SUFFICES ASSUME Sound, rx.state = "DONE"
             PROVE  \E p \in DOMAIN packets :
                      /\ packets[p] = [ep |-> rx.ep, len |-> rx.packet_size]
                      /\ \A i \in 1 .. rx.packet_size : rx.buf[i] = p \/ (rx.buf[i] > p /\ Blurred(p))
  BY DEF DoneIsWhole
<1>1. DOMAIN packets = 1 .. Len(packets)
  BY Fields DEF Sound, Inv
<1>2. PICK n \in 1 .. Len(packets) : Holds(n) \/ Mixes(n)
  BY DEF Sound, RxSound
<1>3. rx.packet_size = rx.expected_packet_size
  BY DEF Sound, RxSound
<1>4. packets[n] = [ep |-> rx.ep, len |-> rx.packet_size]
  BY <1>2, <1>3 DEF Holds, Mixes, Heads
<1>5. ASSUME NEW i \in 1 .. rx.packet_size PROVE rx.buf[i] = n \/ (rx.buf[i] > n /\ Blurred(n))
  BY <1>2 DEF Holds, Mixes
<1> QED BY <1>1, <1>4, <1>5

(* Whatever nbus_rxpacket_append declares complete has the endpoint and    *)
(* the length of one packet that was sent, and its bytes, for every number *)
(* and length of packets, fragment length, MTU and pattern of losses; only *)
(* if a data frame and the trailing frame of that packet and the next      *)
(* leading frame are lost may bytes of later packets stand in their place, *)
(* which the MAC of the trailing frame, if it were checked, would reveal.  *)
THEOREM PacketsAreWhole == Spec => []DoneIsWhole
  BY SoundInit, SoundNext, SoundWhole, PTL DEF Spec

-----------------------------------------------------------------------------
(* The channel                                                             *)

(* Packets are taken up in the order in which they were sent, and each at  *)
(* most once: a leading frame that is still to come is of a later packet.  *)
Ordered ==
  /\ \A i \in DOMAIN wire : wire[i].op = "leading" => rx.pkt < wire[i].pkt
  /\ rx.pkt <= Len(packets)
  /\ tx.state = "LEADING" => rx.pkt < tx.pkt
  /\ \A i \in DOMAIN completed :
       /\ completed[i].pkt <= rx.pkt
       /\ rx.state \in {"DATA", "TRAILING"} => completed[i].pkt < rx.pkt

LEMMA CompletedFields ==
  ASSUME TypeOK
  PROVE  completed \in Seq(Completed) /\ \A i \in DOMAIN completed : completed[i].pkt \in Nat
<1>1. completed \in Seq(Completed)
  BY DEF TypeOK, Completed
<1>2. \A r \in Completed : r.pkt \in Nat
  BY DEF Completed
<1> HIDE DEF Completed
<1>3. \A i \in DOMAIN completed : completed[i] \in Completed
  BY <1>1
<1> QED BY <1>1, <1>2, <1>3

LEMMA OrderedTransmit ==
  ASSUME TypeOK, TxSound, Ordered, NEW f, Transmits(f), completed' = completed,
         f.op = "leading" => tx.state = "LEADING", tx'.state # "LEADING"
  PROVE  Ordered'
<1>1. packets' = packets /\ rx' = rx /\ f.pkt = tx.pkt
  BY DEF Transmits, TxSound
<1>2. \A i \in DOMAIN wire' : (i \in DOMAIN wire /\ wire'[i] = wire[i]) \/ wire'[i] = f
  BY WireFields, TransmitWire
<1>3. f.op = "leading" => rx.pkt < f.pkt
  BY <1>1 DEF Ordered
<1>4. \A i \in DOMAIN wire' : wire'[i].op = "leading" => rx.pkt < wire'[i].pkt
  BY <1>2, <1>3 DEF Ordered
<1> QED BY <1>1, <1>4 DEF Ordered

LEMMA OrderedSend ==
  ASSUME TypeOK, Ordered, NEW ep \in Eps, NEW len \in Lens, Send(ep, len)
  PROVE  Ordered'
<1>t. Len(packets) \in Nat /\ rx.pkt \in Nat /\ packets \in Seq([ep : Nat, len : Nat])
  BY Fields DEF RxType
<1>1. /\ tx'.pkt = Len(packets) + 1 /\ UNCHANGED <<wire, rx, completed>>
      /\ packets' = Append(packets, [ep |-> ep, len |-> len])
  BY DEF Send, busVars, rxVars
<1>2. Len(packets') = Len(packets) + 1
  BY <1>t, <1>1
<1>3. rx.pkt < Len(packets) + 1 /\ rx.pkt <= Len(packets) + 1
  BY <1>t DEF Ordered
<1> QED BY <1>1, <1>2, <1>3 DEF Ordered

LEMMA OrderedReceive ==
  ASSUME TypeOK, TxSound, WireSound, Ordered, ReceiveFrame
  PROVE  Ordered'
<1> DEFINE h == wire[1]
<1>p. /\ 1 \in DOMAIN wire /\ h \in Frame /\ UNCHANGED <<tx, packets, lost>>
      /\ rx' = nbus_rxpacket_append(h) /\ rx \in RxType
      /\ completed' = (IF Gives(h) THEN Append(completed, Reassembled) ELSE completed)
  BY PopFields, Fields DEF ReceiveFrame
<1>t. /\ h.pkt \in Nat /\ rx.pkt \in Nat /\ tx.pkt \in Nat /\ Len(packets) \in Nat
      /\ \A i \in DOMAIN completed : completed[i].pkt \in Nat
  BY <1>p, Fields, FrameFields, CompletedFields DEF RxType, TxType
<1>w. \A i \in DOMAIN wire' : i + 1 \in DOMAIN wire /\ wire'[i] = wire[i + 1] /\ 1 < i + 1
  BY PopFields
<1>o. /\ \A i \in DOMAIN wire : wire[i].op = "leading" => rx.pkt < wire[i].pkt
      /\ rx.pkt <= Len(packets) /\ (tx.state = "LEADING" => rx.pkt < tx.pkt)
      /\ \A i \in DOMAIN completed :
           /\ completed[i].pkt <= rx.pkt
           /\ rx.state \in {"DATA", "TRAILING"} => completed[i].pkt < rx.pkt
  BY DEF Ordered
<1>1. ASSUME rx'.pkt = rx.pkt, completed' = completed,
             rx'.state \in {"DATA", "TRAILING"} => rx.state \in {"DATA", "TRAILING"}
      PROVE  Ordered'
  BY <1>p, <1>w, <1>o, <1>1 DEF Ordered
<1>2. CASE h.op = "leading"
  <2>1. rx' = AppendLeading(h) /\ completed' = completed
    BY <1>p, <1>2 DEF nbus_rxpacket_append, Gives
  <2>2. CASE h.len > MTU
    <3>1. rx'.pkt = rx.pkt /\ rx'.state = "READY"
      BY <1>p, <2>1, <2>2 DEF AppendLeading, RxType
    <3> QED BY <1>1, <2>1, <3>1
  <2>3. CASE ~(h.len > MTU)
    <3>1. rx'.pkt = h.pkt
      BY <1>p, <2>1, <2>3 DEF AppendLeading, RxType
    <3>2. rx.pkt < h.pkt
      BY <1>p, <1>o, <1>2
    <3>3. h.pkt <= Len(packets) /\ Passed("leading", h.pkt, h.frag)
      BY <1>p, <1>2 DEF WireSound, WellFormed
    <3>4. tx.state = "LEADING" => h.pkt < tx.pkt
      BY <3>3 DEF Passed
    <3>5. ASSUME NEW i \in DOMAIN wire', wire'[i].op = "leading" PROVE h.pkt < wire'[i].pkt
      <4>1. i + 1 \in DOMAIN wire /\ wire'[i] = wire[i + 1] /\ 1 < i + 1
        BY <1>w
      <4>2. Order(h, wire[i + 1])
        BY <1>p, <4>1 DEF WireSound
      <4> QED BY <1>2, <3>5, <4>1, <4>2 DEF Order
    <3>6. \A i \in DOMAIN completed : completed[i].pkt < h.pkt /\ completed[i].pkt <= h.pkt
      BY <1>t, <1>o, <3>2
    <3> QED BY <1>p, <2>1, <3>1, <3>3, <3>4, <3>5, <3>6 DEF Ordered
  <2> QED BY <2>2, <2>3
<1>3. CASE h.op = "data"
  <2>1. rx' = AppendData(h) /\ completed' = completed
    BY <1>p, <1>3 DEF nbus_rxpacket_append, Gives
  <2>2. CASE DataAccepted(h)
    <3>1. rx.state = "DATA" /\ rx'.pkt = rx.pkt
      BY <1>p, <2>1, <2>2 DEF AppendData, DataAccepted, RxType
    <3> QED BY <1>1, <2>1, <3>1
  <2>3. CASE ~DataAccepted(h)
    <3>1. rx' = rx
      BY <2>1, <2>3 DEF AppendData
    <3> QED BY <1>1, <2>1, <3>1
  <2> QED BY <2>2, <2>3
<1>4. CASE h.op = "trailing"
  <2>1. rx'.pkt = rx.pkt /\ rx'.state = (IF rx.state = "TRAILING" THEN "DONE" ELSE "INVALID")
    BY <1>p, <1>4 DEF nbus_rxpacket_append, AppendTrailing, RxType
  <2>2. CASE rx.state = "TRAILING"
    <3>1. completed' = Append(completed, Reassembled) /\ Reassembled.pkt = rx.pkt
      BY <1>p, <1>4, <2>2 DEF Gives, Reassembled
    <3>2. \A i \in DOMAIN completed' : completed'[i] = Reassembled \/ (i \in DOMAIN completed /\ completed'[i] = completed[i])
      BY <3>1, CompletedFields
    <3>3. \A i \in DOMAIN completed' : completed'[i].pkt <= rx.pkt
      BY <1>t, <1>o, <3>1, <3>2
    <3> QED BY <1>p, <1>w, <1>o, <2>1, <2>2, <3>3 DEF Ordered
  <2>3. CASE rx.state # "TRAILING"
    <3>1. completed' = completed
      BY <1>p, <2>3 DEF Gives
    <3> QED BY <1>1, <2>1, <2>3, <3>1
  <2> QED BY <2>2, <2>3
<1> QED BY <1>2, <1>3, <1>4, <1>p, FrameFields DEF Ops

LEMMA OrderedNext == Sound /\ Ordered /\ [Next]_vars => Ordered'
<1> SUFFICES ASSUME Sound, Ordered, [Next]_vars PROVE Ordered'
  OBVIOUS
<1>0. TypeOK /\ TxSound /\ WireSound /\ rx \in RxType /\ tx \in TxType
  BY Fields DEF Sound, Inv
<1>1. ASSUME NEW ep \in Eps, NEW len \in Lens, Send(ep, len) PROVE Ordered'
  BY <1>0, <1>1, OrderedSend
<1>2. CASE GetLeading
  <2>1. PICK f : f = Leading(tx.pkt, tx.ep, tx.len)
    OBVIOUS
  <2>2. tx.state = "LEADING" /\ tx'.state # "LEADING" /\ completed' = completed
    BY <1>0, <1>2 DEF GetLeading, TxType, rxVars
  <2> QED BY <1>0, <1>2, <2>1, <2>2, LeadingTransmits, OrderedTransmit
<1>3. CASE GetData
  <2>1. PICK f : f = Data(tx.pkt, tx.next_frag, FragmentLength)
    OBVIOUS
  <2>2. tx'.state # "LEADING" /\ completed' = completed /\ f.op # "leading"
    BY <1>0, <1>3, <2>1 DEF GetData, TxType, rxVars, Data
  <2> QED BY <1>0, <1>3, <2>1, <2>2, DataTransmits, OrderedTransmit
<1>4. CASE GetTrailing
  <2>1. PICK f : f = Trailing(tx.pkt)
    OBVIOUS
  <2>2. tx'.state # "LEADING" /\ completed' = completed /\ f.op # "leading"
    BY <1>0, <1>4, <2>1 DEF GetTrailing, TxType, rxVars, Trailing
  <2> QED BY <1>0, <1>4, <2>1, <2>2, TrailingTransmits, OrderedTransmit
<1>5. CASE ReceiveFrame
  BY <1>0, <1>5, OrderedReceive
<1>6. CASE Reset
  <2>1. UNCHANGED <<tx, packets, wire, completed>> /\ rx'.state = "READY" /\ rx'.pkt = rx.pkt
    BY <1>0, <1>6 DEF Reset, nbus_rxpacket_reset, RxType, txVars, busVars
  <2> QED BY <2>1 DEF Ordered
<1>7. CASE \/ WaitTimeout \/ WaitCall \/ WaitTake \/ ReceiveCc \/ ReceiveUser \/ ReceiveBig
           \/ ReceiveFits \/ ReceiveCopy
           \/ CopyByte \/ CopyLen \/ Respond \/ UNCHANGED vars
  <2>1. UNCHANGED <<tx, packets, wire, rx, completed>>
    BY <1>7 DEF WaitTimeout, WaitCall, WaitTake, ReceiveCc, ReceiveUser, ReceiveBig,
                ReceiveFits, ReceiveCopy, CopyByte, CopyLen,
                Respond, vars, txVars, busVars, rxVars
  <2> QED BY <2>1 DEF Ordered
<1> QED BY <1>1, <1>2, <1>3, <1>4, <1>5, <1>6, <1>7 DEF Next, ReceiverStep

(* A packet that the receive task completes is delivered: it is whole, and *)
(* later than everything delivered so far.                                 *)
LEMMA DeliverStep ==
  ASSUME Sound, Ordered, ReceiveFrame, Gives(Head(wire))
  PROVE  \E n \in DOMAIN packets : Channel!Deliver(n)
<1>1. /\ rx.state = "TRAILING" /\ completed' = Append(completed, Reassembled)
      /\ packets' = packets /\ lost' = lost
  BY DEF ReceiveFrame, Gives, txVars
<1>2. DOMAIN packets = 1 .. Len(packets) /\ TypeOK /\ Len(packets) \in Nat
  BY Fields DEF Sound, Inv
<1>3. PICK n \in 1 .. Len(packets) : Holds(n) \/ Mixes(n)
  BY <1>1 DEF Sound, RxSound
<1>4. rx.packet_size = rx.expected_packet_size
  BY <1>1 DEF Sound, RxSound
<1>5. rx.pkt = n /\ packets[n].ep = rx.ep /\ packets[n].len = rx.packet_size
  BY <1>3, <1>4 DEF Holds, Mixes, Heads
<1> DEFINE B == {m \in DOMAIN packets : Blurred(m)}
           bytes == [i \in 1 .. rx.packet_size |-> rx.buf[i]]
<1>6. bytes \in [1 .. packets[n].len -> Channel!Origin(n)]
  <2>1. ASSUME NEW i \in 1 .. rx.packet_size
        PROVE  rx.buf[i] \in Channel!Origin(n)
    <3>1. CASE Holds(n)
      <4>1. rx.buf[i] = n /\ n \in n .. Len(packets)
        BY <1>2, <3>1 DEF Holds
      <4> QED BY <4>1 DEF Channel!Origin
    <3>2. CASE Mixes(n)
      <4>1. n \in B /\ rx.buf[i] \in n .. Len(packets)
        BY <1>2, <3>2 DEF Mixes
      <4> QED BY <4>1 DEF Channel!Origin
    <3> QED BY <1>3, <3>1, <3>2
  <2> QED BY <1>5, <2>1
<1>7. completed' = Append(completed, [pkt |-> n, ep |-> packets[n].ep, bytes |-> bytes])
  BY <1>1, <1>5 DEF Reassembled
<1>8. \A i \in DOMAIN completed : completed[i].pkt < n
  BY <1>1, <1>5 DEF Ordered
<1>9. B' = B
  BY <1>1 DEF Blurred
<1> HIDE DEF bytes
<1>10. Channel!Deliver(n)
  BY <1>1, <1>6, <1>7, <1>8, <1>9 DEF Channel!Deliver
<1> QED BY <1>2, <1>10

(* A lost frame blurs at most one packet: the one before the leading frame *)
(* that is lost.                                                           *)
LEMMA LossStep ==
  ASSUME Sound, NEW f, Transmits(f), UNCHANGED completed
  PROVE  Channel!Next \/ UNCHANGED <<packets, completed, {n \in DOMAIN packets : Blurred(n)}>>
<1> DEFINE B == {n \in DOMAIN packets : Blurred(n)}
<1>1. /\ TypeOK /\ DOMAIN packets = 1 .. Len(packets) /\ Len(packets) \in Nat
      /\ packets' = packets /\ f.pkt = Len(packets)
  BY Fields DEF Sound, Inv, Transmits
<1>2. CASE lost' = lost
  BY <1>1, <1>2 DEF Blurred
<1>3. CASE lost' = lost \cup {f}
  <2>1. ASSUME NEW n \in 1 .. Len(packets), Blurred(n)' PROVE Blurred(n) \/ n = Len(packets) - 1
    <3>1. PICK c \in lost' : c.op = "leading" /\ c.pkt = n + 1
      BY <2>1 DEF Blurred
    <3>2. c.pkt \in 1 .. Len(packets)
      BY <1>1, <1>3 DEF Sound, LossSound
    <3>3. CASE f.pkt = n + 1
      BY <1>1, <3>3
    <3>4. CASE f.pkt # n + 1 /\ f.pkt # n
      BY <1>3, <2>1, <3>4 DEF Blurred
    <3>5. CASE f.pkt = n
      BY <1>1, <3>1, <3>2, <3>5
    <3> QED BY <3>3, <3>4, <3>5
  <2>2. \A n \in 1 .. Len(packets) : Blurred(n) => Blurred(n)'
    BY <1>3, BlurredStays
  <2>3. CASE B' = B
    BY <1>1, <2>3
  <2>4. CASE B' # B
    <3>1. PICK n \in 1 .. Len(packets) : Blurred(n)' /\ ~Blurred(n)
      BY <1>1, <2>2, <2>4
    <3>2. n = Len(packets) - 1
      BY <2>1, <3>1
    <3>3. B' = B \cup {n}
      BY <1>1, <2>1, <2>2, <3>1, <3>2
    <3>4. Channel!Blur(n)
      BY <1>1, <3>3 DEF Channel!Blur
    <3> QED BY <1>1, <3>4 DEF Channel!Next
  <2> QED BY <2>3, <2>4
<1> QED BY <1>1, <1>2, <1>3, TransmitWire

LEMMA ChannelStep ==
  ASSUME Sound, Ordered, [Next]_vars
  PROVE  Channel!Next \/ UNCHANGED <<packets, completed, {n \in DOMAIN packets : Blurred(n)}>>
<1>0. TypeOK /\ TxSound
  BY DEF Sound, Inv
<1>1. ASSUME NEW ep \in Eps, NEW len \in Lens, Send(ep, len) PROVE Channel!Next
  <2> DEFINE B == {n \in DOMAIN packets : Blurred(n)}
  <2>1. packets' = Append(packets, [ep |-> ep, len |-> len]) /\ completed' = completed /\ lost' = lost
    BY <1>1 DEF Send, rxVars, busVars
  <2>2. /\ DOMAIN packets = 1 .. Len(packets) /\ Len(packets) \in Nat
        /\ DOMAIN packets' = 1 .. Len(packets) + 1
    BY <1>0, <2>1, Fields
  <2>3. ASSUME Blurred(Len(packets) + 1) PROVE FALSE
    <3>1. PICK c \in lost : c.pkt = Len(packets) + 1
      BY <2>3 DEF Blurred
    <3> QED BY <2>2, <3>1 DEF Sound, LossSound
  <2>4. \A n : Blurred(n)' <=> Blurred(n)
    BY <2>1 DEF Blurred
  <2>5. B' = B
    BY <2>2, <2>3, <2>4
  <2>6. Channel!Submit(ep, len)
    BY <2>1, <2>5 DEF Channel!Submit
  <2> QED BY <2>6 DEF Channel!Next
<1>2. CASE ReceiveFrame
  <2>1. CASE Gives(Head(wire))
    BY <1>2, <2>1, DeliverStep DEF Channel!Next
  <2>2. CASE ~Gives(Head(wire))
    BY <1>2, <2>2 DEF ReceiveFrame, txVars, Blurred
  <2> QED BY <2>1, <2>2
<1>3. CASE GetLeading
  <2>1. UNCHANGED completed
    BY <1>3 DEF GetLeading, rxVars
  <2> QED BY <1>0, <1>3, <2>1, LeadingTransmits, LossStep
<1>4. CASE GetData
  <2>1. UNCHANGED completed
    BY <1>4 DEF GetData, rxVars
  <2> QED BY <1>0, <1>4, <2>1, DataTransmits, LossStep
<1>5. CASE GetTrailing
  <2>1. UNCHANGED completed
    BY <1>5 DEF GetTrailing, rxVars
  <2> QED BY <1>0, <1>5, <2>1, TrailingTransmits, LossStep
<1>6. CASE \/ WaitTimeout \/ WaitCall \/ WaitTake \/ ReceiveCc \/ ReceiveUser \/ ReceiveBig
           \/ ReceiveFits \/ ReceiveCopy
           \/ CopyByte \/ CopyLen \/ Reset \/ Respond \/ UNCHANGED vars
  <2>1. UNCHANGED <<packets, completed, lost>>
    BY <1>6 DEF WaitTimeout, WaitCall, WaitTake, ReceiveCc, ReceiveUser, ReceiveBig, ReceiveFits,
                ReceiveCopy, CopyByte, CopyLen, Reset, Respond, vars, txVars, busVars, rxVars
  <2> QED BY <2>1 DEF Blurred
<1> QED BY <1>1, <1>2, <1>3, <1>4, <1>5, <1>6 DEF Next, ReceiverStep

(* nbus_channel_send, the bus and nbus_rxpacket_append together implement  *)
(* a channel that loses packets but never cuts, duplicates or reorders     *)
(* them, and mixes them only when the three frames at the border of two    *)
(* packets are lost: for every number and length of packets, fragment      *)
(* length, MTU and pattern of losses.                                      *)
THEOREM ChannelRefined == Spec => ImplementsLossyChannel
<1>1. Init => Sound /\ Ordered /\ Channel!Init
  <2> SUFFICES ASSUME Init PROVE Ordered /\ Channel!Init
    BY SoundInit
  <2>1. /\ rx.pkt = 0 /\ tx.state = "EMPTY" /\ DOMAIN wire = {} /\ DOMAIN completed = {}
        /\ Len(packets) = 0 /\ packets = <<>> /\ completed = <<>> /\ DOMAIN packets = {}
    BY DEF Init, NoPacket
  <2>2. {n \in DOMAIN packets : Blurred(n)} = {}
    BY <2>1
  <2> QED BY <2>1, <2>2 DEF Ordered, Channel!Init
<1>2. Sound /\ Ordered /\ [Next]_vars => Sound' /\ Ordered'
  BY SoundNext, OrderedNext
<1>3. Sound /\ Ordered /\ [Next]_vars
        => [Channel!Next]_<<packets, completed, {n \in DOMAIN packets : Blurred(n)}>>
  BY ChannelStep
<1> QED BY <1>1, <1>2, <1>3, PTL DEF Spec, ImplementsLossyChannel, Channel!Spec

=============================================================================
