---------------------------- MODULE NbusMqProofs ----------------------------
(***************************************************************************)
(* Theorems about NbusMq, for every number and size of buffers.            *)
(*                                                                         *)
(* The inductive invariant says who owns a buffer: rx_task the only ACTIVE *)
(* one, nbus_task the FULL one it is sending; and how much room an ACTIVE  *)
(* buffer still has.  Once follows the numbers of the messages: each is in *)
(* one place of one buffer or one answer.                                  *)
(***************************************************************************)
EXTENDS NbusMq, TLAPS

BufType == [state : {"EMPTY", "ACTIVE", "FULL"}, len : Nat, msgs : Seq(Nat)]
RxPcs == {"receive", "active", "empty", "check", "close", "append"}
RxType == [pc : RxPcs, msg : Nat, len : Nat, b : 0 .. Buffers, closed : BOOLEAN]

PollType == [pc : {"receive", "send", "sending", "release"}, b : 0 .. Buffers]

RxOwns ==
  rx.pc \in {"check", "close", "append"} => rx.b \in Slots /\ buf[rx.b].state = "ACTIVE"

PollOwns ==
  poll.pc \in {"send", "sending", "release"} => poll.b \in Slots /\ buf[poll.b].state = "FULL"

OneActive ==
  \A i, j \in Slots : buf[i].state = "ACTIVE" /\ buf[j].state = "ACTIVE" => i = j

NoActive ==
  (rx.pc = "empty" \/ (rx.pc = "active" /\ rx.closed))
    => \A i \in Slots : buf[i].state # "ACTIVE"

Room ==
  /\ \A i \in Slots : buf[i].state = "ACTIVE" => buf[i].len + 2 <= Size
  /\ rx.pc = "check" /\ rx.closed => buf[rx.b].len = Header
  /\ rx.pc = "append" => buf[rx.b].len + rx.len + 4 <= Size
  /\ rx.pc # "receive" => rx.len \in CborLens

Inv == TypeOK /\ RxOwns /\ PollOwns /\ OneActive /\ NoActive /\ Room /\ NoOverflow

LEMMA InvInit == Init => Inv
<1> SUFFICES ASSUME Init PROVE Inv
  OBVIOUS
<1> USE MqAssumption
<1>1. \A i \in Slots : buf[i] = [state |-> "EMPTY", len |-> 0, msgs |-> <<>>]
  BY DEF Init
<1>2. TypeOK
  <2>1. buf \in [Slots -> BufType]
    BY DEF Init, BufType
  <2>2. rx \in RxType
    BY DEF Init, NoBuf, RxType, RxPcs
  <2>3. poll \in PollType
    BY DEF Init, NoBuf, PollType
  <2>4. valid \in BOOLEAN /\ count \in Nat
    BY DEF Init
  <2> QED BY <2>1, <2>2, <2>3, <2>4 DEF TypeOK, BufType, RxType, RxPcs, PollType
<1>3. RxOwns /\ PollOwns /\ NoActive
  BY <1>1 DEF Init, RxOwns, PollOwns, NoActive
<1>4. OneActive /\ Room /\ NoOverflow
  BY <1>1 DEF Init, OneActive, Room, NoOverflow
<1> QED BY <1>2, <1>3, <1>4 DEF Inv

(* rx' with a new program counter.                                         *)
LEMMA RxStepType ==
  ASSUME TypeOK,
         NEW pc \in RxPcs,
         NEW b \in 0 .. Buffers,
         rx' = [rx EXCEPT !.pc = pc, !.b = b]
  PROVE  /\ rx' \in RxType
         /\ rx'.pc = pc /\ rx'.b = b /\ rx'.len = rx.len /\ rx'.closed = rx.closed
  BY DEF TypeOK, RxType, RxPcs

LEMMA RxPcType ==
  ASSUME TypeOK,
         NEW pc \in RxPcs,
         rx' = [rx EXCEPT !.pc = pc]
  PROVE  /\ rx' \in RxType
         /\ rx'.pc = pc /\ rx'.b = rx.b /\ rx'.len = rx.len /\ rx'.closed = rx.closed
  BY DEF TypeOK, RxType, RxPcs

LEMMA TypeFrom ==
  ASSUME buf' \in [Slots -> BufType], rx' \in RxType, poll' \in PollType,
         valid' \in BOOLEAN, count' \in Nat
  PROVE  TypeOK'
  BY DEF TypeOK, BufType, RxType, RxPcs, PollType

LEMMA InvNext == Inv /\ [Next]_vars => Inv'
<1> SUFFICES ASSUME Inv, [Next]_vars PROVE Inv'
  OBVIOUS
<1> USE MqAssumption
<1>i. TypeOK /\ RxOwns /\ PollOwns /\ OneActive /\ NoActive /\ Room /\ NoOverflow
  BY DEF Inv
<1>b. buf \in [Slots -> BufType]
  BY <1>i DEF TypeOK, BufType, RxType, RxPcs
<1>t. rx \in RxType /\ poll \in PollType /\ count \in Nat
  BY <1>i DEF TypeOK, RxType, RxPcs, PollType
<1>v. valid' \in BOOLEAN
  BY <1>i DEF TypeOK, Next, vars, RxReceive, RxStep, GetActive, GetEmpty, Check, close_buffer,
     AppendMsg, Poll, PollVoid, PollSend, PollSent, PollRelease, Retreat, AssignId
<1>1. ASSUME NEW len \in CborLens, RxReceive(len) PROVE Inv'
  <2>1. /\ rx' = [pc |-> "active", msg |-> count + 1, len |-> len, b |-> NoBuf, closed |-> FALSE]
        /\ count' = count + 1 /\ UNCHANGED <<buf, poll>>
    BY <1>1 DEF RxReceive
  <2>2. TypeOK'
    <3>1. len \in Nat /\ count + 1 \in Nat /\ NoBuf \in 0 .. Buffers
      BY <1>i DEF TypeOK, NoBuf
    <3>2. rx' \in RxType
      BY <2>1, <3>1 DEF RxType, RxPcs
    <3> QED BY <1>b, <1>t, <1>v, <2>1, <3>1, <3>2, TypeFrom
  <2>3. rx'.pc = "active" /\ rx'.closed = FALSE /\ rx'.len = len
    BY <2>1
  <2> QED BY <1>i, <2>1, <2>2, <2>3
       DEF Inv, RxOwns, PollOwns, OneActive, NoActive, Room, NoOverflow
<1>2. CASE GetActive
  <2>0. UNCHANGED <<buf, poll, count>> /\ rx.pc = "active"
    BY <1>2 DEF GetActive
  <2>1. ASSUME NEW i \in Slots, FirstIn("ACTIVE", i), rx' = [rx EXCEPT !.pc = "check", !.b = i]
        PROVE  Inv'
    <3>1. i \in 0 .. Buffers
      BY DEF Slots
    <3>2. /\ rx' \in RxType
          /\ rx'.pc = "check" /\ rx'.b = i /\ rx'.len = rx.len /\ rx'.closed = rx.closed
      BY <1>i, <2>1, <3>1, RxStepType DEF RxPcs
    <3>3. buf[i].state = "ACTIVE" /\ ~rx.closed
      BY <1>i, <2>0, <2>1 DEF FirstIn, NoActive
    <3>4. TypeOK'
      BY <1>b, <1>t, <1>v, <2>0, <3>2, TypeFrom
    <3> QED BY <1>i, <2>0, <3>2, <3>3, <3>4
         DEF Inv, RxOwns, PollOwns, OneActive, NoActive, Room, NoOverflow
  <2>2. ASSUME \A i \in Slots : ~FirstIn("ACTIVE", i), rx' = [rx EXCEPT !.pc = "empty"]
        PROVE  Inv'
    <3>2. /\ rx' \in RxType
          /\ rx'.pc = "empty" /\ rx'.b = rx.b /\ rx'.len = rx.len /\ rx'.closed = rx.closed
      BY <1>i, <2>2, RxPcType DEF RxPcs
    <3>3. \A i \in Slots : buf[i].state # "ACTIVE"
      BY <1>i, <2>2 DEF FirstIn, OneActive, Slots
    <3>4. TypeOK'
      BY <1>b, <1>t, <1>v, <2>0, <3>2, TypeFrom
    <3> QED BY <1>i, <2>0, <3>2, <3>3, <3>4
         DEF Inv, RxOwns, PollOwns, OneActive, NoActive, Room, NoOverflow
  <2> QED BY <1>2, <2>1, <2>2 DEF GetActive
<1>3. CASE GetEmpty
  <2>0. UNCHANGED <<poll, count>> /\ rx.pc = "empty" /\ rx.len \in CborLens
    BY <1>i, <1>3 DEF GetEmpty, Room
  <2>n. \A i \in Slots : buf[i].state # "ACTIVE"
    BY <1>i, <2>0 DEF NoActive
  <2>1. ASSUME NEW i \in Slots, FirstIn("EMPTY", i), prepare_buffer(i),
               rx' = [rx EXCEPT !.pc = "check", !.b = i]
        PROVE  Inv'
    <3>1. i \in 0 .. Buffers
      BY DEF Slots
    <3>2. /\ rx' \in RxType
          /\ rx'.pc = "check" /\ rx'.b = i /\ rx'.len = rx.len /\ rx'.closed = rx.closed
      BY <1>i, <2>1, <3>1, RxStepType DEF RxPcs
    <3>3. /\ buf' \in [Slots -> BufType]
          /\ buf'[i].state = "ACTIVE" /\ buf'[i].len = Header
          /\ \A j \in Slots : j # i => buf'[j] = buf[j]
      BY <1>b, <2>1 DEF prepare_buffer, BufType
    <3>4. TypeOK'
      BY <1>b, <1>t, <1>v, <2>0, <3>2, <3>3, TypeFrom
    <3>x. rx.len \in Nat /\ Header + rx.len + 4 <= Size
      BY <2>0
    <3>5. Header + 2 <= Size /\ Header <= Size
      BY <3>x
    <3>6. buf[i].state = "EMPTY"
      BY <2>1 DEF FirstIn
    <3>7. RxOwns' /\ PollOwns' /\ OneActive' /\ NoActive'
      BY <1>i, <2>0, <2>n, <3>2, <3>3, <3>6 DEF RxOwns, PollOwns, OneActive, NoActive
    <3>8. Room' /\ NoOverflow'
      BY <1>i, <2>0, <2>n, <3>2, <3>3, <3>5 DEF Room, NoOverflow
    <3> QED BY <3>4, <3>7, <3>8 DEF Inv
  <2>2. ASSUME rx' = [rx EXCEPT !.pc = "receive"], UNCHANGED buf
        PROVE  Inv'
    <3>2. /\ rx' \in RxType
          /\ rx'.pc = "receive"
      BY <1>i, <2>2, RxPcType DEF RxPcs
    <3>4. TypeOK'
      BY <1>b, <1>t, <1>v, <2>0, <2>2, <3>2, TypeFrom
    <3> QED BY <1>i, <2>0, <2>2, <3>2, <3>4
         DEF Inv, RxOwns, PollOwns, OneActive, NoActive, Room, NoOverflow
  <2> QED BY <1>3, <2>1, <2>2 DEF GetEmpty
<1>4. CASE Check
  <2>0. UNCHANGED <<buf, poll, count>> /\ rx.pc = "check" /\ rx.len \in CborLens
    BY <1>i, <1>4 DEF Check, Room
  <2>1. CASE rx.closed \/ Fits(rx.b)
    <3>1. rx' = [rx EXCEPT !.pc = "append"]
      BY <1>4, <2>1 DEF Check
    <3>2. /\ rx' \in RxType
          /\ rx'.pc = "append" /\ rx'.b = rx.b /\ rx'.len = rx.len /\ rx'.closed = rx.closed
      BY <1>i, <3>1, RxPcType DEF RxPcs
    <3>3. buf[rx.b].len + rx.len + 4 <= Size
      <4>1. buf[rx.b].len \in Nat /\ rx.len \in Nat
        BY <1>i, <1>b, <2>0 DEF RxOwns, BufType
      <4>2. CASE rx.closed
        BY <1>i, <2>0, <4>1, <4>2 DEF Room
      <4>3. CASE Fits(rx.b)
        BY <4>1, <4>3 DEF Fits
      <4> QED BY <2>1, <4>2, <4>3
    <3>4. TypeOK'
      BY <1>b, <1>t, <1>v, <2>0, <3>2, TypeFrom
    <3> QED BY <1>i, <2>0, <3>2, <3>3, <3>4
         DEF Inv, RxOwns, PollOwns, OneActive, NoActive, Room, NoOverflow
  <2>2. CASE ~(rx.closed \/ Fits(rx.b))
    <3>1. rx' = [rx EXCEPT !.pc = "close"]
      BY <1>4, <2>2 DEF Check
    <3>2. /\ rx' \in RxType
          /\ rx'.pc = "close" /\ rx'.b = rx.b /\ rx'.len = rx.len /\ rx'.closed = rx.closed
      BY <1>i, <3>1, RxPcType DEF RxPcs
    <3>4. TypeOK'
      BY <1>b, <1>t, <1>v, <2>0, <3>2, TypeFrom
    <3> QED BY <1>i, <2>0, <3>2, <3>4
         DEF Inv, RxOwns, PollOwns, OneActive, NoActive, Room, NoOverflow
  <2> QED BY <2>1, <2>2
<1>5. CASE close_buffer
  <2>0. UNCHANGED <<poll, count>> /\ rx.pc = "close" /\ rx.len \in CborLens
    BY <1>i, <1>5 DEF close_buffer, Room
  <2>1. rx.b \in Slots /\ buf[rx.b].state = "ACTIVE" /\ buf[rx.b].len \in Nat
    BY <1>i, <1>b, <2>0 DEF RxOwns, BufType
  <2>2. /\ buf' \in [Slots -> BufType]
        /\ buf'[rx.b].state = "FULL" /\ buf'[rx.b].len = buf[rx.b].len + 2
        /\ \A j \in Slots : j # rx.b => buf'[j] = buf[j]
    <3> DEFINE new == [state |-> "FULL", len |-> buf[rx.b].len + 2, msgs |-> buf[rx.b].msgs]
    <3>1. buf' = [buf EXCEPT ![rx.b] = new]
      BY <1>5 DEF close_buffer, Closed
    <3>2. new \in BufType /\ new.state = "FULL" /\ new.len = buf[rx.b].len + 2
      BY <1>b, <2>1 DEF BufType
    <3> HIDE DEF new
    <3> QED BY <1>b, <2>1, <3>1, <3>2
  <2>3. /\ rx' \in RxType
        /\ rx'.pc = "active" /\ rx'.len = rx.len
    BY <1>i, <1>5 DEF close_buffer, TypeOK, RxType, RxPcs
  <2>4. TypeOK'
    BY <1>b, <1>t, <1>v, <2>0, <2>2, <2>3, TypeFrom
  <2>5. \A i \in Slots : buf'[i].state # "ACTIVE"
    BY <1>i, <2>1, <2>2 DEF OneActive
  <2>6. RxOwns' /\ PollOwns' /\ OneActive' /\ NoActive'
    BY <1>i, <2>0, <2>1, <2>2, <2>3, <2>5 DEF RxOwns, PollOwns, OneActive, NoActive
  <2>7. Room' /\ NoOverflow'
    BY <1>i, <2>0, <2>1, <2>2, <2>3, <2>5 DEF Room, NoOverflow
  <2> QED BY <2>4, <2>6, <2>7 DEF Inv
<1>6. CASE AppendMsg
  <2>0. UNCHANGED <<poll, count>> /\ rx.pc = "append" /\ rx.len \in CborLens
    BY <1>i, <1>6 DEF AppendMsg, Room
  <2>1. /\ rx.b \in Slots /\ buf[rx.b].state = "ACTIVE" /\ buf[rx.b].len \in Nat
        /\ buf[rx.b].msgs \in Seq(Nat)
    BY <1>i, <1>b, <2>0 DEF RxOwns, BufType
  <2>2. /\ buf' \in [Slots -> BufType]
        /\ buf'[rx.b].state = "ACTIVE" /\ buf'[rx.b].len = buf[rx.b].len + rx.len + 2
        /\ \A j \in Slots : j # rx.b => buf'[j] = buf[j]
    <3> DEFINE new == [state |-> buf[rx.b].state, len |-> buf[rx.b].len + rx.len + 2,
                       msgs |-> Append(buf[rx.b].msgs, rx.msg)]
    <3>1. buf' = [buf EXCEPT ![rx.b] = new]
      BY <1>6 DEF AppendMsg
    <3>2. Append(buf[rx.b].msgs, rx.msg) \in Seq(Nat)
      BY <1>i, <2>1 DEF TypeOK
    <3>3. /\ new \in BufType
          /\ new.state = "ACTIVE" /\ new.len = buf[rx.b].len + rx.len + 2
      <4>1. rx.len \in Nat
        BY <2>0
      <4>2. buf[rx.b].len + rx.len + 2 \in Nat
        BY <2>1, <4>1
      <4> QED BY <2>1, <3>2, <4>2 DEF BufType
    <3> HIDE DEF new
    <3> QED BY <1>b, <2>1, <3>1, <3>3
  <2>3. rx' \in RxType /\ rx'.pc = "receive"
    BY <1>i, <1>6 DEF AppendMsg, TypeOK, RxType, RxPcs
  <2>4. TypeOK'
    BY <1>b, <1>t, <1>v, <2>0, <2>2, <2>3, TypeFrom
  <2>5. RxOwns' /\ PollOwns' /\ OneActive' /\ NoActive'
    BY <1>i, <2>0, <2>1, <2>2, <2>3 DEF RxOwns, PollOwns, OneActive, NoActive
  <2>6. buf[rx.b].len + rx.len + 4 <= Size /\ rx.len \in Nat
    BY <1>i, <2>0 DEF Room
  <2>7. buf'[rx.b].len + 2 <= Size /\ buf'[rx.b].len <= Size
    BY <2>1, <2>2, <2>6
  <2>8. Room' /\ NoOverflow'
    BY <1>i, <2>0, <2>1, <2>2, <2>3, <2>7 DEF Room, NoOverflow
  <2> QED BY <2>4, <2>5, <2>8 DEF Inv
<1>p. ASSUME UNCHANGED <<buf, rx, count>>, poll' \in PollType, PollOwns' PROVE Inv'
  <2>1. TypeOK'
    BY <1>b, <1>t, <1>v, <1>p, TypeFrom
  <2> QED BY <1>i, <1>p, <2>1 DEF Inv, RxOwns, OneActive, NoActive, Room, NoOverflow
<1>7. CASE Poll
  <2>0. UNCHANGED <<buf, rx, count>>
    BY <1>7 DEF Poll
  <2>1. ASSUME NEW i \in Slots, Ready(i), poll' = [pc |-> "send", b |-> i]
        PROVE  poll' \in PollType /\ PollOwns'
    <3>1. i \in 0 .. Buffers /\ buf[i].state = "FULL"
      BY <2>1 DEF Slots, Ready, FirstIn
    <3> QED BY <2>0, <2>1, <3>1 DEF PollOwns, PollType
  <2>2. ASSUME UNCHANGED poll PROVE poll' \in PollType /\ PollOwns'
    BY <1>i, <1>t, <2>0, <2>2 DEF PollOwns
  <2> QED BY <1>7, <1>p, <2>0, <2>1, <2>2 DEF Poll
<1>8. CASE PollVoid \/ PollSend \/ PollSent
  <2>1. /\ UNCHANGED <<buf, rx, count>> /\ poll.pc \in {"send", "sending"}
        /\ \E pc \in {"sending", "release"} : poll' = [poll EXCEPT !.pc = pc]
    BY <1>8 DEF PollVoid, PollSend, PollSent
  <2>2. poll' \in PollType /\ poll'.b = poll.b
    BY <1>t, <2>1 DEF PollType
  <2>3. PollOwns'
    BY <1>i, <2>1, <2>2 DEF PollOwns
  <2> QED BY <1>p, <2>1, <2>2, <2>3
<1>9. CASE PollRelease
  <2>0. /\ UNCHANGED <<rx, count>> /\ poll' = [poll EXCEPT !.pc = "receive"]
        /\ poll.pc = "release"
    BY <1>9 DEF PollRelease
  <2>1. poll.b \in Slots /\ buf[poll.b].state = "FULL"
    BY <1>i, <2>0 DEF PollOwns
  <2>2. /\ buf' \in [Slots -> BufType]
        /\ buf'[poll.b].state = "EMPTY" /\ buf'[poll.b].len = buf[poll.b].len
        /\ \A j \in Slots : j # poll.b => buf'[j] = buf[j]
    <3>1. buf' = [buf EXCEPT ![poll.b] = [@ EXCEPT !.state = "EMPTY"]]
      BY <1>9 DEF PollRelease, Released
    <3> QED BY <1>b, <2>1, <3>1 DEF BufType
  <2>3. /\ poll' \in PollType
        /\ poll'.pc = "receive"
    BY <1>t, <2>0 DEF PollType
  <2>4. TypeOK'
    BY <1>b, <1>t, <1>v, <2>0, <2>2, <2>3, TypeFrom
  <2>5. RxOwns' /\ PollOwns' /\ OneActive' /\ NoActive'
    BY <1>i, <2>0, <2>1, <2>2, <2>3 DEF RxOwns, PollOwns, OneActive, NoActive
  <2>6. rx.pc \in {"check", "append"} => rx.b # poll.b /\ rx.b \in Slots
    BY <1>i, <2>1 DEF RxOwns
  <2>7. Room' /\ NoOverflow'
    BY <1>i, <2>0, <2>1, <2>2, <2>6 DEF Room, NoOverflow
  <2> QED BY <2>4, <2>5, <2>7 DEF Inv
<1>10. CASE Retreat \/ AssignId \/ UNCHANGED vars
  <2>1. UNCHANGED <<buf, rx, poll, count>>
    BY <1>10 DEF Retreat, AssignId, vars
  <2>2. PollOwns'
    BY <1>i, <2>1 DEF PollOwns
  <2> QED BY <1>p, <1>t, <2>1, <2>2
<1> QED BY <1>1, <1>2, <1>3, <1>4, <1>5, <1>6, <1>7, <1>8, <1>9, <1>10 DEF Next, RxStep

LEMMA InvAlways == Spec => []Inv
  BY InvInit, InvNext, PTL DEF Spec

-----------------------------------------------------------------------------
(* Every message is in one place                                           *)

(* Messages are numbered as rx_task receives them; the one in its hands is *)
(* the last and is nowhere else.                                           *)
Numbered ==
  /\ sent \in Seq(Nat)
  /\ \A i \in DOMAIN sent : sent[i] <= count
  /\ \A b \in Slots : buf[b].state # "EMPTY" =>
       \A k \in DOMAIN buf[b].msgs : buf[b].msgs[k] <= count
  /\ rx.pc # "receive" =>
       /\ rx.msg = count
       /\ \A i \in DOMAIN sent : sent[i] # count
       /\ \A b \in Slots : buf[b].state # "EMPTY" =>
            \A k \in DOMAIN buf[b].msgs : buf[b].msgs[k] # count

NoRepeat ==
  \A b \in Slots : buf[b].state # "EMPTY" =>
    \A k, l \in DOMAIN buf[b].msgs : buf[b].msgs[k] = buf[b].msgs[l] => k = l

Once == Numbered /\ NoRepeat /\ AtMostOnce

LEMMA MsgsType ==
  ASSUME Inv, NEW b \in Slots
  PROVE  /\ buf[b].msgs \in Seq(Nat)
         /\ \A k \in DOMAIN buf[b].msgs : buf[b].msgs[k] \in Nat
<1>1. buf[b].msgs \in Seq(Nat)
  BY DEF Inv, TypeOK
<1> QED BY <1>1

(* A step that sends nothing and appends to no buffer.                     *)
LEMMA OnceKept ==
  ASSUME Inv, Once, UNCHANGED sent,
         \A b \in Slots : buf'[b].state # "EMPTY" =>
           \/ buf[b].state # "EMPTY" /\ buf'[b].msgs = buf[b].msgs
           \/ buf'[b].msgs = <<>>,
         poll.pc = "release" => UNCHANGED poll \/ buf'[poll.b].state = "EMPTY",
         \/ UNCHANGED count /\ (rx'.pc # "receive" => rx.pc # "receive" /\ rx'.msg = rx.msg)
         \/ count' = count + 1 /\ rx'.msg = count + 1
  PROVE  Once'
<1>0. count \in Nat /\ sent \in Seq(Nat)
  BY DEF Inv, TypeOK, Once, Numbered
<1>1. \A b \in Slots : \A k \in DOMAIN buf'[b].msgs : buf'[b].state # "EMPTY" =>
        buf[b].state # "EMPTY" /\ buf'[b].msgs = buf[b].msgs
  OBVIOUS
<1>2. /\ \A i \in DOMAIN sent : sent[i] \in Nat /\ sent[i] <= count
      /\ \A b \in Slots : buf[b].state # "EMPTY" =>
           \A k \in DOMAIN buf[b].msgs : buf[b].msgs[k] \in Nat /\ buf[b].msgs[k] <= count
  BY MsgsType DEF Once, Numbered
<1>3. Numbered'
  <2>1. CASE UNCHANGED count /\ (rx'.pc # "receive" => rx.pc # "receive" /\ rx'.msg = rx.msg)
    BY <1>1, <2>1 DEF Once, Numbered
  <2>2. CASE count' = count + 1 /\ rx'.msg = count + 1
    <3>1. \A i \in DOMAIN sent' : sent'[i] <= count' /\ sent'[i] # count'
      BY <1>0, <1>2, <2>2
    <3>2. \A b \in Slots : buf'[b].state # "EMPTY" =>
            \A k \in DOMAIN buf'[b].msgs : buf'[b].msgs[k] <= count' /\ buf'[b].msgs[k] # count'
      BY <1>0, <1>1, <1>2, <2>2
    <3> QED BY <1>0, <2>2, <3>1, <3>2 DEF Numbered
  <2> QED BY <2>1, <2>2
<1>4. NoRepeat'
  BY <1>1 DEF Once, NoRepeat
<1>5. AtMostOnce'
  <2> SUFFICES ASSUME NEW b \in Slots, NEW k \in DOMAIN buf'[b].msgs, buf'[b].state # "EMPTY"
               PROVE  /\ \A i \in DOMAIN sent' :
                           sent'[i] = buf'[b].msgs[k] => poll'.pc = "release" /\ poll'.b = b
                      /\ \A c \in Slots \ {b} : \A l \in DOMAIN buf'[c].msgs :
                           buf'[c].state # "EMPTY" => buf'[c].msgs[l] # buf'[b].msgs[k]
    BY DEF AtMostOnce, Once
  <2>1. buf[b].state # "EMPTY" /\ buf'[b].msgs = buf[b].msgs
    BY <1>1
  <2>2. ASSUME NEW i \in DOMAIN sent, sent[i] = buf[b].msgs[k]
        PROVE  poll'.pc = "release" /\ poll'.b = b
    <3>1. poll.pc = "release" /\ poll.b = b
      BY <2>1, <2>2 DEF Once, AtMostOnce
    <3> QED BY <3>1
  <2>3. ASSUME NEW c \in Slots \ {b}, NEW l \in DOMAIN buf'[c].msgs, buf'[c].state # "EMPTY"
        PROVE  buf'[c].msgs[l] # buf'[b].msgs[k]
    BY <1>1, <2>1, <2>3 DEF Once, AtMostOnce
  <2> QED BY <2>1, <2>2, <2>3
<1> QED BY <1>3, <1>4, <1>5 DEF Once

LEMMA OnceAppend ==
  ASSUME Inv, Once, AppendMsg
  PROVE  Once'
<1>0. /\ rx.b \in Slots /\ buf[rx.b].state # "EMPTY" /\ rx.pc # "receive"
      /\ rx.msg = count /\ count \in Nat
  BY DEF Inv, RxOwns, TypeOK, AppendMsg, Once, Numbered
<1> DEFINE m == buf[rx.b].msgs
           n == Len(m) + 1
<1>1. /\ m \in Seq(Nat) /\ DOMAIN m = 1 .. Len(m) /\ Len(m) \in Nat
  BY <1>0, MsgsType
<1>2. /\ DOMAIN Append(m, count) = 1 .. n /\ Append(m, count)[n] = count
      /\ \A k \in 1 .. Len(m) : Append(m, count)[k] = m[k]
  BY <1>0, <1>1
<1>3. /\ buf'[rx.b].msgs = Append(m, count) /\ buf'[rx.b].state # "EMPTY"
      /\ \A b \in Slots : b # rx.b => buf'[b] = buf[b]
      /\ UNCHANGED <<poll, sent, count>>
  BY <1>0 DEF AppendMsg, Inv, TypeOK
<1>4. rx'.pc = "receive"
  BY DEF AppendMsg, Inv, TypeOK
<1>5. ASSUME NEW b \in Slots, NEW k \in DOMAIN buf'[b].msgs, buf'[b].state # "EMPTY"
      PROVE  /\ b = rx.b /\ k = n => buf'[b].msgs[k] = count
             /\ ~(b = rx.b /\ k = n) =>
                  /\ buf[b].state # "EMPTY" /\ k \in DOMAIN buf[b].msgs
                  /\ buf'[b].msgs[k] = buf[b].msgs[k] /\ buf[b].msgs[k] # count
  <2>1. CASE b = rx.b /\ k = n
    BY <1>2, <1>3, <2>1
  <2>2. CASE b = rx.b /\ k # n
    <3>1. k \in 1 .. Len(m)
      <4>1. k \in DOMAIN Append(m, count)
        BY <1>3, <1>5, <2>2
      <4>2. k \in 1 .. n /\ k # n
        BY <1>2, <2>2, <4>1
      <4> QED BY <1>1, <4>2
    <3>2. buf'[b].msgs[k] = m[k] /\ k \in DOMAIN m
      BY <1>1, <1>2, <1>3, <2>2, <3>1
    <3>3. m[k] # count
      BY <1>0, <3>2 DEF Once, Numbered
    <3> QED BY <1>0, <2>2, <3>2, <3>3
  <2>3. CASE b # rx.b
    BY <1>0, <1>3, <1>5, <2>3 DEF Once, Numbered
  <2> QED BY <2>1, <2>2, <2>3
<1> HIDE DEF m, n
<1>6. Numbered'
  <2>1. \A b \in Slots : buf'[b].state # "EMPTY" =>
          \A k \in DOMAIN buf'[b].msgs : buf'[b].msgs[k] <= count'
    BY <1>0, <1>3, <1>5 DEF Once, Numbered
  <2> QED BY <1>3, <1>4, <2>1 DEF Once, Numbered
<1>7. NoRepeat'
  BY <1>5 DEF Once, NoRepeat
<1>8. AtMostOnce'
  <2> SUFFICES ASSUME NEW b \in Slots, NEW k \in DOMAIN buf'[b].msgs, buf'[b].state # "EMPTY"
               PROVE  /\ \A i \in DOMAIN sent :
                           sent[i] = buf'[b].msgs[k] => poll.pc = "release" /\ poll.b = b
                      /\ \A c \in Slots \ {b} : \A l \in DOMAIN buf'[c].msgs :
                           buf'[c].state # "EMPTY" => buf'[c].msgs[l] # buf'[b].msgs[k]
    BY <1>3 DEF AtMostOnce, Once
  <2>1. ASSUME NEW i \in DOMAIN sent, sent[i] = buf'[b].msgs[k]
        PROVE  poll.pc = "release" /\ poll.b = b
    BY <1>0, <1>5, <2>1 DEF Once, Numbered, AtMostOnce
  <2>2. ASSUME NEW c \in Slots \ {b}, NEW l \in DOMAIN buf'[c].msgs, buf'[c].state # "EMPTY"
        PROVE  buf'[c].msgs[l] # buf'[b].msgs[k]
    BY <1>5, <2>2 DEF Once, AtMostOnce
  <2> QED BY <2>1, <2>2
<1> QED BY <1>6, <1>7, <1>8 DEF Once

LEMMA OncePollSent ==
  ASSUME Inv, Once, PollSent
  PROVE  Once'
<1>0. /\ poll.b \in Slots /\ buf[poll.b].state # "EMPTY" /\ poll.pc = "sending"
      /\ sent \in Seq(Nat)
  BY DEF Inv, PollOwns, PollSent, Once, Numbered
<1>1. UNCHANGED <<buf, rx, count>> /\ poll'.pc = "release" /\ poll'.b = poll.b
  BY DEF PollSent, Inv, TypeOK
<1> DEFINE m == buf[poll.b].msgs
<1>2. m \in Seq(Nat)
  BY <1>0, MsgsType
<1>3. /\ sent' = sent \o m /\ sent' \in Seq(Nat) /\ Len(sent) \in Nat /\ Len(m) \in Nat
      /\ DOMAIN sent = 1 .. Len(sent) /\ DOMAIN m = 1 .. Len(m)
      /\ DOMAIN sent' = 1 .. Len(sent) + Len(m)
  BY <1>0, <1>2 DEF PollSent
<1>4. ASSUME NEW i \in DOMAIN sent'
      PROVE  \/ i \in DOMAIN sent /\ sent'[i] = sent[i]
             \/ i > Len(sent) /\ i - Len(sent) \in DOMAIN m /\ sent'[i] = m[i - Len(sent)]
  BY <1>0, <1>2, <1>3
<1>5. ASSUME NEW b \in Slots, NEW k \in DOMAIN buf[b].msgs, buf[b].state # "EMPTY",
             NEW i \in DOMAIN sent
      PROVE  sent[i] # buf[b].msgs[k]
  BY <1>0, <1>5 DEF Once, AtMostOnce
<1>6. Numbered'
  <2>1. \A k \in DOMAIN m : m[k] <= count /\ (rx.pc # "receive" => m[k] # count)
    BY <1>0 DEF Once, Numbered
  <2>2. \A i \in DOMAIN sent : sent[i] <= count /\ (rx.pc # "receive" => sent[i] # count)
    BY DEF Once, Numbered
  <2>3. \A i \in DOMAIN sent' : sent'[i] <= count /\ (rx.pc # "receive" => sent'[i] # count)
    BY <1>4, <2>1, <2>2
  <2> QED BY <1>1, <1>3, <2>3 DEF Once, Numbered
<1>7. NoRepeat'
  BY <1>1 DEF Once, NoRepeat
<1>8. \A i, j \in DOMAIN sent' : sent'[i] = sent'[j] => i = j
  <2> SUFFICES ASSUME NEW i \in DOMAIN sent', NEW j \in DOMAIN sent', sent'[i] = sent'[j]
               PROVE  i = j
    OBVIOUS
  <2>1. i \in Int /\ j \in Int
    BY <1>3
  <2>2. \A k \in DOMAIN m, l \in DOMAIN sent : sent[l] # m[k]
    BY <1>0, <1>5
  <2>3. \A k, l \in DOMAIN m : m[k] = m[l] => k = l
    BY <1>0 DEF Once, NoRepeat
  <2>4. \A k, l \in DOMAIN sent : sent[k] = sent[l] => k = l
    BY DEF Once, AtMostOnce
  <2> HIDE DEF m
  <2>5. CASE i \in DOMAIN sent /\ sent'[i] = sent[i]
    BY <1>4, <2>2, <2>4, <2>5
  <2>6. CASE i > Len(sent) /\ i - Len(sent) \in DOMAIN m /\ sent'[i] = m[i - Len(sent)]
    <3>1. j > Len(sent) /\ j - Len(sent) \in DOMAIN m /\ sent'[j] = m[j - Len(sent)]
      BY <1>4, <2>2, <2>6
    <3>2. i - Len(sent) = j - Len(sent)
      BY <2>3, <2>6, <3>1
    <3> QED BY <1>3, <2>1, <3>2
  <2> QED BY <1>4, <2>5, <2>6
<1>9. AtMostOnce'
  <2> SUFFICES ASSUME NEW b \in Slots, NEW k \in DOMAIN buf[b].msgs, buf[b].state # "EMPTY",
                      NEW i \in DOMAIN sent', sent'[i] = buf[b].msgs[k]
               PROVE  b = poll.b
    BY <1>1, <1>8 DEF Once, AtMostOnce
  <2>1. PICK l \in DOMAIN buf[poll.b].msgs : sent'[i] = buf[poll.b].msgs[l]
    BY <1>4, <1>5
  <2>2. buf[poll.b].msgs[l] = buf[b].msgs[k]
    BY <2>1
  <2>3. \A c \in Slots \ {b} : \A j \in DOMAIN buf[c].msgs :
          buf[c].state # "EMPTY" => buf[c].msgs[j] # buf[b].msgs[k]
    BY DEF Once, AtMostOnce
  <2>4. ASSUME poll.b # b PROVE FALSE
    <3>1. poll.b \in Slots \ {b}
      BY <1>0, <2>4
    <3> QED BY <1>0, <2>1, <2>2, <2>3, <3>1
  <2> QED BY <2>4
<1> QED BY <1>6, <1>7, <1>9 DEF Once

LEMMA OnceInit == Init => Once
<1> SUFFICES ASSUME Init PROVE Once
  OBVIOUS
<1>1. \A b \in Slots : buf[b].state = "EMPTY"
  BY DEF Init
<1>2. sent = <<>> /\ DOMAIN sent = {} /\ rx.pc = "receive"
  BY DEF Init
<1> QED BY <1>1, <1>2 DEF Once, Numbered, NoRepeat, AtMostOnce

LEMMA OnceNext == Inv /\ Once /\ [Next]_vars => Once'
<1> SUFFICES ASSUME Inv, Once, [Next]_vars PROVE Once'
  OBVIOUS
<1>b. buf \in [Slots -> BufType] /\ rx \in RxType
  BY DEF Inv, TypeOK, BufType, RxType, RxPcs
<1>1. ASSUME NEW len \in CborLens, RxReceive(len) PROVE Once'
  BY <1>1, OnceKept DEF RxReceive
<1>2. CASE GetActive
  <2>1. UNCHANGED <<buf, poll, sent, count>> /\ rx.pc = "active"
    BY <1>2 DEF GetActive
  <2>2. rx'.msg = rx.msg
    BY <1>b, <1>2 DEF GetActive, RxType
  <2> QED BY <2>1, <2>2, OnceKept
<1>3. CASE GetEmpty
  <2>1. UNCHANGED <<poll, sent, count>> /\ rx.pc = "empty"
    BY <1>3 DEF GetEmpty
  <2>2. rx'.msg = rx.msg
    BY <1>b, <1>3 DEF GetEmpty, RxType
  <2>3. \A b \in Slots : buf'[b] = buf[b] \/ buf'[b].msgs = <<>>
    <3>1. ASSUME NEW i \in Slots, prepare_buffer(i)
          PROVE  \A b \in Slots : buf'[b] = buf[b] \/ buf'[b].msgs = <<>>
      <4> DEFINE new == [state |-> "ACTIVE", len |-> Header, msgs |-> <<>>]
      <4>1. buf' = [buf EXCEPT ![i] = new]
        BY <3>1 DEF prepare_buffer
      <4>2. new.msgs = <<>>
        OBVIOUS
      <4> HIDE DEF new
      <4> QED BY <1>b, <4>1, <4>2
    <3>2. UNCHANGED buf \/ \E i \in Slots : prepare_buffer(i)
      BY <1>3 DEF GetEmpty
    <3> QED BY <3>1, <3>2
  <2> QED BY <2>1, <2>2, <2>3, OnceKept
<1>4. CASE Check
  <2>1. UNCHANGED <<buf, poll, sent, count>> /\ rx.pc = "check"
    BY <1>4 DEF Check
  <2>2. rx'.msg = rx.msg
    BY <1>b, <1>4 DEF Check, RxType
  <2> QED BY <2>1, <2>2, OnceKept
<1>5. CASE close_buffer
  <2>1. UNCHANGED <<poll, sent, count>> /\ rx.pc = "close"
    BY <1>5 DEF close_buffer
  <2>2. rx'.msg = rx.msg
    BY <1>b, <1>5 DEF close_buffer, RxType
  <2>3. buf[rx.b].state # "EMPTY" /\ rx.b \in Slots
    BY <2>1 DEF Inv, RxOwns
  <2>4. \A b \in Slots : buf'[b].msgs = buf[b].msgs /\ (b # rx.b => buf'[b] = buf[b])
    BY <1>b, <1>5, <2>3 DEF close_buffer, Closed
  <2> QED BY <2>1, <2>2, <2>3, <2>4, OnceKept
<1>6. CASE AppendMsg
  BY <1>6, OnceAppend
<1>7. CASE Poll \/ PollVoid \/ PollSend
  BY <1>7, OnceKept DEF Poll, PollVoid, PollSend
<1>8. CASE PollSent
  BY <1>8, OncePollSent
<1>9. CASE PollRelease
  <2>1. UNCHANGED <<rx, sent, count>> /\ poll.b \in Slots
    BY <1>9 DEF PollRelease, Inv, PollOwns
  <2>2. buf' = [buf EXCEPT ![poll.b] = [@ EXCEPT !.state = "EMPTY"]]
    BY <1>9 DEF PollRelease, Released
  <2>3. /\ buf'[poll.b].state = "EMPTY"
        /\ \A b \in Slots : b # poll.b => buf'[b] = buf[b]
    BY <1>b, <2>1, <2>2 DEF BufType
  <2> QED BY <2>1, <2>3, OnceKept
<1>10. CASE Retreat \/ AssignId \/ UNCHANGED vars
  BY <1>10, OnceKept DEF Retreat, AssignId, vars
<1> QED BY <1>1, <1>2, <1>3, <1>4, <1>5, <1>6, <1>7, <1>8, <1>9, <1>10 DEF Next, RxStep

-----------------------------------------------------------------------------
(* Nothing saved is lost                                                   *)

Counted == count <= MaxMsgs /\ (rx.pc # "receive" => count >= 1)

LEMMA CountedNext == Inv /\ Counted /\ [Next]_vars => Counted'
<1> SUFFICES ASSUME Inv, Counted, [Next]_vars PROVE Counted'
  OBVIOUS
<1>0. count \in Nat /\ rx \in RxType /\ MaxMsgs \in Nat
  BY MqAssumption DEF Inv, TypeOK, RxType, RxPcs
<1>1. ASSUME NEW len \in CborLens, RxReceive(len) PROVE Counted'
  BY <1>0, <1>1 DEF RxReceive, Counted
<1>2. CASE RxStep
  <2>1. count' = count /\ rx.pc # "receive"
    BY <1>2 DEF RxStep, GetActive, GetEmpty, Check, close_buffer, AppendMsg
  <2> QED BY <2>1 DEF Counted
<1>3. CASE Poll \/ PollVoid \/ PollSend \/ PollSent \/ PollRelease
  BY <1>3 DEF Poll, PollVoid, PollSend, PollSent, PollRelease, Counted
<1>4. CASE Retreat \/ AssignId \/ UNCHANGED vars
  BY <1>4 DEF Retreat, AssignId, vars, Counted
<1> QED BY <1>1, <1>2, <1>3, <1>4 DEF Next

(* Message m is in buffer b.                                               *)
Has(b, m) == \E k \in DOMAIN buf[b].msgs : buf[b].msgs[k] = m

LEMMA KeptIff == \A m : m \in Kept <=> \E b \in Slots : Holding(b) /\ Has(b, m)
<1> TAKE m
<1>1. ASSUME NEW b \in Slots, Holding(b), Has(b, m) PROVE m \in Kept
  BY <1>1 DEF Kept, Has
<1>2. ASSUME m \in Kept PROVE \E b \in Slots : Holding(b) /\ Has(b, m)
  BY <1>2 DEF Kept, Has
<1> QED BY <1>1, <1>2

LEMMA KeptIffNext == \A m : m \in Kept' <=> \E b \in Slots : Holding(b)' /\ Has(b, m)'
<1> TAKE m
<1>1. ASSUME NEW b \in Slots, Holding(b)', Has(b, m)' PROVE m \in Kept'
  BY <1>1 DEF Kept, Has
<1>2. ASSUME m \in Kept' PROVE \E b \in Slots : Holding(b)' /\ Has(b, m)'
  BY <1>2 DEF Kept, Has
<1> QED BY <1>1, <1>2

(* A buffer that is taken empty, finished or released after its answer     *)
(* changes nothing of what is kept.                                        *)
LEMMA KeptSame ==
  ASSUME \A b \in Slots : \/ (Holding(b)' <=> Holding(b)) /\ buf'[b].msgs = buf[b].msgs
                          \/ ~Holding(b) /\ buf'[b].msgs = <<>>
  PROVE  Kept' = Kept
<1>1. \A m : m \in Kept' <=> \E b \in Slots : Holding(b)' /\ Has(b, m)'
  BY KeptIffNext
<1>2. ASSUME NEW m, NEW b \in Slots PROVE Holding(b)' /\ Has(b, m)' <=> Holding(b) /\ Has(b, m)
  <2>1. CASE (Holding(b)' <=> Holding(b)) /\ buf'[b].msgs = buf[b].msgs
    BY <2>1 DEF Has
  <2>2. CASE ~Holding(b) /\ buf'[b].msgs = <<>>
    <3>1. DOMAIN buf'[b].msgs = {}
      BY <2>2
    <3> QED BY <2>2, <3>1 DEF Has
  <2> QED BY <2>1, <2>2
<1>3. \A m : m \in Kept' <=> m \in Kept
  BY <1>1, <1>2, KeptIff
<1> QED BY <1>3

LEMMA SaveStep ==
  ASSUME Inv, Once, Counted, AppendMsg
  PROVE  \E m \in 1 .. MaxMsgs : Bag!Save(m)
<1>0. /\ rx.b \in Slots /\ buf[rx.b].state = "ACTIVE" /\ rx.pc = "append" /\ rx.pc # "receive"
      /\ rx.msg = count /\ count \in Nat /\ MaxMsgs \in Nat
  BY MqAssumption DEF Inv, RxOwns, TypeOK, AppendMsg, Once, Numbered
<1>c. PICK c \in Slots : c = rx.b
  BY <1>0
<1> DEFINE old == buf[c].msgs
<1>1. old \in Seq(Nat)
  BY MsgsType
<1>2. /\ buf'[c].msgs = Append(old, count) /\ buf'[c].state = "ACTIVE"
      /\ \A b \in Slots : b # c => buf'[b] = buf[b]
      /\ UNCHANGED <<poll, valid, sent, count>>
  BY <1>0, <1>c DEF AppendMsg, Inv, TypeOK
<1>3. Holding(c) /\ Holding(c)'
  <2>1. ~(poll.pc = "release" /\ poll.b = c)
    BY <1>0, <1>c DEF Inv, PollOwns
  <2> QED BY <1>0, <1>c, <1>2, <2>1 DEF Holding
<1>4. \A b \in Slots : Holding(b)' <=> Holding(b)
  BY <1>2, <1>3 DEF Holding
<1>5. \A m : Has(c, m)' <=> Has(c, m) \/ m = count
  <2>1. /\ DOMAIN Append(old, count) = 1 .. Len(old) + 1 /\ Append(old, count)[Len(old) + 1] = count
        /\ \A k \in 1 .. Len(old) : Append(old, count)[k] = old[k]
        /\ DOMAIN old = 1 .. Len(old) /\ Len(old) \in Nat
    BY <1>0, <1>1
  <2>2. \A k : k \in DOMAIN Append(old, count) <=> k \in DOMAIN old \/ k = Len(old) + 1
    BY <2>1
  <2>3. \A m : Has(c, m) <=> \E k \in DOMAIN old : old[k] = m
    BY DEF Has
  <2>4. \A m : Has(c, m)' <=> \E k \in DOMAIN Append(old, count) : Append(old, count)[k] = m
    BY <1>2 DEF Has
  <2> HIDE DEF old
  <2> QED BY <2>1, <2>2, <2>3, <2>4
<1>6. \A b \in Slots : b # c => \A m : Has(b, m)' <=> Has(b, m)
  BY <1>2 DEF Has
<1>7. Kept' = Kept \cup {count}
  <2>1. \A m : m \in Kept' <=> \E b \in Slots : Holding(b)' /\ Has(b, m)'
    BY KeptIffNext
  <2>2. \A m : m \in Kept' <=> m \in Kept \/ m = count
    <3> TAKE m
    <3>1. CASE m = count
      BY <1>3, <1>5, <2>1, <3>1
    <3>2. CASE m # count
      <4>1. \A b \in Slots : Holding(b)' /\ Has(b, m)' <=> Holding(b) /\ Has(b, m)
        BY <1>4, <1>5, <1>6, <3>2
      <4> QED BY <2>1, <3>2, <4>1, KeptIff
    <3> QED BY <3>1, <3>2
  <2> QED BY <2>2
<1>8. count \notin Kept
  <2>1. \A b \in Slots : Holding(b) => ~Has(b, count)
    BY <1>0 DEF Holding, Has, Once, Numbered
  <2> QED BY <2>1, KeptIff
<1>9. \A i \in DOMAIN sent : sent[i] # count
  BY <1>0 DEF Once, Numbered
<1>10. count \in 1 .. MaxMsgs
  BY <1>0 DEF Counted
<1>11. Bag!Save(count)
  BY <1>2, <1>7, <1>8, <1>9 DEF Bag!Save
<1> QED BY <1>10, <1>11

LEMMA AnswerStep ==
  ASSUME Inv, Once, PollSent
  PROVE  Bag!Answer
<1>0. /\ poll.b \in Slots /\ buf[poll.b].state # "EMPTY" /\ poll.pc = "sending" /\ sent \in Seq(Nat)
  BY DEF Inv, PollOwns, PollSent, Once, Numbered
<1>1. UNCHANGED <<buf, valid>> /\ poll'.pc = "release" /\ poll'.b = poll.b
  BY DEF PollSent, Inv, TypeOK
<1>c. PICK c \in Slots : c = poll.b
  BY <1>0
<1> DEFINE m == buf[c].msgs
<1>2. m \in Seq(Nat)
  BY MsgsType
<1>3. /\ sent' = sent \o m /\ Len(sent) \in Nat /\ Len(m) \in Nat
      /\ DOMAIN sent = 1 .. Len(sent) /\ DOMAIN m = 1 .. Len(m)
      /\ Len(sent') = Len(sent) + Len(m) /\ DOMAIN sent' = 1 .. Len(sent) + Len(m)
  BY <1>0, <1>c, <1>2 DEF PollSent
<1> DEFINE N == Len(sent) + 1 .. Len(sent')
<1>4. \A i \in DOMAIN sent : i \in DOMAIN sent' /\ sent'[i] = sent[i]
  BY <1>0, <1>2, <1>3
<1>5. \A i \in N : i - Len(sent) \in DOMAIN m /\ sent'[i] = m[i - Len(sent)]
  BY <1>0, <1>2, <1>3
<1>6. \A k \in DOMAIN m : k + Len(sent) \in N /\ sent'[k + Len(sent)] = m[k]
  <2>1. \A k \in DOMAIN m : k + Len(sent) \in N /\ (k + Len(sent)) - Len(sent) = k
    <3> HIDE DEF m
    <3> QED BY <1>3
  <2> HIDE DEF m, N
  <2> QED BY <1>5, <2>1
<1>7. \A i, j \in N : sent'[i] = sent'[j] => i = j
  <2> SUFFICES ASSUME NEW i \in N, NEW j \in N, sent'[i] = sent'[j] PROVE i = j
    OBVIOUS
  <2>1. \A k, l \in DOMAIN m : m[k] = m[l] => k = l
    BY <1>0, <1>c DEF Once, NoRepeat
  <2>2. i \in Int /\ j \in Int
    BY <1>3
  <2>3. i - Len(sent) = j - Len(sent)
    <3> HIDE DEF m, N
    <3> QED BY <1>5, <2>1
  <2> HIDE DEF m, N
  <2> QED BY <1>3, <2>2, <2>3
<1>8. \A v : Has(c, v) <=> \E i \in N : sent'[i] = v
  <2>1. \A v : Has(c, v) <=> \E k \in DOMAIN m : m[k] = v
    BY DEF Has
  <2> HIDE DEF m, N
  <2> QED BY <1>5, <1>6, <2>1
<1> HIDE DEF m, N
<1>9. Holding(c) /\ ~Holding(c)'
  BY <1>0, <1>1, <1>c DEF Holding
<1>10. \A b \in Slots : b # c => (Holding(b)' <=> Holding(b))
  BY <1>0, <1>1, <1>c DEF Holding
<1>11. \A v : \A b \in Slots : b # c /\ Holding(b) /\ Has(b, v) => ~Has(c, v)
  <2> SUFFICES ASSUME NEW v, NEW b \in Slots, b # c, Holding(b), Has(b, v), Has(c, v)
               PROVE  FALSE
    OBVIOUS
  <2>1. PICK k \in DOMAIN buf[b].msgs : buf[b].msgs[k] = v
    BY DEF Has
  <2>2. PICK l \in DOMAIN buf[c].msgs : buf[c].msgs[l] = v
    BY DEF Has
  <2>3. c \in Slots \ {b} /\ buf[b].state # "EMPTY"
    BY DEF Holding
  <2> QED BY <1>0, <1>c, <2>1, <2>2, <2>3 DEF Once, AtMostOnce
<1>12. Kept' = Kept \ {sent'[i] : i \in N}
  <2>1. \A v : v \in Kept' <=> \E b \in Slots : Holding(b)' /\ Has(b, v)
    <3>1. \A v : v \in Kept' <=> \E b \in Slots : Holding(b)' /\ Has(b, v)'
      BY KeptIffNext
    <3>2. \A v : \A b \in Slots : Has(b, v)' <=> Has(b, v)
      BY <1>1 DEF Has
    <3> QED BY <3>1, <3>2
  <2>2. \A v : v \in Kept' <=> v \in Kept /\ ~Has(c, v)
    <3> TAKE v
    <3>1. CASE Has(c, v)
      BY <1>9, <1>10, <1>11, <2>1, <3>1
    <3>2. CASE ~Has(c, v)
      <4>1. \A b \in Slots : Holding(b)' /\ Has(b, v) <=> Holding(b) /\ Has(b, v)
        BY <1>10, <3>2
      <4> QED BY <2>1, <3>2, <4>1, KeptIff
    <3> QED BY <3>1, <3>2
  <2>3. \A v : v \in {sent'[i] : i \in N} <=> Has(c, v)
    BY <1>8
  <2> QED BY <2>2, <2>3
<1>13. \A i \in N : sent'[i] \in Kept
  BY <1>8, <1>9, KeptIff
<1> QED BY <1>1, <1>4, <1>7, <1>12, <1>13 DEF Bag!Answer, Bag!New, N

(* A poll without a valid id drops what its buffer held, and nothing else  *)
(* changes.                                                                *)
LEMMA DiscardStep ==
  ASSUME Inv, PollVoid
  PROVE  Bag!Discard
<1>1. UNCHANGED <<buf, sent, valid>> /\ ~valid /\ poll.pc = "send"
  BY DEF PollVoid
<1>2. \A b \in Slots : Holding(b)' => Holding(b)
  BY <1>1 DEF Holding
<1>3. \A m : \A b \in Slots : Has(b, m)' <=> Has(b, m)
  BY <1>1 DEF Has
<1>4. \A m : m \in Kept' => m \in Kept
  BY <1>2, <1>3, KeptIff, KeptIffNext
<1> QED BY <1>1, <1>4 DEF Bag!Discard

LEMMA BagStep ==
  ASSUME Inv, Once, Counted, [Next]_vars
  PROVE  Bag!Next \/ UNCHANGED <<Kept, sent, valid>>
<1>b. buf \in [Slots -> BufType] /\ rx \in RxType
  BY DEF Inv, TypeOK, BufType, RxType, RxPcs
<1>u. ASSUME UNCHANGED <<buf, sent, valid>>, poll.pc # "release", poll'.pc # "release"
      PROVE  UNCHANGED <<Kept, sent, valid>>
  BY <1>u, KeptSame DEF Holding
<1>v. ASSUME UNCHANGED <<buf, poll, sent, valid>> PROVE UNCHANGED <<Kept, sent, valid>>
  BY <1>v, KeptSame DEF Holding
<1>1. ASSUME NEW len \in CborLens, RxReceive(len) PROVE UNCHANGED <<Kept, sent, valid>>
  BY <1>v, <1>1 DEF RxReceive
<1>2. CASE GetActive \/ Check \/ UNCHANGED vars
  BY <1>v, <1>2 DEF GetActive, Check, vars
<1>3. CASE GetEmpty
  <2>1. UNCHANGED <<poll, sent, valid>>
    BY <1>3 DEF GetEmpty
  <2>2. CASE UNCHANGED buf
    BY <1>v, <2>1, <2>2
  <2>3. ASSUME NEW i \in Slots, FirstIn("EMPTY", i), prepare_buffer(i) PROVE UNCHANGED <<Kept, sent, valid>>
    <3> DEFINE new == [state |-> "ACTIVE", len |-> Header, msgs |-> <<>>]
    <3>1. buf' = [buf EXCEPT ![i] = new] /\ new.msgs = <<>> /\ buf[i].state = "EMPTY"
      BY <2>3 DEF prepare_buffer, FirstIn
    <3> HIDE DEF new
    <3>2. buf'[i].msgs = <<>> /\ ~Holding(i) /\ \A b \in Slots : b # i => buf'[b] = buf[b]
      BY <1>b, <3>1 DEF Holding
    <3>3. \A b \in Slots : b # i => (Holding(b)' <=> Holding(b))
      BY <2>1, <3>2 DEF Holding
    <3> QED BY <2>1, <3>2, <3>3, KeptSame
  <2> QED BY <1>3, <2>2, <2>3 DEF GetEmpty
<1>4. CASE close_buffer
  <2>1. UNCHANGED <<poll, sent, valid>> /\ rx.pc = "close"
    BY <1>4 DEF close_buffer
  <2>2. buf[rx.b].state # "EMPTY" /\ rx.b \in Slots
    BY <2>1 DEF Inv, RxOwns
  <2>3. /\ buf'[rx.b].state # "EMPTY"
        /\ \A b \in Slots : buf'[b].msgs = buf[b].msgs /\ (b # rx.b => buf'[b] = buf[b])
    BY <1>b, <1>4, <2>2 DEF close_buffer, Closed
  <2>4. \A b \in Slots : Holding(b)' <=> Holding(b)
    BY <2>1, <2>2, <2>3 DEF Holding
  <2> QED BY <2>1, <2>3, <2>4, KeptSame
<1>5. CASE AppendMsg
  BY <1>5, SaveStep DEF Bag!Next
<1>6. CASE Poll \/ PollSend
  BY <1>u, <1>6 DEF Poll, PollSend, Inv, TypeOK
<1>7. CASE PollSent
  BY <1>7, AnswerStep DEF Bag!Next
<1>8. CASE PollRelease
  <2>1. poll.pc = "release" /\ poll'.pc = "receive" /\ UNCHANGED <<sent, valid>> /\ poll.b \in Slots
    BY <1>8 DEF PollRelease, Inv, PollOwns, TypeOK
  <2>2. buf' = [buf EXCEPT ![poll.b] = [@ EXCEPT !.state = "EMPTY"]]
    BY <1>8 DEF PollRelease, Released
  <2>3. /\ buf'[poll.b].state = "EMPTY" /\ buf'[poll.b].msgs = buf[poll.b].msgs
        /\ \A b \in Slots : b # poll.b => buf'[b] = buf[b]
    BY <1>b, <2>1, <2>2 DEF BufType
  <2>4. \A b \in Slots : buf'[b].msgs = buf[b].msgs /\ (Holding(b)' <=> Holding(b))
    BY <2>1, <2>3 DEF Holding
  <2> QED BY <2>1, <2>4, KeptSame
<1>9. CASE PollVoid
  BY <1>9, DiscardStep DEF Bag!Next
<1>10. CASE Retreat \/ AssignId
  <2>1. Kept' = Kept
    BY <1>10, KeptSame DEF Retreat, AssignId, Holding
  <2>2. valid' = ~valid /\ sent' = sent
    BY <1>10 DEF Retreat, AssignId, Inv, TypeOK
  <2> QED BY <2>1, <2>2 DEF Bag!Next, Bag!Link
<1> QED BY <1>1, <1>2, <1>3, <1>4, <1>5, <1>6, <1>7, <1>8, <1>9, <1>10 DEF Next, RxStep

-----------------------------------------------------------------------------
(* Theorems                                                                *)

(* Type correctness of the buffers and of both tasks.                      *)
THEOREM TypeCorrect == Spec => []TypeOK
  BY InvInit, InvNext, PTL DEF Spec, Inv

(* save_msg_to_buffer never writes past a buffer, although it checks the   *)
(* space of the first buffer it finds and not of the second.               *)
THEOREM NeverOverflows == Spec => []NoOverflow
  BY InvInit, InvNext, PTL DEF Spec, Inv

(* The lock-free hand-over is sound: a buffer being sent is full and       *)
(* rx_task is not working on it.                                           *)
THEOREM HandOverSound == Spec => []SentIsFull
<1>1. Inv => SentIsFull
  BY DEF Inv, SentIsFull, RxOwns, PollOwns
<1> QED BY <1>1, InvInit, InvNext, PTL DEF Spec

(* No message is answered to two polls, nor twice in one: it leaves with   *)
(* the one buffer it was saved to, for any number of buffers.              *)
THEOREM DeliveredAtMostOnce == Spec => []AtMostOnce
<1>1. Once => AtMostOnce
  BY DEF Once
<1> QED BY <1>1, InvAlways, OnceInit, OnceNext, PTL DEF Spec

(* The buffers, which two tasks share without a lock, implement a bag from *)
(* which each message saved is answered once: nothing is repeated, and     *)
(* nothing is lost but what a poll without a valid channel id releases     *)
(* unsent.  For any number and size of buffers.                            *)
THEOREM BagRefined == Spec => ImplementsMessageBag
<1>1. Init => Counted /\ Bag!Init
  <2> SUFFICES ASSUME Init PROVE Counted /\ Bag!Init
    OBVIOUS
  <2>1. count = 0 /\ rx.pc = "receive" /\ sent = <<>> /\ MaxMsgs \in Nat
    BY MqAssumption DEF Init
  <2>2. \A b \in Slots : ~Holding(b)
    BY DEF Init, Holding
  <2>3. Kept = {}
    BY <2>2, KeptIff
  <2>4. valid = FALSE
    BY DEF Init
  <2> QED BY <2>1, <2>3, <2>4 DEF Counted, Bag!Init
<1>2. Inv /\ Once /\ Counted /\ [Next]_vars => [Bag!Next]_<<Kept, sent, valid>>
  BY BagStep
<1> QED BY <1>1, <1>2, InvInit, InvNext, OnceInit, OnceNext, CountedNext, PTL
        DEF Spec, ImplementsMessageBag, Bag!Spec

=============================================================================
