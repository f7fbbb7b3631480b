------------------------------- MODULE NbusMq -------------------------------
(***************************************************************************)
(* nbus-mq (src/services/nbus-mq): rx_task packs messages of a message     *)
(* queue into a few buffers, nbus_task answers polls from the bus with a   *)
(* full one.  The two tasks share a priority, take no lock, and hand the   *)
(* buffers over through their state fields alone.  A poll's send crosses   *)
(* the bus frame by frame, so rx_task runs during it.                      *)
(***************************************************************************)
EXTENDS Integers, Sequences, FiniteSets

CONSTANTS
  Buffers,     (* NBUS_MQ_MSG_BUFFERS                                      *)
  Size,        (* NBUS_MQ_MSG_BUFFER_SIZE                                  *)
  Header,      (* bytes that prepare_buffer writes                         *)
  CborLens,    (* encoded lengths of messages                              *)
  MaxMsgs      (* bound: messages received                                 *)

(* An empty buffer takes at least one message of any kind.                 *)
ASSUME MqAssumption ==
  /\ Buffers \in Nat /\ Size \in Nat /\ Header \in Nat /\ MaxMsgs \in Nat
  /\ CborLens \subseteq Nat
  /\ \A n \in CborLens : Header + n + 4 <= Size

Slots == 1 .. Buffers
NoBuf == 0

VARIABLES
  buf,     (* state, len and messages of each buffer                       *)
  rx,      (* rx_task: where it is, its message and the buffer it chose    *)
  poll,    (* nbus_task: where it is and the buffer it sends               *)
  valid,   (* channel_id_valid of the channel                              *)
  sent,    (* ghost: messages sent over the bus                            *)
  count    (* messages received so far                                     *)

vars == <<buf, rx, poll, valid, sent, count>>

Init ==
  /\ buf = [i \in Slots |-> [state |-> "EMPTY", len |-> 0, msgs |-> <<>>]]
  /\ rx = [pc |-> "receive", msg |-> 0, len |-> 0, b |-> NoBuf, closed |-> FALSE]
  /\ poll = [pc |-> "receive", b |-> NoBuf]
  /\ valid = FALSE /\ sent = <<>> /\ count = 0

FirstIn(state, i) ==
  buf[i].state = state /\ \A j \in Slots : j < i => buf[j].state # state

-----------------------------------------------------------------------------
(* rx_task: receive, then save_msg_to_buffer                               *)

RxReceive(len) ==
  /\ rx.pc = "receive" /\ count < MaxMsgs
  /\ count' = count + 1
  /\ rx' = [pc |-> "active", msg |-> count + 1, len |-> len, b |-> NoBuf, closed |-> FALSE]
  /\ UNCHANGED <<buf, poll, valid, sent>>

(* get_active_buffer: the active buffer, else the first empty one,         *)
(* prepared, else none and the message is dropped.  Two scans, with polls  *)
(* possible in between.                                                    *)
GetActive ==
  /\ rx.pc = "active"
  /\ \/ \E i \in Slots : FirstIn("ACTIVE", i) /\ rx' = [rx EXCEPT !.pc = "check", !.b = i]
     \/ /\ \A i \in Slots : ~FirstIn("ACTIVE", i)
        /\ rx' = [rx EXCEPT !.pc = "empty"]
  /\ UNCHANGED <<buf, poll, valid, sent, count>>

prepare_buffer(i) ==
  buf' = [buf EXCEPT ![i] = [state |-> "ACTIVE", len |-> Header, msgs |-> <<>>]]

GetEmpty ==
  /\ rx.pc = "empty"
  /\ \/ \E i \in Slots :
          /\ FirstIn("EMPTY", i)
          /\ prepare_buffer(i)
          /\ rx' = [rx EXCEPT !.pc = "check", !.b = i]
     \/ /\ \A i \in Slots : ~FirstIn("EMPTY", i)
        /\ rx' = [rx EXCEPT !.pc = "receive"]
        /\ UNCHANGED buf
  /\ UNCHANGED <<poll, valid, sent, count>>

(* "Always keep 2bytes for finishing both array and map and 2 bytes for    *)
(* start/finish of the current value map."                                 *)
Fits_NoReserve(i) == rx.len + 2 + buf[i].len <= Size
Fits(i) == 2 + rx.len + 2 + buf[i].len <= Size

(* The second buffer is not checked again.                                 *)
Check ==
  /\ rx.pc = "check"
  /\ rx' = [rx EXCEPT !.pc = IF rx.closed \/ Fits(rx.b) THEN "append" ELSE "close"]
  /\ UNCHANGED <<buf, poll, valid, sent, count>>

Closed(i) == [buf EXCEPT ![i] = [state |-> "FULL", len |-> @.len + 2, msgs |-> @.msgs]]

close_buffer ==
  /\ rx.pc = "close"
  /\ buf' = Closed(rx.b)
  /\ rx' = [rx EXCEPT !.pc = "active", !.closed = TRUE]
  /\ UNCHANGED <<poll, valid, sent, count>>

AppendMsg ==
  /\ rx.pc = "append"
  /\ buf' = [buf EXCEPT ![rx.b] = [state |-> @.state, len |-> @.len + rx.len + 2,
                                   msgs |-> Append(@.msgs, rx.msg)]]
  /\ rx' = [rx EXCEPT !.pc = "receive"]
  /\ UNCHANGED <<poll, valid, sent, count>>

-----------------------------------------------------------------------------
(* nbus_task: a poll on endpoint 1                                         *)

Ready_Active(i) == buf[i].state # "EMPTY" /\ \A j \in Slots : j < i => buf[j].state = "EMPTY"
Ready(i) == FirstIn("FULL", i)

(* get_ready_buffer; with none, an empty map is sent.                      *)
Poll ==
  /\ poll.pc = "receive"
  /\ \/ \E i \in Slots : Ready(i) /\ poll' = [pc |-> "send", b |-> i]
     \/ (\A i \in Slots : ~Ready(i)) /\ UNCHANGED poll
  /\ UNCHANGED <<buf, rx, valid, sent, count>>

(* nbus_channel_send of the buffer: it returns at once, and nothing is     *)
(* sent, while the channel has no valid id.  The result is not looked at.  *)
PollVoid ==
  /\ poll.pc = "send" /\ ~valid
  /\ poll' = [poll EXCEPT !.pc = "release"]
  /\ UNCHANGED <<buf, rx, valid, sent, count>>

PollSend ==
  /\ poll.pc = "send" /\ valid
  /\ poll' = [poll EXCEPT !.pc = "sending"]
  /\ UNCHANGED <<buf, rx, valid, sent, count>>

PollSent ==
  /\ poll.pc = "sending"
  /\ sent' = sent \o buf[poll.b].msgs
  /\ poll' = [poll EXCEPT !.pc = "release"]
  /\ UNCHANGED <<buf, rx, valid, count>>

Released_Not(i) == buf
Released(i) == [buf EXCEPT ![i].state = "EMPTY"]

PollRelease ==
  /\ poll.pc = "release"
  /\ buf' = Released(poll.b)
  /\ poll' = [poll EXCEPT !.pc = "receive"]
  /\ UNCHANGED <<rx, valid, sent, count>>

-----------------------------------------------------------------------------
(* The tasks of nbus: the receive task withdraws the channel's id when     *)
(* another channel advertises it, housekeeping assigns a new one.          *)

Retreat ==
  /\ valid
  /\ valid' = FALSE
  /\ UNCHANGED <<buf, rx, poll, sent, count>>

AssignId ==
  /\ ~valid
  /\ valid' = TRUE
  /\ UNCHANGED <<buf, rx, poll, sent, count>>

RxStep == GetActive \/ GetEmpty \/ Check \/ close_buffer \/ AppendMsg

Next ==
  \/ \E len \in CborLens : RxReceive(len)
  \/ RxStep
  \/ Poll \/ PollVoid \/ PollSend \/ PollSent \/ PollRelease
  \/ Retreat \/ AssignId

Spec == Init /\ [][Next]_vars

-----------------------------------------------------------------------------
(* Properties                                                              *)

TypeOK ==
  /\ buf \in [Slots -> [state : {"EMPTY", "ACTIVE", "FULL"}, len : Nat, msgs : Seq(Nat)]]
  /\ rx \in [pc : {"receive", "active", "empty", "check", "close", "append"}, msg : Nat,
             len : Nat, b : 0 .. Buffers, closed : BOOLEAN]
  /\ poll \in [pc : {"receive", "send", "sending", "release"}, b : 0 .. Buffers]
  /\ valid \in BOOLEAN /\ count \in Nat

(***************************************************************************)
(* No buffer overflows, the closing bytes included, although only the      *)
(* first buffer found is checked for space.                                *)
(***************************************************************************)
NoOverflow == \A i \in Slots : buf[i].len <= Size

(***************************************************************************)
(* Hand-over without a lock: while nbus_task sends a buffer, rx_task       *)
(* neither picks nor changes it, so a poll is answered with a finished     *)
(* buffer.                                                                 *)
(***************************************************************************)
SentIsFull ==
  poll.pc \in {"send", "sending", "release"} =>
    /\ buf[poll.b].state = "FULL"
    /\ rx.pc \in {"check", "close", "append"} => rx.b # poll.b

(***************************************************************************)
(* No message is sent twice, and none is in two buffers or in a buffer     *)
(* that was already sent: each message is delivered at most once.          *)
(***************************************************************************)
AtMostOnce ==
  /\ \A i, j \in DOMAIN sent : sent[i] = sent[j] => i = j
  /\ \A b \in Slots : \A k \in DOMAIN buf[b].msgs :
       buf[b].state # "EMPTY" =>
         /\ \A i \in DOMAIN sent :
              sent[i] = buf[b].msgs[k] => poll.pc = "release" /\ poll.b = b
         /\ \A c \in Slots \ {b} : \A l \in DOMAIN buf[c].msgs :
              buf[c].state # "EMPTY" => buf[c].msgs[l] # buf[b].msgs[k]

(* A buffer holds its messages until nbus_channel_send has returned.       *)
Holding(b) == buf[b].state # "EMPTY" /\ ~(poll.pc = "release" /\ poll.b = b)
Kept == UNION {{buf[b].msgs[k] : k \in DOMAIN buf[b].msgs} : b \in {c \in Slots : Holding(c)}}

Bag == INSTANCE MessageBag
         WITH Msgs <- 1 .. MaxMsgs, kept <- Kept, answered <- sent, linked <- valid

(***************************************************************************)
(* Nothing that save_msg_to_buffer saved is repeated, and nothing is lost  *)
(* while the channel has a valid id: whatever the two tasks do to the      *)
(* buffers, a message stays in one until a poll is answered with it.  The  *)
(* one way to lose messages is a poll served without an id, because        *)
(* nbus_task releases the buffer whether or not it was sent.               *)
(***************************************************************************)
ImplementsMessageBag == Bag!Spec

=============================================================================
