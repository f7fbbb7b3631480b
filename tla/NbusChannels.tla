---------------------------- MODULE NbusChannels ----------------------------
(***************************************************************************)
(* How nbus channels get their 16-bit channel-id (src/services/nbus).      *)
(* Nobody assigns ids: a node hashes a channel's short-id with the current *)
(* channel-id, advertises the result, repeats the advertisement every      *)
(* NBUS_ADV_TIME rounds of its housekeeping task, and retreats to the next *)
(* hash when it hears its own id advertised by another node.               *)
(*                                                                         *)
(* A CAN controller does not hear its own frames.  nbus_receive_task       *)
(* outranks nbus_housekeeping_task and runs between any two of its steps.  *)
(***************************************************************************)
EXTENDS Integers, Sequences, FiniteSets

CONSTANTS
  Nodes, Channels,
  Owner,       (* the node of each channel                                 *)
  Ids,         (* channel-ids, 0 included                                  *)
  Hash,        (* [Channels \X Ids -> Ids]: blake2s of short-id and id     *)
  AdvTime,     (* NBUS_ADV_TIME                                            *)
  None,        (* NULL                                                     *)
  FifoLen,     (* bound: frames waiting in a node's CAN FIFO               *)
  MaxLost      (* bound: advertisements lost                               *)

ASSUME ChannelsAssumption ==
  /\ Owner \in [Channels -> Nodes]
  /\ 0 \in Ids /\ Hash \in [Channels \X Ids -> Ids]
  /\ AdvTime \in Nat \ {0} /\ None \notin Channels
  /\ FifoLen \in Nat /\ MaxLost \in Nat

VARIABLES
  list,    (* each node's channels, newest first                           *)
  ch,      (* channel_id, channel_id_valid and adv_time of each channel    *)
  hk,      (* housekeeping task of each node: which loop, which channel    *)
  fifo,    (* advertised ids that a node has yet to receive                *)
  lost

vars == <<list, ch, hk, fifo, lost>>

NewChannel == [id |-> 0, valid |-> FALSE, adv_time |-> 0]

Init ==
  /\ list = [n \in Nodes |-> <<>>]
  /\ ch = [c \in Channels |-> NewChannel]
  /\ hk = [n \in Nodes |-> [pc |-> "adv", c |-> None]]
  /\ fifo = [n \in Nodes |-> <<>>]
  /\ lost = 0

First(n) == IF list[n] = <<>> THEN None ELSE Head(list[n])
Added(c) == \E i \in DOMAIN list[Owner[c]] : list[Owner[c]][i] = c
After(n, c) ==
  LET i == CHOOSE i \in DOMAIN list[n] : list[n][i] = c
  IN  IF i = Len(list[n]) THEN None ELSE list[n][i + 1]

(* Channels are added while the tasks of nbus_init already run.            *)
nbus_add_channel(c) ==
  /\ ~Added(c)
  /\ list' = [list EXCEPT ![Owner[c]] = <<c>> \o @]
  /\ UNCHANGED <<ch, hk, fifo, lost>>

-----------------------------------------------------------------------------
(* nbus_housekeeping_task                                                  *)

HkGoto(n, pc, c) == hk' = [hk EXCEPT ![n] = [pc |-> pc, c |-> c]]

(* The end of one loop is the start of the other.                          *)
HkLoop(n) ==
  /\ hk[n].c = None
  /\ HkGoto(n, IF hk[n].pc = "adv" THEN "gen" ELSE "adv", First(n))
  /\ UNCHANGED <<list, ch, fifo, lost>>

AdvDue(t) == t >= AdvTime

(* nbus_send_adv, one channel.                                             *)
nbus_send_adv(n) ==
  LET c == hk[n].c IN
  /\ hk[n].pc = "adv" /\ c # None
  /\ \/ /\ ~ch[c].valid
        /\ UNCHANGED ch
        /\ HkGoto(n, "adv", After(n, c))
     \/ /\ ch[c].valid /\ AdvDue(ch[c].adv_time + 1)
        /\ ch' = [ch EXCEPT ![c].adv_time = 0]
        /\ HkGoto(n, "adv_send", c)
     \/ /\ ch[c].valid /\ ~AdvDue(ch[c].adv_time + 1)
        /\ ch' = [ch EXCEPT ![c].adv_time = @ + 1]
        /\ HkGoto(n, "adv", After(n, c))
  /\ UNCHANGED <<list, fifo, lost>>

(* nbus_generate_short_ids, one channel: hash, then mark valid.            *)
NewId(c) == Hash[c, ch[c].id]

nbus_generate_short_ids(n) ==
  LET c == hk[n].c IN
  /\ hk[n].pc = "gen" /\ c # None
  /\ \/ /\ ch[c].valid
        /\ UNCHANGED ch
        /\ HkGoto(n, "gen", After(n, c))
     \/ /\ ~ch[c].valid
        /\ ch' = [ch EXCEPT ![c].id = NewId(c), ![c].valid = TRUE]
        /\ HkGoto(n, "gen_send", c)
  /\ UNCHANGED <<list, fifo, lost>>

(* advertise_channel_id, from either loop.  The id is read now.  The bus   *)
(* carries one frame at a time, no faster than receive tasks fetch them.   *)
advertise_channel_id(n) ==
  LET c == hk[n].c IN
  /\ hk[n].pc \in {"adv_send", "gen_send"}
  /\ \A m \in Nodes \ {n} : Len(fifo[m]) < FifoLen
  /\ \/ /\ fifo' = [m \in Nodes |-> IF m = n THEN fifo[m] ELSE Append(fifo[m], ch[c].id)]
        /\ UNCHANGED lost
     \/ /\ lost < MaxLost /\ lost' = lost + 1
        /\ UNCHANGED fifo
  /\ HkGoto(n, IF hk[n].pc = "adv_send" THEN "adv" ELSE "gen", After(n, c))
  /\ UNCHANGED <<list, ch>>

-----------------------------------------------------------------------------
(* nbus_receive_task                                                       *)

(* nbus_channel_find_by_id: the first valid channel of the list.           *)
FindById(n, id, i) ==
  /\ ch[list[n][i]].valid /\ ch[list[n][i]].id = id
  /\ \A j \in 1 .. i - 1 : ~(ch[list[n][j]].valid /\ ch[list[n][j]].id = id)

Retreat_Never(c) == ch
Retreat(c) == [ch EXCEPT ![c].valid = FALSE]

Receive(n) ==
  /\ fifo[n] # <<>>
  /\ fifo' = [fifo EXCEPT ![n] = Tail(@)]
  /\ \/ \E i \in DOMAIN list[n] :
          FindById(n, Head(fifo[n]), i) /\ ch' = Retreat(list[n][i])
     \/ /\ \A i \in DOMAIN list[n] : ~FindById(n, Head(fifo[n]), i)
        /\ UNCHANGED ch
  /\ UNCHANGED <<list, hk, lost>>

HkStep(n) ==
  HkLoop(n) \/ nbus_send_adv(n) \/ nbus_generate_short_ids(n) \/ advertise_channel_id(n)

Next ==
  \/ \E c \in Channels : nbus_add_channel(c)
  \/ \E n \in Nodes : HkStep(n) \/ Receive(n)

Spec == Init /\ [][Next]_vars

(* Both tasks of every node are scheduled.                                 *)
FairSpec ==
  Spec /\ \A n \in Nodes : WF_vars(HkStep(n)) /\ WF_vars(Receive(n))

-----------------------------------------------------------------------------
(* Properties                                                              *)

TypeOK ==
  /\ \A n \in Nodes : \A i \in DOMAIN list[n] : Owner[list[n][i]] = n
  /\ ch \in [Channels -> [id : Ids, valid : BOOLEAN, adv_time : 0 .. AdvTime - 1]]
  /\ hk \in [Nodes -> [pc : {"adv", "adv_send", "gen", "gen_send"}, c : Channels \cup {None}]]
  /\ fifo \in [Nodes -> Seq(Ids)] /\ lost \in 0 .. MaxLost

Conflict(c, d) ==
  c # d /\ Owner[c] # Owner[d] /\ ch[c].valid /\ ch[d].valid /\ ch[c].id = ch[d].id

(***************************************************************************)
(* Conflicts end: from some time on every added channel has a valid id     *)
(* and no two channels of different nodes share one, although both sides   *)
(* of a conflict may retreat at once, onto ids that are taken, and         *)
(* advertisements get lost.  (For a Hash whose chains can separate.)       *)
(***************************************************************************)
Converges ==
  <>[](/\ \A c \in Channels : Added(c) => ch[c].valid
       /\ \A c, d \in Channels : ~Conflict(c, d))

=============================================================================
