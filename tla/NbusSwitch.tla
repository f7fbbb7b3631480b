----------------------------- MODULE NbusSwitch -----------------------------
(***************************************************************************)
(* The nbus switch (src/services/nbus-switch): one receive task per port   *)
(* queues frames, the process task learns which port each end of a channel *)
(* speaks from and forwards the frame, the housekeeping task ages and      *)
(* evicts table entries.  No lock is taken: the process and housekeeping   *)
(* tasks share a priority and the scheduler switches between them at any   *)
(* time, certainly while a send blocks.                                    *)
(***************************************************************************)
EXTENDS Integers, Sequences

CONSTANTS
  MaxChannels,   (* NBUS_SWITCH_MAX_CHANNELS                               *)
  MaxPorts,      (* NBUS_SWITCH_MAX_PORTS                                  *)
  IqSize,        (* NBUS_SWITCH_IQ_SIZE                                    *)
  MaxLifetime,   (* NBUS_SWITCH_MAX_LIFETIME                               *)
  Channels,      (* channel numbers in use                                 *)
  MaxFrames      (* bound: frames received                                 *)

ASSUME SwitchAssumption ==
  /\ MaxChannels \in Nat \ {0} /\ MaxPorts \in Nat /\ IqSize \in Nat /\ MaxLifetime \in Nat
  /\ Channels \subseteq Nat
  /\ MaxFrames \in Nat

Dirs == {"REQUEST", "RESPONSE", "PUBLISH", "SUBSCRIBE"}
NoPort == 0
Slots == 1 .. MaxChannels
Zeroed == [ch |-> 0, dir |-> "REQUEST", port |-> NoPort, last_access |-> 0]

VARIABLES
  ports,    (* ports 1 .. ports have been added                            *)
  iq,       (* the input queue                                             *)
  ch,       (* the channel lookup table                                    *)
  proc,     (* process task: where it is, its frame, the entries it found  *)
  sent,     (* ports that the frame in proc was sent to                    *)
  hk,       (* housekeeping task: where it is, its loop index              *)
  frames,   (* frames received so far                                      *)
  spoke,    (* ghost: the port each end of each channel last spoke from    *)
  preempt   (* FALSE: schedules where housekeeping runs only between frames *)

vars == <<ports, iq, ch, proc, sent, hk, frames, spoke, preempt>>

Init ==
  /\ ports = 0 /\ iq = <<>> /\ frames = 0
  /\ ch = [i \in Slots |-> Zeroed]
  /\ proc = [pc |-> "idle", port |-> NoPort, ch |-> 0, dir |-> "PUBLISH", src |-> 0, dst |-> 0]
  /\ sent = {}
  /\ hk = [pc |-> "age", i |-> 1]
  /\ spoke = [k \in Channels \X Dirs |-> NoPort]
  /\ preempt \in BOOLEAN

-----------------------------------------------------------------------------
(* Ports                                                                   *)

nbus_switch_add_port ==
  /\ ports < MaxPorts
  /\ ports' = ports + 1
  /\ UNCHANGED <<iq, ch, proc, sent, hk, frames, spoke, preempt>>

(* nbus_switch_receive_task: a frame is queued, or dropped by a full queue.*)
Receive(p, c, d) ==
  /\ frames < MaxFrames
  /\ frames' = frames + 1
  /\ iq' = IF Len(iq) < IqSize THEN Append(iq, [port |-> p, ch |-> c, dir |-> d]) ELSE iq
  /\ UNCHANGED <<ports, ch, proc, sent, hk, spoke, preempt>>

-----------------------------------------------------------------------------
(* nbus_switch_process                                                     *)

IsEntry(i, c, d) == ch[i].port # NoPort /\ ch[i].ch = c /\ ch[i].dir = d

(* find_channel: the first match; it fails if there is none.               *)
find_channel_Nothing(i, c, d) == FALSE
find_channel(i, c, d) == IsEntry(i, c, d) /\ \A j \in Slots : j < i => ~IsEntry(j, c, d)

(* add_channel: the first free record; it fails if there is none.          *)
add_channel(i) == ch[i].port = NoPort /\ \A j \in Slots : j < i => ch[j].port # NoPort

Reverse(d) == IF d = "REQUEST" THEN "RESPONSE" ELSE "REQUEST"

Dequeue ==
  /\ proc.pc = "idle" /\ iq # <<>>
  /\ preempt \/ hk.pc = "age"
  /\ LET f == Head(iq) IN
     /\ proc' = [pc |-> IF f.dir = "PUBLISH" THEN "multi" ELSE "find",
                 port |-> f.port, ch |-> f.ch, dir |-> f.dir, src |-> 0, dst |-> 0]
     /\ spoke' = [spoke EXCEPT ![<<f.ch, f.dir>>] = f.port]
  /\ iq' = Tail(iq)
  /\ sent' = {}
  /\ UNCHANGED <<ports, ch, hk, frames, preempt>>

FindSource ==
  /\ proc.pc = "find"
  /\ \/ \E i \in Slots : find_channel(i, proc.ch, proc.dir)
                         /\ proc' = [proc EXCEPT !.pc = "touch", !.src = i]
     \/ /\ \A i \in Slots : ~find_channel(i, proc.ch, proc.dir)
        /\ proc' = [proc EXCEPT !.pc = "add"]
  /\ UNCHANGED <<ports, iq, ch, sent, hk, frames, spoke, preempt>>

(* The record is filled in three writes: with its port, which makes it an  *)
(* entry, then with its direction, then with its channel.                  *)
AddSource ==
  /\ proc.pc = "add"
  /\ \/ \E i \in Slots :
          /\ add_channel(i)
          /\ ch' = [ch EXCEPT ![i].port = proc.port]
          /\ proc' = [proc EXCEPT !.pc = "adddir", !.src = i]
     \/ /\ \A i \in Slots : ~add_channel(i)
        /\ proc' = [proc EXCEPT !.pc = "reverse"]
        /\ UNCHANGED ch
  /\ UNCHANGED <<ports, iq, sent, hk, frames, spoke, preempt>>

AddDirection ==
  /\ proc.pc = "adddir"
  /\ ch' = [ch EXCEPT ![proc.src].dir = proc.dir]
  /\ proc' = [proc EXCEPT !.pc = "addch"]
  /\ UNCHANGED <<ports, iq, sent, hk, frames, spoke, preempt>>

AddChannel ==
  /\ proc.pc = "addch"
  /\ ch' = [ch EXCEPT ![proc.src].ch = proc.ch]
  /\ proc' = [proc EXCEPT !.pc = "touch"]
  /\ UNCHANGED <<ports, iq, sent, hk, frames, spoke, preempt>>

Touched_SamePort(e) == [e EXCEPT !.last_access = 0]
Touched(e) == [e EXCEPT !.port = proc.port, !.last_access = 0]

TouchSource ==
  /\ proc.pc = "touch"
  /\ ch' = [ch EXCEPT ![proc.src] = Touched(@)]
  /\ proc' = [proc EXCEPT !.pc = "reverse"]
  /\ UNCHANGED <<ports, iq, sent, hk, frames, spoke, preempt>>

FindReverse ==
  /\ proc.pc = "reverse"
  /\ \/ \E i \in Slots : find_channel(i, proc.ch, Reverse(proc.dir))
                         /\ proc' = [proc EXCEPT !.pc = "compare", !.dst = i]
     \/ /\ \A i \in Slots : ~find_channel(i, proc.ch, Reverse(proc.dir))
        /\ proc' = [proc EXCEPT !.pc = "multi"]
  /\ UNCHANGED <<ports, iq, ch, sent, hk, frames, spoke, preempt>>

SamePort_Never == FALSE
SamePort == proc.port = ch[proc.dst].port

Compare ==
  /\ proc.pc = "compare"
  /\ proc' = [proc EXCEPT !.pc = IF SamePort THEN "touchdst" ELSE "send"]
  /\ UNCHANGED <<ports, iq, ch, sent, hk, frames, spoke, preempt>>

(* nbus_switch_send_port dereferences the port that it reads now.          *)
SendPort ==
  /\ proc.pc = "send"
  /\ \/ /\ ch[proc.dst].port # NoPort
        /\ sent' = {ch[proc.dst].port}
        /\ proc' = [proc EXCEPT !.pc = "touchdst"]
     \/ /\ ch[proc.dst].port = NoPort
        /\ proc' = [proc EXCEPT !.pc = "null"]
        /\ UNCHANGED sent
  /\ UNCHANGED <<ports, iq, ch, hk, frames, spoke, preempt>>

TouchReverse ==
  /\ proc.pc = "touchdst"
  /\ ch' = [ch EXCEPT ![proc.dst].last_access = 0]
  /\ proc' = [proc EXCEPT !.pc = "idle"]
  /\ UNCHANGED <<ports, iq, sent, hk, frames, spoke, preempt>>

SendMulti ==
  /\ proc.pc = "multi"
  /\ sent' = 1 .. ports \ {proc.port}
  /\ proc' = [proc EXCEPT !.pc = "idle"]
  /\ UNCHANGED <<ports, iq, ch, hk, frames, spoke, preempt>>

ProcessStep ==
  \/ Dequeue \/ FindSource \/ AddSource \/ AddDirection \/ AddChannel \/ TouchSource \/ FindReverse
  \/ Compare \/ SendPort \/ TouchReverse \/ SendMulti

-----------------------------------------------------------------------------
(* nbus_switch_housekeeping_task                                           *)

(* Sending through a NULL port stops the processor.                        *)
HkRuns == proc.pc # "null" /\ (preempt \/ proc.pc = "idle")

NextSlot == IF hk.i = MaxChannels THEN 1 ELSE hk.i + 1

Aged_Never(e) == e
Aged(e) == IF e.port # NoPort THEN [e EXCEPT !.last_access = @ + 1] ELSE e

HkAge ==
  /\ HkRuns /\ hk.pc = "age"
  /\ ch' = [ch EXCEPT ![hk.i] = Aged(@)]
  /\ hk' = [hk EXCEPT !.pc = "check"]
  /\ UNCHANGED <<ports, iq, proc, sent, frames, spoke, preempt>>

HkCheck ==
  /\ HkRuns /\ hk.pc = "check"
  /\ hk' = IF ch[hk.i].last_access > MaxLifetime THEN [hk EXCEPT !.pc = "clear"]
           ELSE [pc |-> "age", i |-> NextSlot]
  /\ UNCHANGED <<ports, iq, ch, proc, sent, frames, spoke, preempt>>

HkClear ==
  /\ HkRuns /\ hk.pc = "clear"
  /\ ch' = [ch EXCEPT ![hk.i] = Zeroed]
  /\ hk' = [pc |-> "age", i |-> NextSlot]
  /\ UNCHANGED <<ports, iq, proc, sent, frames, spoke, preempt>>

HkStep == HkAge \/ HkCheck \/ HkClear

Next ==
  \/ nbus_switch_add_port
  \/ \E p \in 1 .. ports, c \in Channels, d \in Dirs : Receive(p, c, d)
  \/ ProcessStep
  \/ HkStep

Spec == Init /\ [][Next]_vars

(* Both tasks are scheduled: neither ever blocks for ever.                 *)
FairSpec == Spec /\ WF_vars(ProcessStep) /\ WF_vars(HkStep)

-----------------------------------------------------------------------------
(* Properties                                                              *)

Frames == [port : 1 .. MaxPorts, ch : Channels, dir : Dirs]

TypeOK ==
  /\ ports \in 0 .. MaxPorts
  /\ iq \in Seq(Frames) /\ Len(iq) <= IqSize
  /\ ch \in [Slots -> [ch : Nat, dir : Dirs, port : 0 .. MaxPorts, last_access : Nat]]
  /\ proc \in [pc : {"idle", "find", "add", "adddir", "addch", "touch", "reverse", "compare", "send",
                     "touchdst", "multi", "null"},
               port : 0 .. MaxPorts, ch : Nat, dir : Dirs, src : 0 .. MaxChannels,
               dst : 0 .. MaxChannels]
  /\ sent \subseteq 1 .. MaxPorts
  /\ hk \in [pc : {"age", "check", "clear"}, i : Slots]
  /\ frames \in Nat
  /\ spoke \in [Channels \X Dirs -> 0 .. MaxPorts]
  /\ preempt \in BOOLEAN

(***************************************************************************)
(* No reflection: a frame never leaves through the port it came from, not  *)
(* even when housekeeping clears an entry between the comparison and the   *)
(* send.                                                                   *)
(***************************************************************************)
NoReflection == proc.port \notin sent

(***************************************************************************)
(* One record per end of a channel: find_channel is "happy with the first  *)
(* one", so a second record of the same key would hold a stale port.  (A   *)
(* record that is being filled has the key of its predecessor for a        *)
(* moment, and a touch of one that housekeeping has just cleared may       *)
(* duplicate one.)                                                         *)
(***************************************************************************)
UniqueEntries ==
  (~preempt /\ proc.pc \notin {"adddir", "addch"}) =>
  \A i, j \in Slots :
    (ch[i].port # NoPort /\ ch[j].port # NoPort /\ ch[i].ch = ch[j].ch /\ ch[i].dir = ch[j].dir)
      => i = j

(***************************************************************************)
(* A frame of a channel's end that has ever been heard reaches the port    *)
(* where the other end last spoke: that end may move to another port, its  *)
(* record may be evicted, the table may be full.  For schedules without a  *)
(* race between the two tasks.                                             *)
(***************************************************************************)
ReachesPeer ==
  (~preempt /\ proc.pc = "idle" /\ proc.port # NoPort /\ proc.dir # "PUBLISH") =>
    spoke[<<proc.ch, Reverse(proc.dir)>>] \in sent \cup {NoPort, proc.port}

(***************************************************************************)
(* When traffic stops, the table drains: no record outlives its channel,   *)
(* not even one that the process task revived after its eviction.          *)
(***************************************************************************)
TableDrains == <>[](proc.pc = "null" \/ \A i \in Slots : ch[i].port = NoPort)

=============================================================================
