-------------------------- MODULE NbusSwitchProofs --------------------------
(***************************************************************************)
(* Theorems about NbusSwitch, for every number of ports, channels and      *)
(* records and every schedule of its tasks.                                *)
(*                                                                         *)
(* Safe needs nothing of the table: it holds while housekeeping clears     *)
(* records under the process task.  Quiet is about the schedules without   *)
(* that race: a record holds the port that its end of the channel last     *)
(* spoke from, but for the record that the frame in hand has yet to touch  *)
(* or to fill.                                                             *)
(***************************************************************************)
EXTENDS NbusSwitch, Integers, WellFoundedInduction, TLAPS

(* Every nonempty set of naturals has a least element.                     *)
LEMMA NatMin ==
  ASSUME NEW T \in SUBSET Nat, T # {}
  PROVE  \E x \in T : \A y \in T : x <= y
<1> DEFINE R == {ss \in Nat \X Nat : ss[1] < ss[2]}
<1>1. IsWellFoundedOn(R, Nat)
  BY NatLessThanWellFounded DEF OpToRel
<1> HIDE DEF R
<1>2. PICK x \in T : \A y \in T : ~(<<y, x>> \in R)
  BY <1>1, WFMin, Zenon
<1>3. ASSUME NEW y \in T PROVE x <= y
  <2>1. <<y, x>> \in Nat \X Nat /\ <<y, x>>[1] = y /\ <<y, x>>[2] = x
    OBVIOUS
  <2>2. y < x => <<y, x>> \in R
    BY <2>1 DEF R
  <2> QED BY <2>2, <1>2
<1> QED BY <1>3

ProcPcs == {"idle", "find", "add", "adddir", "addch", "touch", "reverse", "compare", "send",
            "touchdst", "multi", "null"}
ProcType == [pc : ProcPcs, port : 0 .. MaxPorts, ch : Nat, dir : Dirs,
             src : 0 .. MaxChannels, dst : 0 .. MaxChannels]
Entries == [ch : Nat, dir : Dirs, port : 0 .. MaxPorts, last_access : Nat]

(* The frame in hand was queued by an added port, on a channel in use; it  *)
(* is the last one that its end of the channel spoke.                      *)
InHand ==
  /\ proc.pc # "idle" => proc.port # NoPort /\ spoke[<<proc.ch, proc.dir>>] = proc.port
  /\ proc.port # NoPort => proc.ch \in Channels
  /\ proc.pc \notin {"idle", "multi", "null"} => proc.dir # "PUBLISH"
  /\ proc.pc \in {"adddir", "addch", "touch"} => proc.src \in Slots
  /\ proc.pc \in {"compare", "send", "touchdst"} => proc.dst \in Slots

(* Only added ports are heard.                                             *)
KnownPorts ==
  /\ \A n \in 1 .. Len(iq) : iq[n].port <= ports
  /\ \A k \in Channels \X Dirs : spoke[k] <= ports

(* Housekeeping may clear the record between the comparison and the send,  *)
(* but never give it the port that the frame came from.                    *)
NotBack == proc.pc = "send" => ch[proc.dst].port # proc.port

Safe == TypeOK /\ InHand /\ KnownPorts /\ NotBack /\ NoReflection

(* The process task fills this record.                                     *)
Filling == proc.pc \in {"adddir", "addch"}
Half(i) == Filling /\ i = proc.src

(* A record is that of an end that speaks and waits for answers, and holds *)
(* the port it last spoke from.                                            *)
Fresh ==
  \A i \in Slots : ch[i].port # NoPort /\ ~Half(i) =>
    /\ ch[i].ch \in Channels /\ ch[i].dir # "PUBLISH"
    /\ \/ ch[i].port = spoke[<<ch[i].ch, ch[i].dir>>]
       \/ proc.pc \in {"find", "touch"} /\ ch[i].ch = proc.ch /\ ch[i].dir = proc.dir

(* What the process task found is still there when it uses it, and while   *)
(* it fills a record there is no other one of its key.                     *)
Found ==
  /\ proc.pc = "add" => \A i \in Slots : ~IsEntry(i, proc.ch, proc.dir)
  /\ Filling => /\ \A i \in Slots : ~Half(i) => ~IsEntry(i, proc.ch, proc.dir)
                /\ ch[proc.src].port = proc.port
  /\ proc.pc = "addch" => ch[proc.src].dir = proc.dir
  /\ proc.pc = "touch" => IsEntry(proc.src, proc.ch, proc.dir)
  /\ proc.pc \in {"compare", "send", "touchdst"}
       => IsEntry(proc.dst, proc.ch, Reverse(proc.dir))
  /\ proc.pc # "null"

(* One record for each end of a channel.                                   *)
Unique ==
  \A i, j \in Slots :
    (/\ ch[i].port # NoPort /\ ch[j].port # NoPort /\ ~Half(i) /\ ~Half(j)
     /\ ch[i].ch = ch[j].ch /\ ch[i].dir = ch[j].dir)
      => i = j

Peer == spoke[<<proc.ch, Reverse(proc.dir)>>]

(* The peer has got the frame once it is sent, and when it is done with.   *)
Delivered ==
  proc.pc = "touchdst" => Peer \in sent \cup {proc.port}
Reached ==
  (proc.pc = "idle" /\ proc.port # NoPort /\ proc.dir # "PUBLISH")
    => Peer \in sent \cup {NoPort, proc.port}

Quiet == Fresh /\ Found /\ Unique /\ Delivered /\ Reached

Inv == Safe /\ (~preempt => Quiet)

-----------------------------------------------------------------------------
(* What the steps do to the records                                        *)

(* A frame that is found has a record; one that is not found has none:     *)
(* the first match is the least of all matches.                            *)
LEMMA FindChannel ==
  ASSUME NEW c, NEW d, \A i \in Slots : ~find_channel(i, c, d)
  PROVE  \A i \in Slots : ~IsEntry(i, c, d)
<1> DEFINE T == {i \in Slots : IsEntry(i, c, d)}
<1>1. SUFFICES ASSUME T # {} PROVE FALSE
  OBVIOUS
<1>2. T \in SUBSET Nat
  BY SwitchAssumption DEF Slots
<1>3. PICK x \in T : \A y \in T : x <= y
  BY <1>1, <1>2, NatMin
<1>4. ASSUME NEW j \in Slots, j < x PROVE ~IsEntry(j, c, d)
  BY <1>2, <1>3, <1>4, SwitchAssumption DEF Slots
<1>5. find_channel(x, c, d)
  BY <1>4 DEF find_channel
<1> QED BY <1>5

LEMMA SafeInit == Init => Safe
<1> SUFFICES ASSUME Init PROVE Safe
  OBVIOUS
<1> USE SwitchAssumption
<1>1. TypeOK
  <2>1. ch \in [Slots -> Entries] /\ 1 \in Slots
    BY DEF Init, Zeroed, Entries, Dirs, NoPort, Slots
  <2>2. proc \in ProcType
    BY DEF Init, ProcType, ProcPcs, Dirs, NoPort
  <2>3. spoke \in [Channels \X Dirs -> 0 .. MaxPorts]
    BY DEF Init, NoPort
  <2>4. iq \in Seq(Frames) /\ Len(iq) <= IqSize
    BY DEF Init
  <2>5. hk \in [pc : {"age", "check", "clear"}, i : Slots]
    BY <2>1 DEF Init
  <2> QED BY <2>1, <2>2, <2>3, <2>4, <2>5 DEF Init, TypeOK, ProcType, ProcPcs, Entries
<1>2. InHand
  BY DEF Init, InHand
<1>3. KnownPorts
  BY DEF Init, KnownPorts, NoPort
<1>4. NotBack /\ NoReflection
  BY DEF Init, NotBack, NoReflection
<1> QED BY <1>1, <1>2, <1>3, <1>4 DEF Safe

(* TypeOK from its parts.                                                  *)
LEMMA TypeParts ==
  TypeOK <=> /\ ports \in 0 .. MaxPorts
             /\ iq \in Seq(Frames) /\ Len(iq) <= IqSize
             /\ ch \in [Slots -> Entries]
             /\ proc \in ProcType
             /\ sent \subseteq 1 .. MaxPorts
             /\ hk \in [pc : {"age", "check", "clear"}, i : Slots]
             /\ frames \in Nat
             /\ spoke \in [Channels \X Dirs -> 0 .. MaxPorts]
             /\ preempt \in BOOLEAN
  BY DEF TypeOK, Entries, ProcType, ProcPcs

(* The process task goes on with the frame in hand.                        *)
Along ==
  /\ proc' \in ProcType /\ proc'.pc # "idle"
  /\ proc'.port = proc.port /\ proc'.ch = proc.ch /\ proc'.dir = proc.dir
  /\ proc'.pc \in {"adddir", "addch", "touch"} => proc'.src \in Slots
  /\ proc'.pc \in {"compare", "send", "touchdst"} => proc'.dst \in Slots

LEMMA SafeAlong ==
  ASSUME Safe, Along,
         proc.pc \notin {"idle", "multi", "null"},
         ch' \in [Slots -> Entries], sent' \subseteq 1 .. MaxPorts,
         UNCHANGED <<ports, iq, hk, frames, spoke, preempt>>,
         proc'.pc = "send" => ch'[proc'.dst].port # proc.port,
         proc.port \notin sent'
  PROVE  Safe'
<1>0. TypeOK /\ InHand /\ KnownPorts
  BY DEF Safe
<1>1. TypeOK'
  BY <1>0 DEF TypeOK, Along, Entries, ProcType, ProcPcs
<1>2. InHand'
  BY <1>0 DEF InHand, Along
<1>3. KnownPorts'
  BY <1>0 DEF KnownPorts
<1>4. NotBack' /\ NoReflection'
  BY DEF NotBack, NoReflection, Along
<1> QED BY <1>1, <1>2, <1>3, <1>4 DEF Safe

LEMMA SafeDequeue ==
  ASSUME Safe, Dequeue
  PROVE  Safe'
<1> USE SwitchAssumption
<1>0. TypeOK /\ InHand /\ KnownPorts
  BY DEF Safe
<1> DEFINE f == Head(iq)
<1>1. /\ iq \in Seq(Frames) /\ Len(iq) > 0 /\ f \in Frames /\ f = iq[1]
      /\ Tail(iq) \in Seq(Frames) /\ Len(Tail(iq)) = Len(iq) - 1
      /\ \A n \in 1 .. Len(Tail(iq)) : Tail(iq)[n] = iq[n + 1]
  BY <1>0 DEF Dequeue, TypeOK
<1>2. f.port \in 1 .. MaxPorts /\ f.ch \in Channels /\ f.dir \in Dirs /\ f.port <= ports
  BY <1>0, <1>1 DEF Frames, KnownPorts
<1>3. /\ proc' \in ProcType /\ proc'.port = f.port /\ proc'.ch = f.ch /\ proc'.dir = f.dir
      /\ proc'.pc = IF f.dir = "PUBLISH" THEN "multi" ELSE "find"
  <2>1. f.ch \in Nat
    BY <1>2, Zenon
  <2>2. f.port \in 0 .. MaxPorts
    BY <1>2
  <2> QED BY <1>2, <2>1, <2>2 DEF Dequeue, ProcType, ProcPcs
<1>4. <<f.ch, f.dir>> \in Channels \X Dirs
  BY <1>2
<1>5. /\ spoke' \in [Channels \X Dirs -> 0 .. MaxPorts]
      /\ spoke'[<<f.ch, f.dir>>] = f.port
      /\ \A k \in Channels \X Dirs : spoke'[k] = spoke[k] \/ spoke'[k] = f.port
  <2>1. spoke \in [Channels \X Dirs -> 0 .. MaxPorts]
    BY <1>0, TypeParts
  <2>2. spoke' = [spoke EXCEPT ![<<f.ch, f.dir>>] = f.port]
    BY DEF Dequeue
  <2>3. f.port \in 0 .. MaxPorts
    BY <1>2
  <2> QED BY <1>4, <2>1, <2>2, <2>3
<1>6. TypeOK'
  <2>1. /\ iq' \in Seq(Frames) /\ Len(iq') <= IqSize /\ sent' \subseteq 1 .. MaxPorts
        /\ UNCHANGED <<ports, ch, hk, frames, preempt>>
    <3>1. iq' = Tail(iq) /\ sent' = {} /\ UNCHANGED <<ports, ch, hk, frames, preempt>>
      BY DEF Dequeue
    <3>2. Len(iq) <= IqSize /\ Len(iq) \in Nat
      BY <1>0, TypeParts
    <3> QED BY <1>1, <3>1, <3>2
  <2>2. proc' \in ProcType /\ spoke' \in [Channels \X Dirs -> 0 .. MaxPorts]
    BY <1>3, <1>5
  <2> QED BY <1>0, <2>1, <2>2 DEF TypeOK, ProcType, ProcPcs
<1>7. InHand'
  BY <1>2, <1>3, <1>5 DEF InHand, NoPort
<1>8. KnownPorts'
  <2>1. \A n \in 1 .. Len(iq') : iq'[n].port <= ports'
    BY <1>0, <1>1 DEF Dequeue, KnownPorts
  <2>2. \A k \in Channels \X Dirs : spoke'[k] <= ports'
    BY <1>0, <1>2, <1>5 DEF Dequeue, KnownPorts
  <2> QED BY <2>1, <2>2 DEF KnownPorts
<1>9. NotBack' /\ NoReflection'
  BY <1>3 DEF Dequeue, NotBack, NoReflection
<1> QED BY <1>6, <1>7, <1>8, <1>9 DEF Safe

LEMMA SafeNext == Safe /\ [Next]_vars => Safe'
<1> SUFFICES ASSUME Safe, [Next]_vars PROVE Safe'
  OBVIOUS
<1> USE SwitchAssumption
<1>0. TypeOK /\ InHand /\ KnownPorts /\ NotBack /\ NoReflection
  BY DEF Safe
<1>t. /\ ch \in [Slots -> Entries] /\ proc \in ProcType /\ 1 \in Slots
      /\ sent \subseteq 1 .. MaxPorts /\ hk.i \in Slots
  BY <1>0, TypeParts DEF Slots
<1>s. \A i \in Slots : i \in 0 .. MaxChannels
  BY DEF Slots
<1>1. CASE nbus_switch_add_port
  <2>1. TypeOK'
    BY <1>0, <1>1 DEF TypeOK, nbus_switch_add_port
  <2>2. KnownPorts'
    <3>1. \A n \in 1 .. Len(iq) : iq[n] \in Frames
      BY <1>0 DEF TypeOK
    <3>2. \A n \in 1 .. Len(iq) : iq[n].port \in 0 .. MaxPorts
      BY <3>1 DEF Frames
    <3>3. \A k \in Channels \X Dirs : spoke[k] \in 0 .. MaxPorts
      BY <1>0, TypeParts
    <3>4. ports \in Nat /\ ports' = ports + 1 /\ UNCHANGED <<iq, spoke>>
      BY <1>0, <1>1, TypeParts DEF nbus_switch_add_port
    <3>5. \A n \in 1 .. Len(iq') : iq'[n].port <= ports'
      BY <1>0, <3>2, <3>4 DEF KnownPorts
    <3>6. \A k \in Channels \X Dirs : spoke'[k] <= ports'
      BY <1>0, <3>3, <3>4 DEF KnownPorts
    <3> QED BY <3>5, <3>6 DEF KnownPorts
  <2> QED BY <1>0, <1>1, <2>1, <2>2
      DEF nbus_switch_add_port, Safe, InHand, NotBack, NoReflection
<1>2. ASSUME NEW p \in 1 .. ports, NEW c \in Channels, NEW d \in Dirs, Receive(p, c, d)
      PROVE  Safe'
  <2> DEFINE f == [port |-> p, ch |-> c, dir |-> d]
  <2>1. f \in Frames /\ f.port <= ports
    BY <1>0 DEF Frames, TypeOK
  <2>2. /\ Append(iq, f) \in Seq(Frames) /\ Len(Append(iq, f)) = Len(iq) + 1
        /\ \A n \in 1 .. Len(iq) + 1 : Append(iq, f)[n] = IF n <= Len(iq) THEN iq[n] ELSE f
    <3>1. iq \in Seq(Frames)
      BY <1>0, TypeParts
    <3> HIDE DEF f
    <3> QED BY <2>1, <3>1
  <2>x. /\ iq' = IF Len(iq) < IqSize THEN Append(iq, f) ELSE iq
        /\ frames' = frames + 1
        /\ UNCHANGED <<ports, ch, proc, sent, hk, spoke, preempt>>
    BY <1>2 DEF Receive
  <2> HIDE DEF f
  <2>y. iq \in Seq(Frames) /\ Len(iq) <= IqSize /\ frames \in Nat /\ Len(iq) \in Nat /\ IqSize \in Nat
    BY <1>0, TypeParts
  <2>3. TypeOK'
    <3>1. iq' \in Seq(Frames) /\ Len(iq') <= IqSize
      BY <2>2, <2>x, <2>y
    <3>2. frames' \in Nat
      BY <2>x, <2>y
    <3> QED BY <1>0, <2>x, <3>1, <3>2 DEF TypeOK
  <2>4. KnownPorts'
    <3>1. \A n \in 1 .. Len(iq') : iq'[n].port <= ports'
      BY <1>0, <2>1, <2>2, <2>x, <2>y DEF KnownPorts
    <3>2. \A k \in Channels \X Dirs : spoke'[k] <= ports'
      BY <1>0, <2>x DEF KnownPorts
    <3> QED BY <3>1, <3>2 DEF KnownPorts
  <2> QED BY <1>0, <1>2, <2>3, <2>4 DEF Receive, Safe, InHand, NotBack, NoReflection
<1>3. CASE Dequeue
  BY <1>3, SafeDequeue
<1>4. CASE FindSource
  <2>1. Along /\ proc'.pc # "send"
    <3>1. ASSUME NEW i \in Slots, proc' = [proc EXCEPT !.pc = "touch", !.src = i]
          PROVE  Along /\ proc'.pc # "send"
      BY <1>t, <1>s, <3>1 DEF Along, ProcType, ProcPcs
    <3>2. CASE proc' = [proc EXCEPT !.pc = "add"]
      BY <1>t, <3>2 DEF Along, ProcType, ProcPcs
    <3> QED BY <1>4, <3>1, <3>2 DEF FindSource
  <2> QED BY <1>t, <1>0, <1>4, <2>1, SafeAlong DEF FindSource, NoReflection
<1>5. CASE AddSource
  <2>1. Along /\ proc'.pc # "send" /\ ch' \in [Slots -> Entries]
    <3>1. ASSUME NEW i \in Slots, ch' = [ch EXCEPT ![i].port = proc.port],
                 proc' = [proc EXCEPT !.pc = "adddir", !.src = i]
          PROVE  Along /\ proc'.pc # "send" /\ ch' \in [Slots -> Entries]
      <4>1. Along /\ proc'.pc # "send"
        BY <1>t, <1>s, <3>1 DEF Along, ProcType, ProcPcs
      <4>2. ch' \in [Slots -> Entries]
        BY <1>t, <3>1 DEF Entries, ProcType
      <4> QED BY <4>1, <4>2
    <3>2. CASE proc' = [proc EXCEPT !.pc = "reverse"] /\ UNCHANGED ch
      BY <1>t, <3>2 DEF Along, ProcType, ProcPcs
    <3> QED BY <1>5, <3>1, <3>2 DEF AddSource
  <2> QED BY <1>t, <1>0, <1>5, <2>1, SafeAlong DEF AddSource, NoReflection
<1>f. CASE AddDirection \/ AddChannel
  <2>0. proc.src \in Slots
    BY <1>0, <1>f DEF AddDirection, AddChannel, InHand
  <2>1. Along /\ proc'.pc # "send"
    BY <1>t, <1>f, <2>0 DEF AddDirection, AddChannel, Along, ProcType, ProcPcs
  <2>2. ch' \in [Slots -> Entries]
    BY <1>t, <1>f, <2>0 DEF AddDirection, AddChannel, Entries, ProcType
  <2> QED BY <1>t, <1>0, <1>f, <2>1, <2>2, SafeAlong DEF AddDirection, AddChannel, NoReflection
<1>6. CASE TouchSource
  <2>1. Along /\ proc'.pc # "send"
    BY <1>t, <1>6 DEF TouchSource, Along, ProcType, ProcPcs
  <2>2. ch' \in [Slots -> Entries]
    BY <1>t, <1>6 DEF TouchSource, Touched, Entries, ProcType
  <2> QED BY <1>t, <1>0, <1>6, <2>1, <2>2, SafeAlong DEF TouchSource, NoReflection
<1>7. CASE FindReverse
  <2>1. Along /\ proc'.pc # "send"
    <3>1. ASSUME NEW i \in Slots, proc' = [proc EXCEPT !.pc = "compare", !.dst = i]
          PROVE  Along /\ proc'.pc # "send"
      BY <1>t, <1>s, <3>1 DEF Along, ProcType, ProcPcs
    <3>2. CASE proc' = [proc EXCEPT !.pc = "multi"]
      BY <1>t, <3>2 DEF Along, ProcType, ProcPcs
    <3> QED BY <1>7, <3>1, <3>2 DEF FindReverse
  <2> QED BY <1>t, <1>0, <1>7, <2>1, SafeAlong DEF FindReverse, NoReflection
<1>8. CASE Compare
  <2>1. proc.dst \in Slots
    BY <1>0, <1>8 DEF Compare, InHand
  <2>2. Along /\ proc'.dst = proc.dst /\ (proc'.pc = "send" => ~SamePort)
    BY <1>t, <1>8, <2>1 DEF Compare, Along, ProcType, ProcPcs
  <2> QED BY <1>t, <1>0, <1>8, <2>2, SafeAlong DEF Compare, SamePort, NoReflection
<1>9. CASE SendPort
  <2>1. proc.dst \in Slots /\ ch[proc.dst].port # proc.port /\ ch[proc.dst].port \in 0 .. MaxPorts
    BY <1>0, <1>9, <1>t DEF SendPort, InHand, NotBack, Entries
  <2>2. Along /\ proc'.pc # "send"
    BY <1>9, <1>t, <2>1 DEF SendPort, Along, ProcType, ProcPcs
  <2>3. sent' \subseteq 1 .. MaxPorts /\ proc.port \notin sent'
    BY <1>0, <1>9, <1>t, <2>1 DEF SendPort, NoPort, NoReflection
  <2> QED BY <1>t, <1>9, <2>2, <2>3, SafeAlong DEF SendPort
<1>10. CASE TouchReverse
  <2>1. /\ proc' \in ProcType /\ proc'.pc = "idle" /\ proc'.port = proc.port
        /\ proc'.ch = proc.ch
    BY <1>t, <1>10 DEF TouchReverse, ProcType, ProcPcs
  <2>2. proc.dst \in Slots
    BY <1>0, <1>10 DEF TouchReverse, InHand
  <2>3. ch' \in [Slots -> Entries]
    BY <1>t, <1>10, <2>2 DEF TouchReverse, Entries
  <2>4. TypeOK'
    BY <1>0, <1>10, <2>1, <2>3 DEF TouchReverse, TypeOK, ProcType, ProcPcs, Entries
  <2> QED BY <1>0, <1>10, <2>1, <2>4
      DEF TouchReverse, Safe, InHand, KnownPorts, NotBack, NoReflection
<1>11. CASE SendMulti
  <2>1. /\ proc' \in ProcType /\ proc'.pc = "idle" /\ proc'.port = proc.port
        /\ proc'.ch = proc.ch
    BY <1>t, <1>11 DEF SendMulti, ProcType, ProcPcs
  <2>2. sent' \subseteq 1 .. MaxPorts /\ proc.port \notin sent'
    BY <1>0, <1>11 DEF SendMulti, TypeOK
  <2>4. TypeOK'
    BY <1>0, <1>11, <2>1, <2>2 DEF SendMulti, TypeOK, ProcType, ProcPcs
  <2> QED BY <1>0, <1>11, <2>1, <2>2, <2>4
      DEF SendMulti, Safe, InHand, KnownPorts, NotBack, NoReflection
<1>12. CASE HkStep
  <2>1. NextSlot \in Slots
    BY <1>t DEF NextSlot, Slots
  <2>2. /\ UNCHANGED <<ports, iq, proc, sent, frames, spoke, preempt>>
        /\ ch' \in [Slots -> Entries]
        /\ \A i \in Slots : ch'[i].port \in {ch[i].port, NoPort}
        /\ hk' \in [pc : {"age", "check", "clear"}, i : Slots]
    <3>1. CASE HkAge
      <4>1. \A e \in Entries : Aged(e) \in Entries /\ Aged(e).port = e.port
        BY DEF Aged, Entries
      <4>2. hk' \in [pc : {"age", "check", "clear"}, i : Slots]
        BY <1>0, <3>1 DEF HkAge, TypeOK
      <4> QED BY <1>t, <3>1, <4>1, <4>2 DEF HkAge
    <3>2. CASE HkCheck
      BY <1>0, <1>t, <2>1, <3>2 DEF HkCheck, TypeOK
    <3>3. CASE HkClear
      BY <1>0, <1>t, <2>1, <3>3 DEF HkClear, Zeroed, NoPort, Entries, Dirs, TypeOK
    <3> QED BY <1>12, <3>1, <3>2, <3>3 DEF HkStep
  <2>3. TypeOK'
    BY <1>0, <2>2 DEF TypeOK, Entries
  <2>4. NotBack'
    BY <1>0, <2>2 DEF NotBack, InHand
  <2> QED BY <1>0, <2>2, <2>3, <2>4 DEF Safe, InHand, KnownPorts, NoReflection
<1>13. CASE UNCHANGED vars
  BY <1>0, <1>13 DEF vars, Safe, TypeOK, InHand, KnownPorts, NotBack, NoReflection
<1> QED BY <1>1, <1>2, <1>3, <1>4, <1>5, <1>f, <1>6, <1>7, <1>8, <1>9, <1>10, <1>11, <1>12,
          <1>13 DEF Next, ProcessStep

-----------------------------------------------------------------------------
(* The table, in schedules without a race                                  *)

(* No record is added or moved to another port.                            *)
Kept ==
  \A i \in Slots : ch'[i].port # NoPort =>
    ch'[i].port = ch[i].port /\ ch'[i].ch = ch[i].ch /\ ch'[i].dir = ch[i].dir

LEMMA KeptFresh ==
  ASSUME Fresh, Unique, Kept, UNCHANGED spoke, ~Filling, ~Filling',
         \/ proc'.pc \in {"find", "touch"} /\ proc'.ch = proc.ch /\ proc'.dir = proc.dir
         \/ proc.pc \notin {"find", "touch"}
         \/ \A i \in Slots : ~IsEntry(i, proc.ch, proc.dir)
  PROVE  Fresh' /\ Unique'
<1>1. Fresh'
  BY DEF Fresh, Kept, IsEntry, Half
<1>2. Unique'
  BY DEF Unique, Kept, Half
<1> QED BY <1>1, <1>2

LEMMA QuietDequeue ==
  ASSUME Safe, Quiet, Dequeue
  PROVE  Quiet'
<1> DEFINE f == Head(iq)
<1>1. f \in Frames /\ spoke \in [Channels \X Dirs -> 0 .. MaxPorts]
  BY DEF Safe, TypeOK, Dequeue
<1>2. /\ proc'.ch = f.ch /\ proc'.dir = f.dir
      /\ proc'.pc = IF f.dir = "PUBLISH" THEN "multi" ELSE "find"
      /\ UNCHANGED ch /\ proc.pc = "idle"
  BY DEF Dequeue
<1>3. \A c \in Channels, d \in Dirs :
        spoke'[<<c, d>>] = IF c = f.ch /\ d = f.dir THEN f.port ELSE spoke[<<c, d>>]
  BY <1>1 DEF Dequeue
<1>4. \A i \in Slots : ch[i].dir \in Dirs
  BY DEF Safe, TypeOK
<1>5. Fresh'
  BY <1>2, <1>3, <1>4 DEF Quiet, Fresh, Half, Filling
<1>6. Found' /\ Delivered' /\ Reached'
  BY <1>2 DEF Found, Filling, Delivered, Reached
<1>7. Unique'
  BY <1>2 DEF Quiet, Unique, Half, Filling
<1> QED BY <1>5, <1>6, <1>7 DEF Quiet

LEMMA QuietFindSource ==
  ASSUME Safe, Quiet, FindSource
  PROVE  Quiet'
<1>0. proc \in ProcType
  BY TypeParts DEF Safe
<1>1. Kept /\ UNCHANGED <<ch, spoke>> /\ proc.pc = "find"
  BY DEF FindSource, Kept
<1>2. ASSUME NEW i \in Slots, find_channel(i, proc.ch, proc.dir),
             proc' = [proc EXCEPT !.pc = "touch", !.src = i]
      PROVE  Quiet'
  <2>1. proc'.pc = "touch" /\ proc'.src = i /\ proc'.ch = proc.ch /\ proc'.dir = proc.dir
    BY <1>0, <1>2 DEF ProcType
  <2>2. IsEntry(i, proc.ch, proc.dir)
    BY <1>2 DEF find_channel
  <2>3. Found' /\ Delivered' /\ Reached'
    BY <1>1, <2>1, <2>2 DEF Found, Filling, Delivered, Reached, IsEntry
  <2>4. Fresh' /\ Unique'
    BY <1>1, <2>1, KeptFresh DEF Quiet, Filling
  <2> QED BY <2>3, <2>4 DEF Quiet
<1>3. ASSUME \A i \in Slots : ~find_channel(i, proc.ch, proc.dir),
             proc' = [proc EXCEPT !.pc = "add"]
      PROVE  Quiet'
  <2>1. proc'.pc = "add" /\ proc'.ch = proc.ch /\ proc'.dir = proc.dir
    BY <1>0, <1>3 DEF ProcType
  <2>2. \A i \in Slots : ~IsEntry(i, proc.ch, proc.dir)
    BY <1>3, FindChannel
  <2>3. Found' /\ Delivered' /\ Reached'
    BY <1>1, <2>1, <2>2 DEF Found, Filling, Delivered, Reached, IsEntry
  <2>4. Fresh' /\ Unique'
    BY <1>1, <2>1, <2>2, KeptFresh DEF Quiet, Filling
  <2> QED BY <2>3, <2>4 DEF Quiet
<1> QED BY <1>2, <1>3 DEF FindSource

LEMMA QuietAddSource ==
  ASSUME Safe, Quiet, AddSource
  PROVE  Quiet'
<1>0. /\ proc \in ProcType /\ ch \in [Slots -> Entries]
      /\ proc.port # NoPort /\ proc.ch \in Channels /\ proc.dir # "PUBLISH"
      /\ spoke[<<proc.ch, proc.dir>>] = proc.port
  BY TypeParts DEF Safe, InHand, AddSource
<1>1. /\ UNCHANGED spoke /\ proc.pc = "add"
      /\ \A i \in Slots : ~IsEntry(i, proc.ch, proc.dir)
  BY DEF AddSource, Quiet, Found
<1>2. ASSUME NEW i \in Slots, ch[i].port = NoPort, ch' = [ch EXCEPT ![i].port = proc.port],
             proc' = [proc EXCEPT !.pc = "adddir", !.src = i]
      PROVE  Quiet'
  <2>1. /\ proc'.pc = "adddir" /\ proc'.src = i /\ proc'.ch = proc.ch /\ proc'.dir = proc.dir
        /\ proc'.port = proc.port
    BY <1>0, <1>2 DEF ProcType
  <2>2. /\ ch'[i].port = proc.port /\ \A j \in Slots : j # i => ch'[j] = ch[j]
    BY <1>0, <1>2 DEF Entries
  <2>3. Found' /\ Delivered' /\ Reached'
    BY <1>0, <1>1, <2>1, <2>2 DEF Found, Filling, Half, Delivered, Reached, IsEntry
  <2>f. ~Filling
    BY <1>1 DEF Filling
  <2>4. Fresh'
    BY <1>0, <1>1, <2>1, <2>2, <2>f DEF Quiet, Fresh, Filling, Half
  <2>5. Unique'
    BY <2>1, <2>2, <2>f DEF Quiet, Unique, Filling, Half
  <2> QED BY <2>3, <2>4, <2>5 DEF Quiet
<1>3. ASSUME proc' = [proc EXCEPT !.pc = "reverse"], UNCHANGED ch
      PROVE  Quiet'
  <2>1. proc'.pc = "reverse"
    BY <1>0, <1>3 DEF ProcType
  <2>2. Found' /\ Delivered' /\ Reached'
    BY <2>1 DEF Found, Filling, Delivered, Reached
  <2>3. Kept
    BY <1>3 DEF Kept
  <2>4. Fresh' /\ Unique'
    BY <1>1, <2>1, <2>3, KeptFresh DEF Quiet, Filling
  <2> QED BY <2>2, <2>4 DEF Quiet
<1> QED BY <1>2, <1>3 DEF AddSource, add_channel

(* The writes that fill the record with its key.                           *)
LEMMA QuietFill ==
  ASSUME Safe, Quiet, AddDirection \/ AddChannel
  PROVE  Quiet'
<1>0. /\ proc \in ProcType /\ ch \in [Slots -> Entries] /\ Filling
      /\ proc.port # NoPort /\ proc.ch \in Channels /\ proc.dir # "PUBLISH"
      /\ spoke[<<proc.ch, proc.dir>>] = proc.port /\ proc.src \in Slots
  BY TypeParts DEF Safe, InHand, AddDirection, AddChannel, Filling
<1>1. /\ UNCHANGED spoke /\ ch[proc.src].port = proc.port
      /\ \A i \in Slots : i # proc.src => ~IsEntry(i, proc.ch, proc.dir)
  BY <1>0 DEF AddDirection, AddChannel, Quiet, Found, Half
<1>2. /\ proc'.ch = proc.ch /\ proc'.dir = proc.dir /\ proc'.src = proc.src /\ proc'.port = proc.port
      /\ ch'[proc.src].port = proc.port /\ \A j \in Slots : j # proc.src => ch'[j] = ch[j]
  BY <1>0, <1>1 DEF AddDirection, AddChannel, ProcType, Entries
<1>3. CASE AddDirection
  <2>1. proc'.pc = "addch" /\ ch'[proc.src].dir = proc.dir
    BY <1>0, <1>3 DEF AddDirection, ProcType, Entries
  <2>2. Found' /\ Delivered' /\ Reached'
    BY <1>0, <1>1, <1>2, <2>1 DEF Found, Filling, Half, Delivered, Reached, IsEntry
  <2>3. Fresh' /\ Unique'
    <3>1. \A i \in Slots : Half(i)' <=> i = proc.src
      BY <1>2, <2>1 DEF Half, Filling
    <3>2. \A i \in Slots : Half(i) <=> i = proc.src
      BY <1>0 DEF Half
    <3>3. Unique'
      BY <1>2, <3>1, <3>2 DEF Quiet, Unique
    <3>4. Fresh'
      BY <1>0, <1>1, <1>2, <3>1, <3>2 DEF Quiet, Fresh, Filling
    <3> QED BY <3>3, <3>4
  <2> QED BY <2>2, <2>3 DEF Quiet
<1>4. CASE AddChannel
  <2>1. /\ proc'.pc = "touch" /\ ch'[proc.src].ch = proc.ch
        /\ ch'[proc.src].dir = ch[proc.src].dir
    BY <1>0, <1>4 DEF AddChannel, ProcType, Entries
  <2>2. ch[proc.src].dir = proc.dir
    BY <1>4 DEF AddChannel, Quiet, Found
  <2>3. Found' /\ Delivered' /\ Reached'
    BY <1>0, <1>2, <2>1, <2>2 DEF Found, Filling, Delivered, Reached, IsEntry
  <2>4. \A i \in Slots : ~Half(i)' /\ (Half(i) <=> i = proc.src)
    BY <1>0, <2>1 DEF Half, Filling
  <2>5. Fresh'
    BY <1>0, <1>1, <1>2, <2>1, <2>2, <2>4 DEF Quiet, Fresh, Filling
  <2>6. Unique'
    BY <1>0, <1>1, <1>2, <2>1, <2>2, <2>4 DEF Quiet, Unique, IsEntry
  <2> QED BY <2>3, <2>5, <2>6 DEF Quiet
<1> QED BY <1>3, <1>4

LEMMA QuietTouchSource ==
  ASSUME Safe, Quiet, TouchSource
  PROVE  Quiet'
<1>0. /\ proc \in ProcType /\ ch \in [Slots -> Entries]
      /\ proc.port # NoPort /\ proc.ch \in Channels /\ proc.dir # "PUBLISH"
      /\ spoke[<<proc.ch, proc.dir>>] = proc.port /\ proc.src \in Slots
  BY TypeParts DEF Safe, InHand, TouchSource
<1>1. UNCHANGED spoke /\ proc.pc = "touch" /\ IsEntry(proc.src, proc.ch, proc.dir)
  BY DEF TouchSource, Quiet, Found
<1>2. proc'.pc = "reverse"
  BY <1>0 DEF TouchSource, ProcType
<1>3. /\ ch'[proc.src].ch = proc.ch /\ ch'[proc.src].dir = proc.dir
      /\ ch'[proc.src].port = proc.port
      /\ \A j \in Slots : j # proc.src => ch'[j] = ch[j]
  BY <1>0, <1>1 DEF TouchSource, Touched, IsEntry, Entries
<1>4. Found' /\ Delivered' /\ Reached'
  BY <1>2 DEF Found, Filling, Delivered, Reached
<1>f. \A i \in Slots : ~Half(i) /\ ~Half(i)'
  BY <1>1, <1>2 DEF Half, Filling
<1>5. ASSUME NEW j \in Slots, j # proc.src PROVE ~IsEntry(j, proc.ch, proc.dir)
  BY <1>0, <1>1, <1>5, <1>f DEF Quiet, Unique, IsEntry
<1>6. Fresh'
  BY <1>0, <1>1, <1>3, <1>5, <1>f DEF Quiet, Fresh, IsEntry
<1>7. Unique'
  BY <1>3, <1>5, <1>f DEF Quiet, Unique, IsEntry
<1> QED BY <1>4, <1>6, <1>7 DEF Quiet

(* The record of the reverse direction holds the port where the peer spoke.*)
LEMMA PeerPort ==
  ASSUME Safe, Quiet, proc.pc \in {"compare", "send"}
  PROVE  Peer = ch[proc.dst].port
<1>1. IsEntry(proc.dst, proc.ch, Reverse(proc.dir)) /\ proc.dst \in Slots
  BY DEF Quiet, Found, Safe, InHand
<1> QED BY <1>1 DEF Peer, Quiet, Fresh, IsEntry, Half, Filling

(* FindReverse, Compare and SendPort: the table stays as it is.            *)
LEMMA QuietLookup ==
  ASSUME Safe, Quiet, FindReverse \/ Compare \/ SendPort
  PROVE  Quiet'
<1>0. proc \in ProcType
  BY TypeParts DEF Safe
<1>1. /\ Kept /\ UNCHANGED <<ch, spoke>> /\ proc.pc \notin {"find", "touch"}
      /\ ~Filling /\ ~Filling'
  BY <1>0 DEF FindReverse, Compare, SendPort, Kept, Filling, ProcType
<1>2. Fresh' /\ Unique'
  BY <1>1, KeptFresh DEF Quiet
<1>3. CASE FindReverse
  <2>1. ASSUME NEW i \in Slots, find_channel(i, proc.ch, Reverse(proc.dir)),
               proc' = [proc EXCEPT !.pc = "compare", !.dst = i]
        PROVE  Found' /\ Delivered' /\ Reached'
    <3>1. proc'.pc = "compare" /\ proc'.dst = i /\ proc'.ch = proc.ch /\ proc'.dir = proc.dir
      BY <1>0, <2>1 DEF ProcType
    <3>2. IsEntry(i, proc.ch, Reverse(proc.dir))
      BY <2>1 DEF find_channel
    <3> QED BY <1>1, <3>1, <3>2 DEF Found, Filling, Delivered, Reached, IsEntry, Reverse
  <2>2. ASSUME proc' = [proc EXCEPT !.pc = "multi"]
        PROVE  Found' /\ Delivered' /\ Reached'
    <3>1. proc'.pc = "multi"
      BY <1>0, <2>2 DEF ProcType
    <3> QED BY <3>1 DEF Found, Filling, Delivered, Reached
  <2> QED BY <1>2, <1>3, <2>1, <2>2 DEF FindReverse, Quiet
<1>4. CASE Compare
  <2>1. /\ proc'.pc = IF SamePort THEN "touchdst" ELSE "send"
        /\ proc'.dst = proc.dst /\ proc'.ch = proc.ch /\ proc'.dir = proc.dir
        /\ proc'.port = proc.port
    BY <1>0, <1>4 DEF Compare, ProcType
  <2>2. Found'
    BY <1>1, <1>4, <2>1 DEF Compare, Quiet, Found, Filling, IsEntry, Reverse
  <2>3. Delivered'
    <3>1. Peer = ch[proc.dst].port
      BY <1>4, PeerPort DEF Compare
    <3> QED BY <1>1, <2>1, <3>1 DEF Delivered, Peer, SamePort, Reverse
  <2>4. Reached'
    BY <2>1 DEF Reached
  <2> QED BY <1>2, <2>2, <2>3, <2>4 DEF Quiet
<1>5. CASE SendPort
  <2>1. ch[proc.dst].port # NoPort
    BY <1>5 DEF SendPort, Quiet, Found, Filling, IsEntry
  <2>2. /\ proc'.pc = "touchdst" /\ sent' = {ch[proc.dst].port}
        /\ proc'.dst = proc.dst /\ proc'.ch = proc.ch /\ proc'.dir = proc.dir
    BY <1>0, <1>5, <2>1 DEF SendPort, ProcType
  <2>3. Found'
    BY <1>1, <1>5, <2>2 DEF SendPort, Quiet, Found, Filling, IsEntry, Reverse
  <2>4. Delivered'
    <3>1. Peer = ch[proc.dst].port
      BY <1>5, PeerPort DEF SendPort
    <3> QED BY <1>1, <2>2, <3>1 DEF Delivered, Peer, Reverse
  <2>5. Reached'
    BY <2>2 DEF Reached
  <2> QED BY <1>2, <2>3, <2>4, <2>5 DEF Quiet
<1> QED BY <1>3, <1>4, <1>5

LEMMA QuietDone ==
  ASSUME Safe, Quiet, TouchReverse \/ SendMulti
  PROVE  Quiet'
<1>0. proc \in ProcType /\ ch \in [Slots -> Entries] /\ ports \in Nat
      /\ spoke \in [Channels \X Dirs -> 0 .. MaxPorts]
  BY TypeParts, SwitchAssumption DEF Safe
<1>1. /\ UNCHANGED spoke /\ proc.pc \in {"touchdst", "multi"}
      /\ proc'.pc = "idle" /\ proc'.ch = proc.ch /\ proc'.dir = proc.dir
      /\ proc'.port = proc.port
  BY <1>0 DEF TouchReverse, SendMulti, ProcType
<1>2. Kept
  BY <1>0 DEF TouchReverse, SendMulti, Kept, Entries
<1>3. Fresh' /\ Unique'
  BY <1>1, <1>2, KeptFresh DEF Quiet, Filling
<1>4. Found' /\ Delivered'
  BY <1>1 DEF Found, Filling, Delivered
<1>5. Reached'
  <2>1. Peer' = Peer
    BY <1>1 DEF Peer, Reverse
  <2>2. CASE TouchReverse
    BY <1>1, <2>1, <2>2 DEF TouchReverse, Quiet, Delivered, Reached, Peer
  <2>3. CASE SendMulti
    <3>1. proc.ch \in Channels /\ Reverse(proc.dir) \in Dirs
      BY <2>3 DEF Safe, InHand, SendMulti, Reverse, Dirs
    <3>2. Peer \in 0 .. MaxPorts /\ Peer <= ports
      BY <1>0, <3>1 DEF Safe, KnownPorts, Peer
    <3>3. sent' = 1 .. ports \ {proc.port}
      BY <2>3 DEF SendMulti
    <3> QED BY <1>0, <1>1, <2>1, <3>2, <3>3, SwitchAssumption DEF Reached, NoPort
  <2> QED BY <2>2, <2>3
<1> QED BY <1>3, <1>4, <1>5 DEF Quiet

(* Housekeeping between two frames.                                        *)
LEMMA QuietHk ==
  ASSUME Safe, Quiet, HkStep, ~preempt
  PROVE  Quiet'
<1>0. ch \in [Slots -> Entries] /\ hk.i \in Slots
  BY TypeParts DEF Safe
<1>1. UNCHANGED <<proc, sent, spoke>> /\ proc.pc = "idle"
  BY DEF HkStep, HkAge, HkCheck, HkClear, HkRuns
<1>2. Kept
  <2>1. CASE HkAge
    <3>1. \A e \in Entries : Aged(e).port = e.port /\ Aged(e).ch = e.ch /\ Aged(e).dir = e.dir
      BY DEF Aged, Entries
    <3> QED BY <1>0, <2>1, <3>1 DEF HkAge, Kept
  <2>2. CASE HkCheck
    BY <2>2 DEF HkCheck, Kept
  <2>3. CASE HkClear
    BY <1>0, <2>3 DEF HkClear, Kept, Zeroed
  <2> QED BY <2>1, <2>2, <2>3 DEF HkStep
<1>3. Fresh' /\ Unique'
  BY <1>1, <1>2, KeptFresh DEF Quiet, Filling
<1>4. Found' /\ Delivered' /\ Reached'
  BY <1>1 DEF Quiet, Found, Filling, Delivered, Reached, Peer, Reverse
<1> QED BY <1>3, <1>4 DEF Quiet

LEMMA InvInit == Init => Inv
<1> SUFFICES ASSUME Init PROVE Safe /\ Quiet
  BY DEF Inv
<1>1. Safe
  BY SafeInit
<1>2. \A i \in Slots : ch[i].port = NoPort
  BY DEF Init, Zeroed
<1>3. Quiet
  BY <1>2 DEF Init, Quiet, Fresh, Found, Filling, Half, Delivered, Unique, Reached
<1> QED BY <1>1, <1>3

LEMMA InvNext == Inv /\ [Next]_vars => Inv'
<1> SUFFICES ASSUME Inv, [Next]_vars PROVE Inv'
  OBVIOUS
<1>1. Safe /\ (~preempt => Quiet)
  BY DEF Inv
<1>2. Safe'
  BY <1>1, SafeNext
<1>3. preempt' = preempt
  BY DEF Next, nbus_switch_add_port, Receive, ProcessStep, Dequeue, FindSource, AddSource,
         AddDirection, AddChannel, TouchSource, FindReverse, Compare, SendPort, TouchReverse, SendMulti,
         HkStep, HkAge, HkCheck, HkClear, vars
<1>4. ASSUME ~preempt, Quiet PROVE Quiet'
  <2>1. CASE UNCHANGED <<ch, proc, sent, spoke>>
    BY <1>4, <2>1 DEF Quiet, Fresh, Found, Filling, Half, Delivered, Unique, Reached, Peer,
       IsEntry, Reverse
  <2>2. CASE nbus_switch_add_port
    BY <2>1, <2>2 DEF nbus_switch_add_port
  <2>3. ASSUME NEW p \in 1 .. ports, NEW c \in Channels, NEW d \in Dirs, Receive(p, c, d)
        PROVE  Quiet'
    BY <2>1, <2>3 DEF Receive
  <2>4. CASE ProcessStep
    BY <1>1, <1>4, <2>4, QuietDequeue, QuietFindSource, QuietAddSource, QuietFill,
       QuietTouchSource, QuietLookup, QuietDone DEF ProcessStep
  <2>5. CASE HkStep
    BY <1>1, <1>4, <2>5, QuietHk
  <2>6. CASE UNCHANGED vars
    BY <2>1, <2>6 DEF vars
  <2> QED BY <2>2, <2>3, <2>4, <2>5, <2>6 DEF Next
<1> QED BY <1>1, <1>2, <1>3, <1>4 DEF Inv

-----------------------------------------------------------------------------
(* Theorems                                                                *)

LEMMA Invariance == Spec => []Inv
  BY InvInit, InvNext, PTL DEF Spec

(***************************************************************************)
(* Every record and task state of nbus-switch.c keeps its type, also while *)
(* the tasks race: an index into the table is that of a record.            *)
(***************************************************************************)
THEOREM TypeCorrect == Spec => []TypeOK
<1>1. Inv => TypeOK
  BY DEF Inv, Safe
<1> QED BY <1>1, Invariance, PTL

(***************************************************************************)
(* No frame leaves through the port it came from, whatever housekeeping    *)
(* does to the record between the comparison and the send.                 *)
(***************************************************************************)
THEOREM NeverReflects == Spec => []NoReflection
<1>1. Inv => NoReflection
  BY DEF Inv, Safe
<1> QED BY <1>1, Invariance, PTL

(***************************************************************************)
(* Without a race of the tasks the table holds one record per end of a     *)
(* channel, for any number of channels and records.                        *)
(***************************************************************************)
THEOREM OneRecord == Spec => []UniqueEntries
<1>1. Inv => UniqueEntries
  BY DEF Inv, Quiet, Unique, UniqueEntries, Half, Filling
<1> QED BY <1>1, Invariance, PTL

(***************************************************************************)
(* Without a race of the tasks a frame that is not published reaches the   *)
(* port where the other end of its channel last spoke.                     *)
(***************************************************************************)
THEOREM FrameReachesPeer == Spec => []ReachesPeer
<1>1. Inv => ReachesPeer
  BY DEF Inv, Quiet, Reached, Peer, ReachesPeer
<1> QED BY <1>1, Invariance, PTL

=============================================================================
