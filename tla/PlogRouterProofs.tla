-------------------------- MODULE PlogRouterProofs --------------------------
(***************************************************************************)
(* Theorems about PlogRouter, for every set of tasks, filters and topics.  *)
(*                                                                         *)
(* The inductive invariant follows one token per client: from the moment a *)
(* publisher has sent until it takes the response, the delivery is in      *)
(* exactly one of send_lock, the receiving task and recv_lock, and the     *)
(* publisher, which holds msg_mutex, waits.  Walks follows the publishers  *)
(* along the list, which has no cycle.                                     *)
(***************************************************************************)
EXTENDS PlogRouter, TLAPS

TaskType == [pc : Pcs, msg : Nat, topic : Topics \cup {None}, c : Clients \cup {None},
             from : Clients \cup {None}, read : Topics \cup {None}]

Delivering(p) == task[p].pc \in {"send", "wait", "unlock"}

Located ==
  \A p \in Clients :
    /\ task[p].pc \in {"lock", "send", "wait", "unlock"} => task[p].c \in Clients
    /\ Publishing(p) => task[p].topic \in Topics
    /\ task[p].pc = "append" => task[p].read \in Topics

MutexOwned ==
  \A p, c \in Clients : msg_mutex[c] = p <=> (Delivering(p) /\ task[p].c = c)

Rendezvous ==
  \A c \in Clients :
    /\ send_lock[c] # <<>> =>
         /\ recv_lock[c] = 0 /\ ~Copying(c)
         /\ \E p \in Clients : send_lock[c] = <<p>> /\ WaitsFor(p, c)
    /\ Copying(c) =>
         /\ recv_lock[c] = 0 /\ send_lock[c] = <<>>
         /\ task[c].from \in Clients /\ WaitsFor(task[c].from, c)
    /\ recv_lock[c] > 0 =>
         /\ send_lock[c] = <<>> /\ ~Copying(c)
         /\ \E p \in Clients : WaitsFor(p, c)

Inv == TypeOK /\ Located /\ MutexOwned /\ Rendezvous

LEMMA ListedClients == Listed \subseteq Clients
  BY DEF Listed

(* A step that changes the pc of one task only.                            *)
LEMMA PcStep ==
  ASSUME task \in [Clients -> TaskType],
         NEW t \in Clients, NEW x \in Pcs,
         task' = [task EXCEPT ![t].pc = x]
  PROVE  /\ task' \in [Clients -> TaskType]
         /\ task'[t].pc = x /\ task'[t].topic = task[t].topic /\ task'[t].c = task[t].c
         /\ task'[t].from = task[t].from /\ task'[t].read = task[t].read
         /\ task'[t].msg = task[t].msg
         /\ \A q \in Clients : q # t => task'[q] = task[q]
<1>1. task[t] \in TaskType
  OBVIOUS
<1>2. [task[t] EXCEPT !.pc = x] \in TaskType
  BY <1>1 DEF TaskType
<1>3. task' = [task EXCEPT ![t] = [task[t] EXCEPT !.pc = x]]
  OBVIOUS
<1> QED BY <1>1, <1>2, <1>3 DEF TaskType

LEMMA InvInit == Init => Inv
<1> SUFFICES ASSUME Init PROVE Inv
  OBVIOUS
<1> USE RouterAssumption
<1>1. \A c \in Clients : task[c] = [Idle EXCEPT !.pc = "new"]
  BY DEF Init
<1>2. [Idle EXCEPT !.pc = "new"] \in TaskType
  BY DEF Idle, TaskType, Pcs
<1>3. \A c \in Clients : task[c].pc = "new"
  BY <1>1 DEF Idle
<1>4. TypeOK
  <2>1. task \in [Clients -> TaskType]
    BY <1>2 DEF Init
  <2>2. /\ send_lock \in [Clients -> Seq(Clients)]
        /\ got \in [Clients -> Seq([from : Clients, msg : Nat, topic : Topics])]
    BY DEF Init
  <2>3. /\ first_client \in Clients \cup {None} /\ next \in [Clients -> Clients \cup {None}]
        /\ topic_filter \in [Clients -> Filters \cup {NoFilter}]
        /\ msg_mutex \in [Clients -> Clients \cup {None}] /\ recv_lock \in [Clients -> 0 .. 1]
        /\ filters \in [Clients -> Nat] /\ owed \in [Clients -> SUBSET Clients]
    BY DEF Init
  <2> QED BY <2>1, <2>2, <2>3 DEF TypeOK, TaskType
<1>5. Located /\ MutexOwned
  BY <1>3 DEF Init, Located, MutexOwned, Delivering, Publishing
<1>6. \A c \in Clients : send_lock[c] = <<>> /\ recv_lock[c] = 0 /\ ~Copying(c)
  BY <1>3 DEF Init, Copying
<1>7. Rendezvous
  BY <1>6 DEF Rendezvous
<1> QED BY <1>4, <1>5, <1>7 DEF Inv

(* A step of one task that is neither delivering nor copying, before or    *)
(* after, and that touches no queue.                                       *)
LEMMA QuietStep ==
  ASSUME Inv, UNCHANGED queueVars,
         NEW t \in Clients,
         \A q \in Clients : q # t => task'[q] = task[q],
         ~Delivering(t), ~Delivering(t)', ~Copying(t), ~Copying(t)'
  PROVE  MutexOwned' /\ Rendezvous'
<1>1. MutexOwned'
  BY DEF Inv, MutexOwned, Delivering, queueVars
<1>2. \A p, c \in Clients : WaitsFor(p, c)' <=> WaitsFor(p, c)
  BY DEF WaitsFor, Delivering
<1>3. \A c \in Clients : Copying(c)' <=> Copying(c)
  BY DEF Copying
<1>4. \A c \in Clients : Copying(c) => task'[c].from = task[c].from
  OBVIOUS
<1>5. Rendezvous'
  BY <1>2, <1>3, <1>4 DEF Inv, Rendezvous, queueVars
<1> QED BY <1>1, <1>5

LEMMA InvNext == Inv /\ [Next]_vars => Inv'
<1> SUFFICES ASSUME Inv, [Next]_vars PROVE Inv'
  OBVIOUS
<1> USE RouterAssumption
<1>i. TypeOK /\ Located /\ MutexOwned /\ Rendezvous
  BY DEF Inv
<1>t. /\ task \in [Clients -> TaskType]
      /\ got \in [Clients -> Seq([from : Clients, msg : Nat, topic : Topics])]
      /\ next \in [Clients -> Clients \cup {None}] /\ first_client \in Clients \cup {None}
      /\ send_lock \in [Clients -> Seq(Clients)] /\ recv_lock \in [Clients -> 0 .. 1]
      /\ owed \in [Clients -> SUBSET Clients]
  BY <1>i DEF TypeOK, TaskType
<1>1. ASSUME NEW c \in Clients, OpenLink(c)
      PROVE  Inv'
  <2>1. /\ task' \in [Clients -> TaskType]
        /\ task'[c].pc = "opening"
        /\ \A q \in Clients : q # c => task'[q] = task[q]
    <3> "opening" \in Pcs  BY DEF Pcs
    <3> QED BY <1>1, <1>t, PcStep DEF OpenLink
  <2>2. TypeOK'
    BY <1>1, <1>i, <1>t, <2>1 DEF OpenLink, TypeOK, TaskType, queueVars, listVars
  <2>3. Located'
    BY <1>i, <2>1 DEF Located, Publishing
  <2>4. MutexOwned' /\ Rendezvous'
    BY <1>1, <2>1, QuietStep DEF OpenLink, Delivering, Copying
  <2> QED BY <2>2, <2>3, <2>4 DEF Inv
<1>2. ASSUME NEW c \in Clients, OpenPublish(c)
      PROVE  Inv'
  <2>1. /\ task' \in [Clients -> TaskType]
        /\ task'[c].pc = "idle"
        /\ \A q \in Clients : q # c => task'[q] = task[q]
    <3> "idle" \in Pcs  BY DEF Pcs
    <3> QED BY <1>2, <1>t, PcStep DEF OpenPublish
  <2>2. TypeOK'
    BY <1>2, <1>i, <1>t, <2>1 DEF OpenPublish, TypeOK, TaskType, queueVars, listVars
  <2>3. Located'
    BY <1>i, <2>1 DEF Located, Publishing
  <2>4. MutexOwned' /\ Rendezvous'
    BY <1>2, <2>1, QuietStep DEF OpenPublish, Delivering, Copying
  <2> QED BY <2>2, <2>3, <2>4 DEF Inv
<1>3. ASSUME NEW c \in Clients, Close(c)
      PROVE  Inv'
  <2>1. /\ task' \in [Clients -> TaskType]
        /\ task'[c].pc = "closed"
        /\ \A q \in Clients : q # c => task'[q] = task[q]
    <3> "closed" \in Pcs  BY DEF Pcs
    <3> QED BY <1>3, <1>t, PcStep DEF Close
  <2>2. TypeOK'
    BY <1>3, <1>i, <1>t, <2>1 DEF Close, TypeOK, TaskType, SetFilter, queueVars, listVars
  <2>3. Located'
    BY <1>i, <2>1 DEF Located, Publishing
  <2>4. MutexOwned' /\ Rendezvous'
    BY <1>3, <2>1, QuietStep DEF Close, Delivering, Copying
  <2> QED BY <2>2, <2>3, <2>4 DEF Inv
<1>4. ASSUME NEW c \in Clients, ReceiveCall(c)
      PROVE  Inv'
  <2>1. /\ task' \in [Clients -> TaskType]
        /\ task'[c].pc = "receive"
        /\ \A q \in Clients : q # c => task'[q] = task[q]
    <3> "receive" \in Pcs  BY DEF Pcs
    <3> QED BY <1>4, <1>t, PcStep DEF ReceiveCall
  <2>2. TypeOK'
    BY <1>4, <1>i, <1>t, <2>1 DEF ReceiveCall, TypeOK, TaskType, queueVars, listVars
  <2>3. Located'
    BY <1>i, <2>1 DEF Located, Publishing
  <2>4. MutexOwned' /\ Rendezvous'
    BY <1>4, <2>1, QuietStep DEF ReceiveCall, Delivering, Copying
  <2> QED BY <2>2, <2>3, <2>4 DEF Inv
<1>5. ASSUME NEW c \in Clients, ReceiveTimeout(c)
      PROVE  Inv'
  <2>1. /\ task' \in [Clients -> TaskType]
        /\ task'[c].pc = "idle"
        /\ \A q \in Clients : q # c => task'[q] = task[q]
    <3> "idle" \in Pcs  BY DEF Pcs
    <3> QED BY <1>5, <1>t, PcStep DEF ReceiveTimeout
  <2>2. TypeOK'
    BY <1>5, <1>i, <1>t, <2>1 DEF ReceiveTimeout, TypeOK, TaskType, queueVars, listVars
  <2>3. Located'
    BY <1>i, <2>1 DEF Located, Publishing
  <2>4. MutexOwned' /\ Rendezvous'
    BY <1>5, <2>1, QuietStep DEF ReceiveTimeout, Delivering, Copying
  <2> QED BY <2>2, <2>3, <2>4 DEF Inv
<1>6. ASSUME NEW c \in Clients, NEW f \in Filters \cup {NoFilter}, Subscribe(c, f)
      PROVE  Inv'
  <2>1. TypeOK'
    <3>1. topic_filter' \in [Clients -> Filters \cup {NoFilter}]
      BY <1>6, <1>i DEF Subscribe, SetFilter, TypeOK
    <3>2. filters' \in [Clients -> Nat]
      BY <1>6, <1>i DEF Subscribe, TypeOK
    <3>3. owed' \in [Clients -> SUBSET Clients]
      BY <1>6, <1>t DEF Subscribe, SetFilter
    <3> QED BY <1>6, <1>i, <3>1, <3>2, <3>3 DEF Subscribe, TypeOK, listVars, queueVars
  <2>2. Located' /\ MutexOwned' /\ Rendezvous'
    BY <1>6, <1>i DEF Subscribe, Located, MutexOwned, Rendezvous, Publishing, Delivering,
                      Copying, WaitsFor, queueVars
  <2> QED BY <2>1, <2>2 DEF Inv
<1>7. ASSUME NEW c \in Clients, NEW t \in Topics, Publish(c, t)
      PROVE  Inv'
  <2>1. /\ task' \in [Clients -> TaskType]
        /\ task'[c].pc = "walk" /\ task'[c].topic = t
        /\ \A q \in Clients : q # c => task'[q] = task[q]
    <3>1. task[c] \in TaskType /\ "walk" \in Pcs
      BY <1>t DEF Pcs
    <3> DEFINE r == [task[c] EXCEPT !.pc = "walk", !.msg = @ + 1, !.topic = t, !.c = first_client]
    <3>n. task[c].msg + 1 \in Nat
      BY <3>1 DEF TaskType
    <3>2. r \in TaskType /\ r.pc = "walk" /\ r.topic = t
      BY <1>t, <3>1, <3>n DEF TaskType
    <3>3. task' = [task EXCEPT ![c] = r]
      BY <1>7 DEF Publish
    <3> HIDE DEF r
    <3> QED BY <1>t, <3>2, <3>3
  <2>2. TypeOK'
    <3>1. {d \in Listed : plog_router_match_topic(topic_filter[d], t)} \in SUBSET Clients
      BY ListedClients
    <3>2. owed' \in [Clients -> SUBSET Clients]
      BY <1>7, <1>t, <3>1 DEF Publish
    <3> QED BY <1>7, <1>i, <2>1, <3>2 DEF Publish, TypeOK, TaskType, listVars, queueVars
  <2>3. Located'
    BY <1>i, <2>1 DEF Located, Publishing
  <2>4. MutexOwned' /\ Rendezvous'
    BY <1>7, <2>1, QuietStep DEF Publish, Delivering, Copying
  <2> QED BY <2>2, <2>3, <2>4 DEF Inv
<1>8. ASSUME NEW c \in Clients, Walk(c)
      PROVE  Inv'
  <2>1. /\ task' \in [Clients -> TaskType]
        /\ task'[c].pc \in {"walk", "lock"} /\ task'[c].topic = task[c].topic
        /\ task'[c].pc = "lock" => task'[c].c \in Clients
        /\ \A q \in Clients : q # c => task'[q] = task[q]
    <3>1. task[c] \in TaskType /\ task[c].c \in Clients /\ task[c].pc = "walk"
      BY <1>8, <1>t DEF Walk, TaskType
    <3>2. CASE task' = [task EXCEPT ![c].pc = "lock"]
      <4> "lock" \in Pcs  BY DEF Pcs
      <4> QED BY <1>t, <3>1, <3>2, PcStep
    <3>3. CASE task' = [task EXCEPT ![c].c = NextClient(@)]
      <4> DEFINE r == [task[c] EXCEPT !.c = NextClient(@)]
      <4>1. NextClient(task[c].c) \in Clients \cup {None}
        BY <1>t, <3>1 DEF NextClient
      <4>2. r \in TaskType /\ r.pc = "walk" /\ r.topic = task[c].topic
        BY <3>1, <4>1 DEF TaskType
      <4>3. task' = [task EXCEPT ![c] = r]
        BY <3>3
      <4> HIDE DEF r
      <4> QED BY <1>t, <4>2, <4>3
    <3> QED BY <1>8, <3>2, <3>3 DEF Walk
  <2>2. TypeOK'
    BY <1>8, <1>i, <2>1 DEF Walk, TypeOK, TaskType, listVars, queueVars
  <2>3. Located'
    BY <1>8, <1>i, <2>1 DEF Walk, Located, Publishing
  <2>4. MutexOwned' /\ Rendezvous'
    BY <1>8, <2>1, QuietStep DEF Walk, Delivering, Copying
  <2> QED BY <2>2, <2>3, <2>4 DEF Inv
<1>9. ASSUME NEW c \in Clients, PublishReturn(c)
      PROVE  Inv'
  <2>1. /\ task' \in [Clients -> TaskType]
        /\ task'[c].pc = "idle"
        /\ \A q \in Clients : q # c => task'[q] = task[q]
    <3>1. task[c] \in TaskType /\ "idle" \in Pcs
      BY <1>t DEF Pcs
    <3> DEFINE r == [task[c] EXCEPT !.pc = "idle", !.topic = None]
    <3>2. r \in TaskType /\ r.pc = "idle"
      BY <3>1 DEF TaskType
    <3>3. task' = [task EXCEPT ![c] = r]
      BY <1>9 DEF PublishReturn
    <3> HIDE DEF r
    <3> QED BY <1>t, <3>2, <3>3
  <2>2. TypeOK'
    BY <1>9, <1>i, <2>1 DEF PublishReturn, TypeOK, TaskType, listVars, queueVars
  <2>3. Located'
    BY <1>i, <2>1 DEF Located, Publishing
  <2>4. MutexOwned' /\ Rendezvous'
    BY <1>9, <2>1, QuietStep DEF PublishReturn, Delivering, Copying
  <2> QED BY <2>2, <2>3, <2>4 DEF Inv
<1>10. ASSUME NEW c \in Clients, ReceiveMsg(c)
      PROVE  Inv'
  <2>p. PICK p \in Clients : send_lock[c] = <<p>> /\ WaitsFor(p, c)
    BY <1>10, <1>i DEF ReceiveMsg, Rendezvous
  <2>h. Head(send_lock[c]) = p /\ Tail(send_lock[c]) = <<>>
    BY <2>p
  <2>1. /\ task' \in [Clients -> TaskType]
        /\ task'[c].pc = "copy" /\ task'[c].from = p
        /\ \A q \in Clients : q # c => task'[q] = task[q]
    <3>1. task[c] \in TaskType /\ "copy" \in Pcs
      BY <1>t DEF Pcs
    <3> DEFINE r == [task[c] EXCEPT !.pc = "copy", !.from = p]
    <3>2. r \in TaskType /\ r.pc = "copy" /\ r.from = p
      BY <3>1 DEF TaskType
    <3>3. task' = [task EXCEPT ![c] = r]
      BY <1>10, <2>h DEF ReceiveMsg
    <3> HIDE DEF r
    <3> QED BY <1>t, <3>2, <3>3
  <2>2. /\ task[c].pc = "receive"
        /\ msg_mutex' = msg_mutex /\ recv_lock' = recv_lock
    BY <1>10 DEF ReceiveMsg
  <2>3. /\ send_lock'[c] = <<>>
        /\ \A d \in Clients : d # c => send_lock'[d] = send_lock[d]
        /\ send_lock' \in [Clients -> Seq(Clients)]
    <3>1. Tail(send_lock[c]) = <<>>
      BY <2>h
    <3>2. send_lock' = [send_lock EXCEPT ![c] = <<>>]
      BY <1>10, <3>1 DEF ReceiveMsg, Taken
    <3>3. <<>> \in Seq(Clients)
      OBVIOUS
    <3>4. send_lock \in [Clients -> Seq(Clients)]
      BY <1>t
    <3> QED BY <3>2, <3>3, <3>4
  <2>4. TypeOK'
    BY <1>10, <1>i, <2>1, <2>2, <2>3 DEF ReceiveMsg, TypeOK, TaskType, listVars
  <2>5. Located'
    BY <1>i, <2>1 DEF Located, Publishing
  <2>6. MutexOwned'
    BY <1>i, <2>1, <2>2 DEF MutexOwned, Delivering
  <2>7. /\ \A q, d \in Clients : WaitsFor(q, d)' <=> WaitsFor(q, d)
        /\ \A d \in Clients : d # c => (Copying(d)' <=> Copying(d))
        /\ Copying(c)'
    BY <2>1, <2>2 DEF WaitsFor, Copying
  <2>8. recv_lock[c] = 0
    BY <1>10, <1>i DEF ReceiveMsg, Rendezvous
  <2>w. WaitsFor(p, c)'
    BY <2>7, <2>p
  <2>9. Rendezvous'
    <3> SUFFICES ASSUME NEW d \in Clients PROVE Rendezvous!(d)'
      BY DEF Rendezvous
    <3>1. CASE d = c
      BY <3>1, <2>1, <2>2, <2>3, <2>7, <2>8, <2>w
    <3>2. CASE d # c
      BY <3>2, <1>i, <2>1, <2>2, <2>3, <2>7 DEF Rendezvous
    <3> QED BY <3>1, <3>2
  <2> QED BY <2>4, <2>5, <2>6, <2>9 DEF Inv
<1>11. ASSUME NEW c \in Clients, CopyTopic(c)
      PROVE  Inv'
  <2>p. /\ task[c].from \in Clients /\ WaitsFor(task[c].from, c)
        /\ task[task[c].from].topic \in Topics /\ Copying(c)
    BY <1>11, <1>i DEF CopyTopic, Copying, Rendezvous, Located, WaitsFor, Publishing
  <2>1. /\ task' \in [Clients -> TaskType]
        /\ task'[c].pc = "append"
        /\ task'[c].read \in Topics /\ task'[c].from = task[c].from
        /\ \A q \in Clients : q # c => task'[q] = task[q]
    <3>1. task[c] \in TaskType /\ "append" \in Pcs
      BY <1>t DEF Pcs
    <3> DEFINE r == [task[c] EXCEPT !.pc = "append", !.read = task[task[c].from].topic]
    <3>2. r \in TaskType /\ r.pc = "append"
        /\ r.read \in Topics /\ r.from = task[c].from
      BY <3>1, <2>p DEF TaskType
    <3>3. task' = [task EXCEPT ![c] = r]
      BY <1>11 DEF CopyTopic
    <3> HIDE DEF r
    <3> QED BY <1>t, <3>2, <3>3
  <2>3. TypeOK'
    BY <1>11, <1>i, <2>1 DEF CopyTopic, TypeOK, TaskType, listVars, queueVars
  <2>4. Located'
    BY <1>i, <2>1 DEF Located, Publishing
  <2>5. MutexOwned'
    BY <1>11, <1>i, <2>1 DEF CopyTopic, MutexOwned, Delivering, queueVars
  <2>6. /\ \A q, d \in Clients : WaitsFor(q, d)' <=> WaitsFor(q, d)
        /\ \A d \in Clients : Copying(d)' <=> Copying(d)
        /\ \A d \in Clients : Copying(d) => task'[d].from = task[d].from
    BY <1>11, <2>1, <2>p DEF CopyTopic, WaitsFor, Copying
  <2>7. Rendezvous'
    BY <1>11, <1>i, <2>6 DEF CopyTopic, Rendezvous, queueVars
  <2> QED BY <2>3, <2>4, <2>5, <2>7 DEF Inv
<1>12. ASSUME NEW c \in Clients, CopyArray(c)
      PROVE  Inv'
  <2>p. /\ task[c].from \in Clients /\ WaitsFor(task[c].from, c) /\ Copying(c)
        /\ task[c].read \in Topics
    BY <1>12, <1>i DEF CopyArray, Copying, Rendezvous, Located
  <2>1. /\ task' \in [Clients -> TaskType]
        /\ task'[c].pc = "respond" /\ task'[c].from = task[c].from
        /\ \A q \in Clients : q # c => task'[q] = task[q]
    <3> "respond" \in Pcs  BY DEF Pcs
    <3> QED BY <1>12, <1>t, PcStep DEF CopyArray
  <2>3. TypeOK'
    <3>1. task[task[c].from].msg \in Nat
      BY <1>t, <2>p DEF TaskType
    <3> DEFINE e == [from |-> task[c].from, msg |-> task[task[c].from].msg, topic |-> task[c].read]
    <3>2. e \in [from : Clients, msg : Nat, topic : Topics]
      BY <2>p, <3>1
    <3>3. got' = [got EXCEPT ![c] = Append(@, e)]
      BY <1>12 DEF CopyArray
    <3> HIDE DEF e
    <3>4. got' \in [Clients -> Seq([from : Clients, msg : Nat, topic : Topics])]
      <4> DEFINE Msg == [from : Clients, msg : Nat, topic : Topics]
      <4> SUFFICES got' \in [Clients -> Seq(Msg)]
        OBVIOUS
      <4>1. got \in [Clients -> Seq(Msg)] /\ e \in Msg
        BY <1>t, <3>2
      <4> HIDE DEF Msg
      <4>2. Append(got[c], e) \in Seq(Msg)
        BY <4>1
      <4> QED BY <3>3, <4>1, <4>2
    <3>5. owed' \in [Clients -> SUBSET Clients]
      BY <1>12, <1>t, <2>p DEF CopyArray
    <3> QED BY <1>12, <1>i, <2>1, <3>4, <3>5 DEF CopyArray, TypeOK, TaskType, listVars, queueVars
  <2>4. Located'
    BY <1>i, <2>1 DEF Located, Publishing
  <2>5. MutexOwned'
    BY <1>12, <1>i, <2>1 DEF CopyArray, MutexOwned, Delivering, queueVars
  <2>6. /\ \A q, d \in Clients : WaitsFor(q, d)' <=> WaitsFor(q, d)
        /\ \A d \in Clients : Copying(d)' <=> Copying(d)
        /\ \A d \in Clients : Copying(d) => task'[d].from = task[d].from
    BY <1>12, <2>1, <2>p DEF CopyArray, WaitsFor, Copying
  <2>7. Rendezvous'
    BY <1>12, <1>i, <2>6 DEF CopyArray, Rendezvous, queueVars
  <2> QED BY <2>3, <2>4, <2>5, <2>7 DEF Inv
<1>13. ASSUME NEW c \in Clients, Respond(c)
      PROVE  Inv'
  <2>p. /\ task[c].from \in Clients /\ WaitsFor(task[c].from, c) /\ Copying(c)
        /\ send_lock[c] = <<>>
    BY <1>13, <1>i DEF Respond, Copying, Rendezvous
  <2>1. /\ task' \in [Clients -> TaskType]
        /\ task'[c].pc = "idle"
        /\ \A q \in Clients : q # c => task'[q] = task[q]
    <3>1. task[c] \in TaskType /\ "idle" \in Pcs
      BY <1>t DEF Pcs
    <3> DEFINE r == [task[c] EXCEPT !.pc = "idle", !.from = None, !.read = None]
    <3>2. r \in TaskType /\ r.pc = "idle"
      BY <3>1 DEF TaskType
    <3>3. task' = [task EXCEPT ![c] = r]
      BY <1>13 DEF Respond
    <3> HIDE DEF r
    <3> QED BY <1>t, <3>2, <3>3
  <2>2. /\ recv_lock' = [recv_lock EXCEPT ![c] = 1]
        /\ UNCHANGED <<msg_mutex, send_lock>>
    <3>1. recv_lock[c] = 0
      BY <1>13, <1>i DEF Respond, Rendezvous, Copying
    <3> QED BY <1>13, <3>1 DEF Respond, Response
  <2>3. TypeOK'
    <3>1. recv_lock' \in [Clients -> 0 .. 1]
      BY <1>t, <2>2
    <3> QED BY <1>13, <1>i, <2>1, <2>2, <3>1 DEF Respond, TypeOK, TaskType, listVars
  <2>4. Located'
    BY <1>i, <2>1 DEF Located, Publishing
  <2>5. MutexOwned'
    BY <1>13, <1>i, <2>1, <2>2 DEF Respond, MutexOwned, Delivering
  <2>6. /\ \A q, d \in Clients : WaitsFor(q, d)' <=> WaitsFor(q, d)
        /\ \A d \in Clients : d # c => (Copying(d)' <=> Copying(d))
        /\ ~Copying(c)'
    BY <1>13, <2>1, <2>p DEF Respond, WaitsFor, Copying
  <2>7. Rendezvous'
    <3> SUFFICES ASSUME NEW d \in Clients PROVE Rendezvous!(d)'
      BY DEF Rendezvous
    <3>1. CASE d = c
      BY <1>t, <2>2, <2>6, <2>p, <3>1
    <3>2. CASE d # c
      BY <1>i, <1>t, <2>1, <2>2, <2>6, <3>2 DEF Rendezvous
    <3> QED BY <3>1, <3>2
  <2> QED BY <2>3, <2>4, <2>5, <2>7 DEF Inv
<1>14. ASSUME NEW p \in Clients, DeliverLock(p)
      PROVE  Inv'
  <2> DEFINE c == task[p].c
  <2>1. /\ task' \in [Clients -> TaskType]
        /\ task'[p].pc = "send" /\ task'[p].c = task[p].c /\ task'[p].topic = task[p].topic
        /\ \A q \in Clients : q # p => task'[q] = task[q]
    <3> "send" \in Pcs  BY DEF Pcs
    <3> QED BY <1>14, <1>t, PcStep DEF DeliverLock
  <2>2. /\ task[p].pc = "lock" /\ c \in Clients /\ msg_mutex[c] = None
        /\ msg_mutex' = [msg_mutex EXCEPT ![c] = p]
        /\ send_lock' = send_lock /\ recv_lock' = recv_lock
    BY <1>14, <1>i DEF DeliverLock, Free, Located
  <2>3. TypeOK'
    <3>1. msg_mutex' \in [Clients -> Clients \cup {None}]
      BY <1>i, <2>2 DEF TypeOK
    <3> QED BY <1>14, <1>i, <2>1, <3>1 DEF DeliverLock, TypeOK, TaskType, listVars
  <2>4. Located'
    BY <1>i, <2>1, <2>2 DEF Located, Publishing
  <2>5. MutexOwned'
    <3>1. msg_mutex \in [Clients -> Clients \cup {None}]
      BY <1>i DEF TypeOK
    <3> QED BY <1>i, <2>1, <2>2, <3>1 DEF MutexOwned, Delivering
  <2>6. /\ \A q, d \in Clients : WaitsFor(q, d)' <=> WaitsFor(q, d)
        /\ \A d \in Clients : Copying(d)' <=> Copying(d)
        /\ \A d \in Clients : Copying(d) => task'[d].from = task[d].from
    BY <2>1, <2>2 DEF WaitsFor, Copying
  <2>7. Rendezvous'
    BY <1>i, <2>2, <2>6 DEF Rendezvous
  <2> QED BY <2>3, <2>4, <2>5, <2>7 DEF Inv
<1>15. ASSUME NEW p \in Clients, DeliverSend(p)
      PROVE  Inv'
  <2> DEFINE c == task[p].c
  <2>1. /\ task' \in [Clients -> TaskType]
        /\ task'[p].pc = "wait" /\ task'[p].c = task[p].c /\ task'[p].topic = task[p].topic
        /\ \A q \in Clients : q # p => task'[q] = task[q]
    <3> "wait" \in Pcs  BY DEF Pcs
    <3> QED BY <1>15, <1>t, PcStep DEF DeliverSend, AfterSend
  <2>2. /\ task[p].pc = "send" /\ c \in Clients /\ send_lock[c] = <<>>
        /\ msg_mutex' = msg_mutex /\ recv_lock' = recv_lock
    BY <1>15, <1>i DEF DeliverSend, Located
  <2>3. /\ send_lock'[c] = <<p>>
        /\ \A d \in Clients : d # c => send_lock'[d] = send_lock[d]
        /\ send_lock' \in [Clients -> Seq(Clients)]
    BY <1>15, <1>t, <2>2 DEF DeliverSend
  <2>4. TypeOK'
    BY <1>15, <1>i, <2>1, <2>2, <2>3 DEF DeliverSend, TypeOK, TaskType, listVars
  <2>5. Located'
    BY <1>i, <2>1, <2>2 DEF Located, Publishing
  <2>6. MutexOwned'
    BY <1>i, <2>1, <2>2 DEF MutexOwned, Delivering
  <2>7. ASSUME NEW q \in Clients, WaitsFor(q, c)
        PROVE  FALSE
    <3>1. msg_mutex[c] = p
      BY <1>i, <2>2 DEF MutexOwned, Delivering
    <3>2. msg_mutex[c] = q
      BY <1>i, <2>2, <2>7 DEF MutexOwned, Delivering, WaitsFor
    <3> QED BY <2>2, <2>7, <3>1, <3>2 DEF WaitsFor
  <2>8. recv_lock[c] = 0 /\ ~Copying(c)
    <3>1. ~Copying(c) /\ ~(recv_lock[c] > 0)
      BY <1>i, <2>2, <2>7 DEF Rendezvous
    <3>2. recv_lock[c] \in 0 .. 1
      BY <1>t, <2>2
    <3> QED BY <3>1, <3>2
  <2>9. /\ \A q, d \in Clients : d # c => (WaitsFor(q, d)' <=> WaitsFor(q, d))
        /\ \A d \in Clients : Copying(d)' <=> Copying(d)
        /\ \A d \in Clients : Copying(d) => task'[d].from = task[d].from
        /\ \A d \in Clients : d = c => WaitsFor(p, d)'
    BY <2>1, <2>2 DEF WaitsFor, Copying
  <2>10. Rendezvous'
    <3> SUFFICES ASSUME NEW d \in Clients PROVE Rendezvous!(d)'
      BY DEF Rendezvous
    <3>1. CASE d = c
      <4>1. \E q \in Clients : send_lock'[d] = <<q>> /\ WaitsFor(q, d)'
        BY <3>1, <2>3, <2>9
      <4>2. send_lock'[d] # <<>> /\ recv_lock'[d] = 0 /\ ~Copying(d)'
        BY <3>1, <2>2, <2>3, <2>8, <2>9
      <4> QED BY <4>1, <4>2
    <3>2. CASE d # c
      BY <3>2, <1>i, <2>2, <2>3, <2>9 DEF Rendezvous
    <3> QED BY <3>1, <3>2
  <2> QED BY <2>4, <2>5, <2>6, <2>10 DEF Inv
<1>16. ASSUME NEW p \in Clients, DeliverWait(p)
      PROVE  Inv'
  <2> DEFINE c == task[p].c
  <2>1. /\ task' \in [Clients -> TaskType]
        /\ task'[p].pc = "unlock" /\ task'[p].c = task[p].c /\ task'[p].topic = task[p].topic
        /\ \A q \in Clients : q # p => task'[q] = task[q]
    <3> "unlock" \in Pcs  BY DEF Pcs
    <3> QED BY <1>16, <1>t, PcStep DEF DeliverWait
  <2>2. /\ task[p].pc = "wait" /\ c \in Clients /\ recv_lock[c] > 0
        /\ msg_mutex' = msg_mutex /\ send_lock' = send_lock
    BY <1>16, <1>i DEF DeliverWait, Located
  <2>3. /\ recv_lock'[c] = 0
        /\ \A d \in Clients : d # c => recv_lock'[d] = recv_lock[d]
        /\ recv_lock' \in [Clients -> 0 .. 1]
    BY <1>16, <1>t, <2>2 DEF DeliverWait
  <2>4. TypeOK'
    BY <1>16, <1>i, <2>1, <2>2, <2>3 DEF DeliverWait, TypeOK, TaskType, listVars
  <2>5. Located'
    BY <1>i, <2>1, <2>2 DEF Located, Publishing
  <2>6. MutexOwned'
    BY <1>i, <2>1, <2>2 DEF MutexOwned, Delivering
  <2>7. send_lock[c] = <<>> /\ ~Copying(c)
    BY <1>i, <2>2 DEF Rendezvous
  <2>8. /\ \A q, d \in Clients : d # c => (WaitsFor(q, d)' <=> WaitsFor(q, d))
        /\ \A d \in Clients : Copying(d)' <=> Copying(d)
        /\ \A d \in Clients : Copying(d) => task'[d].from = task[d].from
    BY <2>1, <2>2 DEF WaitsFor, Copying
  <2>9. Rendezvous'
    <3> SUFFICES ASSUME NEW d \in Clients PROVE Rendezvous!(d)'
      BY DEF Rendezvous
    <3>1. CASE d = c
      BY <3>1, <2>2, <2>3, <2>7, <2>8
    <3>2. CASE d # c
      BY <3>2, <1>i, <2>2, <2>3, <2>8 DEF Rendezvous
    <3> QED BY <3>1, <3>2
  <2> QED BY <2>4, <2>5, <2>6, <2>9 DEF Inv
<1>17. ASSUME NEW p \in Clients, DeliverUnlock(p)
      PROVE  Inv'
  <2> DEFINE c == task[p].c
  <2>2. /\ task[p].pc = "unlock" /\ c \in Clients
        /\ msg_mutex' = [msg_mutex EXCEPT ![c] = None]
        /\ send_lock' = send_lock /\ recv_lock' = recv_lock
    BY <1>17, <1>i DEF DeliverUnlock, Unlocked, Located
  <2>1. /\ task' \in [Clients -> TaskType]
        /\ task'[p].pc = "walk" /\ task'[p].topic = task[p].topic
        /\ \A q \in Clients : q # p => task'[q] = task[q]
    <3>1. task[p] \in TaskType /\ "walk" \in Pcs /\ NextClient(c) \in Clients \cup {None}
      BY <1>t, <2>2 DEF Pcs, NextClient
    <3> DEFINE r == [task[p] EXCEPT !.pc = "walk", !.c = NextClient(@)]
    <3>2. r \in TaskType /\ r.pc = "walk" /\ r.topic = task[p].topic
      BY <3>1 DEF TaskType
    <3>3. task' = [task EXCEPT ![p] = r]
      BY <1>17 DEF DeliverUnlock
    <3> HIDE DEF r
    <3> QED BY <1>t, <3>2, <3>3
  <2>3. TypeOK'
    BY <1>17, <1>i, <2>1, <2>2 DEF DeliverUnlock, TypeOK, TaskType, listVars
  <2>4. Located'
    BY <1>i, <2>1, <2>2 DEF Located, Publishing
  <2>5. MutexOwned'
    <3>1. msg_mutex \in [Clients -> Clients \cup {None}]
      BY <1>i DEF TypeOK
    <3> QED BY <1>i, <2>1, <2>2, <3>1 DEF MutexOwned, Delivering
  <2>6. /\ \A q, d \in Clients : WaitsFor(q, d)' <=> WaitsFor(q, d)
        /\ \A d \in Clients : Copying(d)' <=> Copying(d)
        /\ \A d \in Clients : Copying(d) => task'[d].from = task[d].from
    BY <2>1, <2>2 DEF WaitsFor, Copying
  <2>7. Rendezvous'
    BY <1>i, <2>2, <2>6 DEF Rendezvous
  <2> QED BY <2>3, <2>4, <2>5, <2>7 DEF Inv
<1>18. CASE UNCHANGED vars
  <2>1. TypeOK'
    BY <1>18, <1>i DEF vars, listVars, queueVars, TypeOK
  <2>2. Located' /\ MutexOwned'
    BY <1>18, <1>i DEF vars, queueVars, Located, MutexOwned, Publishing, Delivering
  <2>3. Rendezvous'
    BY <1>18, <1>i DEF vars, queueVars, Rendezvous, Copying, WaitsFor
  <2> QED BY <2>1, <2>2, <2>3 DEF Inv
<1> QED
  BY <1>1, <1>2, <1>3, <1>4, <1>5, <1>6, <1>7, <1>8, <1>9, <1>10, <1>11, <1>12, <1>13, <1>14,
     <1>15, <1>16, <1>17, <1>18 DEF Next, CallStep, Unsubscribe

LEMMA InvAlways == Spec => []Inv
  BY InvInit, InvNext, PTL DEF Spec

(***************************************************************************)
(* The variables keep their types; in particular what a receiver reads     *)
(* through the pointers is the topic of a publish under way, never that of *)
(* one that has returned.                                                  *)
(***************************************************************************)
THEOREM TypeCorrect == Spec => []TypeOK
<1>1. Inv => TypeOK
  BY DEF Inv
<1> QED BY <1>1, InvAlways, PTL

(***************************************************************************)
(* Receivers never read through a dangling pointer, however many tasks     *)
(* publish, close, resubscribe or open clients meanwhile.                  *)
(***************************************************************************)
THEOREM NoDanglingPointer == Spec => []PointersValid
<1>1. Inv => PointersValid
  <2> SUFFICES ASSUME Inv, NEW c \in Clients
               PROVE  /\ \A i \in DOMAIN send_lock[c] : WaitsFor(send_lock[c][i], c)
                      /\ Copying(c) => WaitsFor(task[c].from, c)
    BY DEF PointersValid
  <2>1. Copying(c) => WaitsFor(task[c].from, c)
    BY DEF Inv, Rendezvous
  <2>2. CASE send_lock[c] = <<>>
    BY <2>1, <2>2
  <2>3. CASE send_lock[c] # <<>>
    <3>1. PICK p \in Clients : send_lock[c] = <<p>> /\ WaitsFor(p, c)
      BY <2>3 DEF Inv, Rendezvous
    <3> QED BY <2>1, <3>1
  <2> QED BY <2>2, <2>3
<1> QED BY <1>1, InvAlways, PTL

(***************************************************************************)
(* A response in recv_lock always answers the delivery that waits for it,  *)
(* and recv_lock is empty whenever a receiver is about to respond: the     *)
(* response, sent without waiting, is never dropped.                       *)
(***************************************************************************)
THEOREM ResponsesAnswer == Spec => []ResponsesPair
<1>1. Inv => ResponsesPair
  BY DEF Inv, Rendezvous, ResponsesPair
<1> QED BY <1>1, InvAlways, PTL

-----------------------------------------------------------------------------
(* The list of clients                                                     *)

(* s is a path of k clients from x to c along nx.                          *)
Path(nx, k, s, x, c) ==
  /\ s \in [1 .. k -> Clients] /\ s[1] = x /\ s[k] = c
  /\ \A i \in 1 .. k - 1 : nx[s[i]] = s[i + 1]

Reach(nx, x) == {c \in Clients : \E k \in Nat \ {0} : \E s : Path(nx, k, s, x, c)}

Links == [Clients -> Clients \cup {None}]

LEMMA ListedReach == Listed \subseteq Reach(next, first_client)
<1> SUFFICES ASSUME NEW c \in Listed PROVE c \in Reach(next, first_client)
  OBVIOUS
<1>1. PICK k \in 1 .. Cardinality(Clients) : \E s \in [1 .. k -> Clients] :
        /\ s[1] = first_client /\ s[k] = c
        /\ \A i \in 1 .. k - 1 : next[s[i]] = s[i + 1]
  BY DEF Listed
<1>2. k \in Nat \ {0} /\ c \in Clients
  BY DEF Listed
<1> QED BY <1>1, <1>2, Zenon DEF Reach, Path

LEMMA ReachNone == ASSUME NEW nx PROVE Reach(nx, None) = {}
  BY RouterAssumption DEF Reach, Path

LEMMA ReachStep ==
  ASSUME NEW nx \in Links, NEW x \in Clients
  PROVE  Reach(nx, x) = {x} \cup Reach(nx, nx[x])
<1>1. ASSUME NEW c \in Reach(nx, x), c # x PROVE c \in Reach(nx, nx[x])
  <2>1. PICK k \in Nat \ {0} : \E s : Path(nx, k, s, x, c)
    BY DEF Reach
  <2>2. PICK s : Path(nx, k, s, x, c)
    BY <2>1
  <2>3. k - 1 \in Nat \ {0}
    BY <1>1, <2>2 DEF Path
  <2> DEFINE t == [i \in 1 .. k - 1 |-> s[i + 1]]
  <2>4. Path(nx, k - 1, t, nx[x], c)
    <3>1. t \in [1 .. k - 1 -> Clients] /\ t[1] = nx[x] /\ t[k - 1] = c
      BY <2>2, <2>3 DEF Path
    <3>2. ASSUME NEW i \in 1 .. (k - 1) - 1 PROVE nx[t[i]] = t[i + 1]
      <4>1. i + 1 \in 1 .. k - 1 /\ i \in 1 .. k - 1
        BY <2>3
      <4> QED BY <2>2, <4>1 DEF Path
    <3> QED BY <3>1, <3>2 DEF Path
  <2> QED BY <2>3, <2>4, Zenon DEF Reach
<1>2. x \in Reach(nx, x)
  <2>1. Path(nx, 1, [i \in 1 .. 1 |-> x], x, x)
    BY DEF Path
  <2> QED BY <2>1 DEF Reach
<1>3. ASSUME NEW c \in Reach(nx, nx[x]) PROVE c \in Reach(nx, x)
  <2>1. PICK k \in Nat \ {0} : \E s : Path(nx, k, s, nx[x], c)
    BY DEF Reach
  <2>2. PICK s : Path(nx, k, s, nx[x], c)
    BY <2>1
  <2> DEFINE t == [i \in 1 .. k + 1 |-> IF i = 1 THEN x ELSE s[i - 1]]
  <2>3. Path(nx, k + 1, t, x, c)
    <3>1. t \in [1 .. k + 1 -> Clients] /\ t[1] = x /\ t[k + 1] = c
      BY <2>2 DEF Path
    <3>2. ASSUME NEW i \in 1 .. (k + 1) - 1 PROVE nx[t[i]] = t[i + 1]
      <4>1. CASE i = 1
        BY <2>2, <4>1 DEF Path
      <4>2. CASE i # 1
        <5>1. i - 1 \in 1 .. k - 1 /\ i \in 1 .. k + 1 /\ i + 1 \in 1 .. k + 1
          BY <4>2
        <5> QED BY <2>2, <4>2, <5>1 DEF Path
      <4> QED BY <4>1, <4>2
    <3> QED BY <3>1, <3>2 DEF Path
  <2>4. k + 1 \in Nat \ {0}
    OBVIOUS
  <2>5. c \in Clients
    BY DEF Reach
  <2> QED BY <2>3, <2>4, <2>5, Zenon DEF Reach
<1> QED BY <1>1, <1>2, <1>3

(* Linking a client that nobody points to changes no other path.           *)
LEMMA ReachOther ==
  ASSUME NEW nx \in Links, NEW ny \in Links, NEW c \in Clients, NEW x, x # c,
         \A d \in Clients : nx[d] # c /\ ny[d] # c,
         \A d \in Clients : d # c => ny[d] = nx[d]
  PROVE  Reach(nx, x) \subseteq Reach(ny, x)
<1> SUFFICES ASSUME NEW d \in Reach(nx, x) PROVE d \in Reach(ny, x)
  OBVIOUS
<1>1. PICK k \in Nat \ {0} : \E s : Path(nx, k, s, x, d)
  BY DEF Reach
<1>2. PICK s : Path(nx, k, s, x, d)
  BY <1>1
<1>3. ASSUME NEW i \in 1 .. k PROVE s[i] # c
  <2>1. CASE i = 1
    BY <1>2, <2>1 DEF Path
  <2>2. CASE i # 1
    <3>1. i - 1 \in 1 .. k - 1 /\ i - 1 \in 1 .. k
      BY <2>2
    <3>2. nx[s[i - 1]] = s[i] /\ s[i - 1] \in Clients
      BY <1>2, <3>1 DEF Path
    <3> QED BY <3>2
  <2> QED BY <2>1, <2>2
<1>4. Path(ny, k, s, x, d)
  <2>1. ASSUME NEW i \in 1 .. k - 1 PROVE ny[s[i]] = s[i + 1]
    <3>1. i \in 1 .. k
      OBVIOUS
    <3> QED BY <1>2, <1>3, <3>1 DEF Path
  <2> QED BY <1>2, <2>1 DEF Path
<1> QED BY <1>4, Zenon DEF Reach

(* A client that nobody points to is on no path from another.              *)
LEMMA ReachUnlinked ==
  ASSUME NEW nx \in Links, NEW c \in Clients, NEW x, x # c, \A d \in Clients : nx[d] # c
  PROVE  c \notin Reach(nx, x)
<1> SUFFICES ASSUME c \in Reach(nx, x) PROVE FALSE
  OBVIOUS
<1>1. PICK k \in Nat \ {0} : \E s : Path(nx, k, s, x, c)
  BY DEF Reach
<1>2. PICK s : Path(nx, k, s, x, c)
  BY <1>1
<1>3. k # 1
  BY <1>2 DEF Path
<1>4. k - 1 \in 1 .. k - 1 /\ k - 1 \in 1 .. k
  BY <1>3
<1>5. nx[s[k - 1]] = s[k] /\ s[k - 1] \in Clients /\ s[k] = c
  BY <1>2, <1>4 DEF Path
<1> QED BY <1>5

-----------------------------------------------------------------------------
(* How far a publish has come                                              *)

Unopened(c) == task[c].pc \in {"new", "opening"}

(* Nobody can find a client before plog_router_open has published it.      *)
Unlinked ==
  \A c \in Clients : Unopened(c) =>
    first_client # c /\ \A d \in Clients : next[d] # c /\ task[d].c # c

Acyclic == \A c \in Clients : c \notin Reach(next, next[c])

(* The receiver has copied the message that p delivers.                    *)
Handed(p) ==
  \/ task[p].pc = "unlock"
  \/ task[p].pc = "wait" /\ (recv_lock[task[p].c] > 0 \/ task[task[p].c].pc = "respond")

(* Clients that may still get the message of p.                            *)
Pos(p) == IF Handed(p) THEN next[task[p].c] ELSE task[p].c
Ahead(p) == Reach(next, Pos(p))

Behind ==
  \A p, c \in Clients : \A i \in DOMAIN got[c] : got[c][i].from = p =>
    /\ got[c][i].msg <= task[p].msg
    /\ Publishing(p) /\ got[c][i].msg = task[p].msg => c \notin Ahead(p)

Debts ==
  \A p \in Clients :
    /\ ~Publishing(p) => owed[p] = {}
    /\ Publishing(p) =>
         /\ owed[p] \subseteq Ahead(p)
         /\ \A d \in owed[p] : plog_router_match_topic(topic_filter[d], task[p].topic)

Walks == Unlinked /\ Acyclic /\ Behind /\ Debts /\ InOrder

(* Only one task waits for a client.                                       *)
LEMMA WaitsAlone ==
  ASSUME Inv, NEW c \in Clients, NEW p \in Clients, NEW q \in Clients,
         WaitsFor(p, c), WaitsFor(q, c)
  PROVE  p = q
<1>1. msg_mutex[c] = p /\ msg_mutex[c] = q
  BY DEF Inv, MutexOwned, WaitsFor, Delivering
<1> QED BY <1>1

LEMMA GotType ==
  ASSUME Inv, NEW c \in Clients
  PROVE  \A i \in DOMAIN got[c] : got[c][i].from \in Clients /\ got[c][i].msg \in Nat
<1> DEFINE Msg == [from : Clients, msg : Nat, topic : Topics]
<1>1. got[c] \in Seq(Msg)
  BY DEF Inv, TypeOK
<1>2. \A e \in Msg : e.from \in Clients /\ e.msg \in Nat
  OBVIOUS
<1> HIDE DEF Msg
<1> QED BY <1>1, <1>2

(* A step that copies no message and brings no client back ahead.          *)
LEMMA NoCopy ==
  ASSUME Behind, Debts, InOrder, UNCHANGED got,
         \A p \in Clients :
           /\ task'[p].msg = task[p].msg
           /\ Publishing(p)' => /\ Publishing(p) /\ task'[p].topic = task[p].topic
                                /\ Ahead(p)' \subseteq Ahead(p) /\ owed'[p] \subseteq Ahead(p)'
           /\ ~Publishing(p)' => owed'[p] = {}
           /\ owed'[p] \subseteq owed[p]
           /\ \A d \in owed'[p] : topic_filter'[d] = topic_filter[d]
  PROVE  Behind' /\ Debts' /\ InOrder'
<1>1. Behind'
  BY DEF Behind
<1>2. Debts'
  <2> SUFFICES ASSUME NEW p \in Clients PROVE Debts!(p)'
    BY DEF Debts
  <2>1. ASSUME Publishing(p)', NEW d \in owed'[p]
        PROVE  plog_router_match_topic(topic_filter'[d], task'[p].topic)
    <3>1. plog_router_match_topic(topic_filter[d], task[p].topic)
      BY <2>1 DEF Debts
    <3> QED BY <2>1, <3>1
  <2> QED BY <2>1
<1>3. InOrder'
  BY DEF InOrder
<1> QED BY <1>1, <1>2, <1>3

(* A step that moves no publish.                                           *)
LEMMA NoMove ==
  ASSUME Behind, Debts, InOrder, UNCHANGED <<got, next>>,
         \A p \in Clients :
           /\ task'[p].msg = task[p].msg
           /\ Publishing(p)' <=> Publishing(p)
           /\ Publishing(p) => task'[p].topic = task[p].topic /\ Pos(p)' = Pos(p)
           /\ owed'[p] \subseteq owed[p]
           /\ \A d \in owed'[p] : topic_filter'[d] = topic_filter[d]
  PROVE  Behind' /\ Debts' /\ InOrder'
<1>1. \A p \in Clients : Publishing(p) => Ahead(p)' = Ahead(p)
  BY DEF Ahead
<1>2. \A p \in Clients :
        /\ ~Publishing(p) => owed[p] = {}
        /\ Publishing(p) => owed[p] \subseteq Ahead(p)
  BY DEF Debts
<1> QED BY <1>1, <1>2, NoCopy

(* What a step of t does to the positions, if it has no part in a          *)
(* rendezvous.                                                             *)
LEMMA SamePos ==
  ASSUME Inv, NEW t \in Clients, UNCHANGED <<next, recv_lock>>,
         \A q \in Clients : q # t => task'[q] = task[q],
         task[t].pc \notin {"wait", "unlock", "respond"},
         task'[t].pc \notin {"wait", "unlock", "respond"}
  PROVE  /\ \A p \in Clients \ {t} : Pos(p)' = Pos(p)
         /\ Pos(t) = task[t].c /\ Pos(t)' = task'[t].c
<1>1. Pos(t) = task[t].c /\ Pos(t)' = task'[t].c
  BY DEF Pos, Handed
<1>2. ASSUME NEW p \in Clients \ {t} PROVE Pos(p)' = Pos(p)
  <2>1. task'[p] = task[p]
    OBVIOUS
  <2>2. task[p].pc = "wait" => task[p].c \in Clients
    BY DEF Inv, Located
  <2>3. task[p].pc = "wait" =>
          (task'[task[p].c].pc = "respond" <=> task[task[p].c].pc = "respond")
    BY <2>2
  <2> QED BY <2>1, <2>3 DEF Pos, Handed
<1> QED BY <1>1, <1>2

(* The list and the positions in it, after a step that only moves t.       *)
LEMMA SameList ==
  ASSUME Inv, Walks, NEW t \in Clients, UNCHANGED <<first_client, next>>,
         \A q \in Clients : q # t => task'[q] = task[q],
         ~Unopened(t)',
         task'[t].c = task[t].c \/ \A d \in Clients : Unopened(d) => task'[t].c # d
  PROVE  Unlinked' /\ Acyclic'
<1>1. Acyclic'
  BY DEF Walks, Acyclic
<1>2. Unlinked'
  BY DEF Walks, Unlinked, Unopened
<1> QED BY <1>1, <1>2

(* A step of t outside of a rendezvous that moves no publish.              *)
LEMMA PlainStep ==
  ASSUME Inv, Walks, NEW t \in Clients, UNCHANGED <<first_client, next, recv_lock, got>>,
         \A q \in Clients : q # t => task'[q] = task[q],
         task[t].pc \notin {"wait", "unlock", "respond"},
         task'[t].pc \notin {"wait", "unlock", "respond", "new", "opening"},
         task'[t].c = task[t].c, task'[t].msg = task[t].msg, task'[t].topic = task[t].topic,
         Publishing(t)' <=> Publishing(t),
         \A p \in Clients :
           owed'[p] \subseteq owed[p] /\ \A d \in owed'[p] : topic_filter'[d] = topic_filter[d]
  PROVE  Walks'
<1>1. Unlinked' /\ Acyclic'
  BY SameList DEF Unopened
<1>2. \A p \in Clients : Pos(p)' = Pos(p)
  BY SamePos
<1>3. \A p \in Clients : Publishing(p)' <=> Publishing(p)
  BY DEF Publishing
<1>4. Behind' /\ Debts' /\ InOrder'
  BY <1>2, <1>3, NoMove DEF Walks
<1> QED BY <1>1, <1>4 DEF Walks

LEMMA WalksInit == Init => Walks
<1> SUFFICES ASSUME Init PROVE Walks
  OBVIOUS
<1> USE RouterAssumption
<1>1. \A c \in Clients : task[c].pc = "new" /\ task[c].c = None /\ next[c] = None
  BY DEF Init, Idle
<1>2. Unlinked
  BY <1>1 DEF Init, Unlinked
<1>3. Acyclic
  BY <1>1, ReachNone DEF Acyclic
<1>4. \A c \in Clients : DOMAIN got[c] = {} /\ owed[c] = {}
  BY DEF Init
<1>5. Behind /\ InOrder
  BY <1>4 DEF Behind, InOrder
<1>6. Debts
  BY <1>1, <1>4 DEF Debts, Publishing
<1> QED BY <1>2, <1>3, <1>5, <1>6 DEF Walks

LEMMA WalksOpenLink ==
  ASSUME Inv, Walks, NEW c \in Clients, OpenLink(c)
  PROVE  Walks'
<1> USE RouterAssumption
<1>t. /\ task \in [Clients -> TaskType] /\ next \in Links
      /\ first_client \in Clients \cup {None}
  BY DEF Inv, TypeOK, TaskType, Links
<1>1. /\ task'[c].pc = "opening" /\ task'[c].c = task[c].c /\ task'[c].msg = task[c].msg
      /\ \A q \in Clients : q # c => task'[q] = task[q]
  <2> "opening" \in Pcs  BY DEF Pcs
  <2> QED BY <1>t, PcStep DEF OpenLink
<1>2. /\ first_client # c /\ \A d \in Clients : next[d] # c /\ task[d].c # c
      /\ task[c].pc = "new"
  BY DEF OpenLink, Walks, Unlinked, Unopened
<1>3. /\ next' \in Links /\ next'[c] = first_client
      /\ \A d \in Clients : next'[d] # c /\ (d # c => next'[d] = next[d])
  BY <1>t, <1>2 DEF OpenLink, Links
<1>4. ASSUME NEW x, x # c PROVE Reach(next', x) = Reach(next, x)
  <2>1. Reach(next, x) \subseteq Reach(next', x)
    BY <1>t, <1>2, <1>3, <1>4, ReachOther
  <2>2. Reach(next', x) \subseteq Reach(next, x)
    BY <1>t, <1>2, <1>3, <1>4, ReachOther
  <2> HIDE DEF Reach
  <2> QED BY <2>1, <2>2
<1>5. Unlinked'
  <2>1. first_client' = first_client
    BY DEF OpenLink
  <2>2. \A d \in Clients : Unopened(d)' => Unopened(d)
    BY <1>1, <1>2 DEF Unopened
  <2>3. \A d \in Clients : task'[d].c = task[d].c /\ (next'[d] = next[d] \/ next'[d] = first_client)
    BY <1>1, <1>3
  <2> QED BY <2>1, <2>2, <2>3 DEF Walks, Unlinked
<1>6. Acyclic'
  <2> SUFFICES ASSUME NEW d \in Clients PROVE d \notin Reach(next', next'[d])
    BY DEF Acyclic
  <2>1. Reach(next', next'[d]) = Reach(next, next'[d])
    BY <1>3, <1>4
  <2>2. CASE d = c
    BY <1>t, <1>2, <1>3, <2>1, <2>2, ReachUnlinked
  <2>3. CASE d # c
    BY <1>3, <2>1, <2>3 DEF Walks, Acyclic
  <2> QED BY <2>2, <2>3
<1>7. /\ UNCHANGED <<recv_lock, got, owed, topic_filter>>
      /\ \A p \in Clients : Publishing(p)' <=> Publishing(p)
  BY <1>1, <1>2 DEF OpenLink, queueVars, Publishing
<1>8. ASSUME NEW p \in Clients, Publishing(p) PROVE Ahead(p)' = Ahead(p)
  <2>1. p # c /\ task'[p] = task[p]
    BY <1>1, <1>2, <1>8 DEF Publishing
  <2>2. task[p].pc \in {"wait", "unlock"} => task[p].c \in Clients
    BY DEF Inv, Located
  <2>3. Handed(p)' <=> Handed(p)
    BY <1>1, <1>2, <1>7, <2>1, <2>2 DEF Handed
  <2>4. Pos(p)' = Pos(p) /\ Pos(p) # c
    BY <1>2, <1>3, <2>1, <2>2, <2>3 DEF Pos, Handed
  <2> QED BY <1>4, <2>4 DEF Ahead
<1>9. \A p \in Clients : task'[p].msg = task[p].msg /\ (Publishing(p) => task'[p] = task[p])
  BY <1>1, <1>2 DEF Publishing
<1>10. \A p \in Clients :
        /\ ~Publishing(p) => owed[p] = {}
        /\ Publishing(p) => owed[p] \subseteq Ahead(p)
  BY DEF Walks, Debts
<1>11. Behind' /\ Debts' /\ InOrder'
  BY <1>7, <1>8, <1>9, <1>10, NoCopy DEF Walks
<1> QED BY <1>5, <1>6, <1>11 DEF Walks

LEMMA WalksOpenPublish ==
  ASSUME Inv, Walks, NEW c \in Clients, OpenPublish(c)
  PROVE  Walks'
<1>t. task \in [Clients -> TaskType] /\ owed \in [Clients -> SUBSET Clients]
  BY DEF Inv, TypeOK, TaskType
<1>1. /\ task'[c].pc = "idle" /\ task'[c].c = task[c].c /\ task'[c].msg = task[c].msg
      /\ task'[c].topic = task[c].topic
      /\ \A q \in Clients : q # c => task'[q] = task[q]
  <2> "idle" \in Pcs  BY DEF Pcs
  <2> QED BY <1>t, PcStep DEF OpenPublish
<1>2. /\ UNCHANGED <<next, recv_lock, got, topic_filter>> /\ first_client' = c
      /\ task[c].pc = "opening"
      /\ \A p \in Clients : owed'[p] \subseteq owed[p]
  BY DEF OpenPublish, queueVars
<1>3. Unlinked'
  BY <1>1, <1>2 DEF Walks, Unlinked, Unopened
<1>4. Acyclic'
  BY <1>2 DEF Walks, Acyclic
<1>5. \A p \in Clients : Pos(p)' = Pos(p)
  BY <1>1, <1>2, SamePos
<1>6. \A p \in Clients : Publishing(p)' <=> Publishing(p)
  BY <1>1, <1>2 DEF Publishing
<1>7. Behind' /\ Debts' /\ InOrder'
  BY <1>1, <1>2, <1>5, <1>6, NoMove DEF Walks
<1> QED BY <1>3, <1>4, <1>7 DEF Walks

(* The steps of a call that copies no message and is not a delivery.       *)
LEMMA WalksCall ==
  ASSUME Inv, Walks, NEW c \in Clients,
         \/ Close(c) \/ ReceiveCall(c) \/ ReceiveTimeout(c) \/ ReceiveMsg(c) \/ CopyTopic(c)
         \/ DeliverLock(c)
  PROVE  Walks'
<1>t. task \in [Clients -> TaskType] /\ owed \in [Clients -> SUBSET Clients]
  BY DEF Inv, TypeOK, TaskType
<1>a. /\ UNCHANGED <<first_client, next, recv_lock, got>>
      /\ \A p \in Clients : owed'[p] \subseteq owed[p]
      /\ \A p \in Clients : \A d \in owed'[p] : topic_filter'[d] = topic_filter[d]
  <2>1. CASE Close(c)
    <3>1. topic_filter \in [Clients -> Filters \cup {NoFilter}]
      BY DEF Inv, TypeOK
    <3> QED BY <1>t, <2>1, <3>1 DEF Close, SetFilter, listVars, queueVars
  <2>2. CASE ReceiveCall(c) \/ ReceiveTimeout(c) \/ ReceiveMsg(c) \/ CopyTopic(c) \/ DeliverLock(c)
    BY <2>2 DEF ReceiveCall, ReceiveTimeout, ReceiveMsg, CopyTopic, DeliverLock, listVars, queueVars
  <2> QED BY <2>1, <2>2
<1>b. /\ \A q \in Clients : q # c => task'[q] = task[q]
      /\ task[c].pc \notin {"wait", "unlock", "respond"}
      /\ task'[c].pc \notin {"wait", "unlock", "respond", "new", "opening"}
      /\ task'[c].c = task[c].c /\ task'[c].msg = task[c].msg /\ task'[c].topic = task[c].topic
      /\ Publishing(c)' <=> Publishing(c)
  <2>0. task[c] \in TaskType
    BY <1>t
  <2>1. CASE Close(c)
    BY <1>t, <2>0, <2>1 DEF Close, Publishing, TaskType
  <2>2. CASE ReceiveCall(c)
    BY <1>t, <2>0, <2>2 DEF ReceiveCall, Publishing, TaskType
  <2>3. CASE ReceiveTimeout(c)
    BY <1>t, <2>0, <2>3 DEF ReceiveTimeout, Publishing, TaskType
  <2>4. CASE ReceiveMsg(c)
    <3> DEFINE r == [task[c] EXCEPT !.pc = "copy", !.from = Head(send_lock[c])]
    <3>1. task' = [task EXCEPT ![c] = r] /\ task[c].pc = "receive"
      BY <2>4 DEF ReceiveMsg
    <3>2. /\ r.pc = "copy" /\ r.c = task[c].c /\ r.msg = task[c].msg
          /\ r.topic = task[c].topic
      BY <2>0 DEF TaskType
    <3> HIDE DEF r
    <3> QED BY <1>t, <3>1, <3>2 DEF Publishing
  <2>5. CASE CopyTopic(c)
    <3> DEFINE r == [task[c] EXCEPT !.pc = "append", !.read = task[task[c].from].topic]
    <3>1. task' = [task EXCEPT ![c] = r] /\ task[c].pc = "copy"
      BY <2>5 DEF CopyTopic
    <3>2. /\ r.pc = "append" /\ r.c = task[c].c /\ r.msg = task[c].msg
          /\ r.topic = task[c].topic
      BY <2>0 DEF TaskType
    <3> HIDE DEF r
    <3> QED BY <1>t, <3>1, <3>2 DEF Publishing
  <2>6. CASE DeliverLock(c)
    BY <1>t, <2>0, <2>6 DEF DeliverLock, Publishing, TaskType
  <2> QED BY <2>1, <2>2, <2>3, <2>4, <2>5, <2>6
<1> QED BY <1>a, <1>b, PlainStep

LEMMA WalksSubscribe ==
  ASSUME Inv, Walks, NEW c \in Clients, NEW f, Subscribe(c, f)
  PROVE  Walks'
<1>1. /\ UNCHANGED <<first_client, next, recv_lock, got, task>>
      /\ \A p \in Clients : owed'[p] \subseteq owed[p]
      /\ \A p \in Clients : \A d \in owed'[p] : topic_filter'[d] = topic_filter[d]
  BY DEF Inv, TypeOK, Subscribe, SetFilter, listVars, queueVars
<1>2. Unlinked' /\ Acyclic'
  BY <1>1 DEF Walks, Unlinked, Unopened, Acyclic
<1>3. \A p \in Clients : Pos(p)' = Pos(p) /\ (Publishing(p)' <=> Publishing(p))
  BY <1>1 DEF Pos, Handed, Publishing
<1>4. Behind' /\ Debts' /\ InOrder'
  BY <1>1, <1>3, NoMove DEF Walks
<1> QED BY <1>2, <1>4 DEF Walks

LEMMA WalksPublish ==
  ASSUME Inv, Walks, NEW p \in Clients, NEW t \in Topics, Publish(p, t)
  PROVE  Walks'
<1>t. /\ task \in [Clients -> TaskType] /\ owed \in [Clients -> SUBSET Clients]
      /\ task[p] \in TaskType /\ task[p].msg \in Nat
  BY DEF Inv, TypeOK, TaskType
<1>1. /\ task'[p].pc = "walk" /\ task'[p].c = first_client /\ task'[p].msg = task[p].msg + 1
      /\ task'[p].topic = t
      /\ \A q \in Clients : q # p => task'[q] = task[q]
  <2> DEFINE r == [task[p] EXCEPT !.pc = "walk", !.msg = @ + 1, !.topic = t, !.c = first_client]
  <2>1. task' = [task EXCEPT ![p] = r]
    BY DEF Publish
  <2>2. r.pc = "walk" /\ r.c = first_client /\ r.msg = task[p].msg + 1 /\ r.topic = t
    BY <1>t DEF TaskType
  <2> HIDE DEF r
  <2> QED BY <1>t, <2>1, <2>2
<1>2. /\ UNCHANGED <<first_client, next, recv_lock, got, topic_filter>> /\ task[p].pc = "idle"
      /\ owed'[p] = {c \in Listed : plog_router_match_topic(topic_filter[c], t)}
      /\ \A q \in Clients : q # p => owed'[q] = owed[q]
  BY <1>t DEF Publish, listVars, queueVars
<1>3. Unlinked' /\ Acyclic'
  <2>1. ~Unopened(p)' /\ \A d \in Clients : Unopened(d) => task'[p].c # d
    BY <1>1 DEF Walks, Unlinked, Unopened
  <2> QED BY <1>1, <1>2, <2>1, SameList
<1>4. \A q \in Clients \ {p} : Ahead(q)' = Ahead(q) /\ (Publishing(q)' <=> Publishing(q))
  <2>1. \A q \in Clients \ {p} : Pos(q)' = Pos(q)
    BY <1>1, <1>2, SamePos
  <2> QED BY <1>1, <1>2, <2>1 DEF Ahead, Publishing
<1>5. Ahead(p)' = Reach(next, first_client) /\ Publishing(p)' /\ ~Publishing(p)
  BY <1>1, <1>2 DEF Ahead, Pos, Handed, Publishing
<1>6. Behind'
  <2> SUFFICES ASSUME NEW q \in Clients, NEW c \in Clients, NEW i \in DOMAIN got[c],
                      got[c][i].from = q
               PROVE  /\ got[c][i].msg <= task'[q].msg
                      /\ Publishing(q)' /\ got[c][i].msg = task'[q].msg => c \notin Ahead(q)'
    BY <1>2 DEF Behind
  <2>1. /\ got[c][i].msg <= task[q].msg
        /\ Publishing(q) /\ got[c][i].msg = task[q].msg => c \notin Ahead(q)
    BY DEF Walks, Behind
  <2>2. CASE q = p
    BY <1>t, <1>1, <2>1, <2>2, GotType
  <2>3. CASE q # p
    BY <1>1, <1>4, <2>1, <2>3
  <2> QED BY <2>2, <2>3
<1>7. Debts'
  <2> SUFFICES ASSUME NEW q \in Clients PROVE Debts!(q)'
    BY DEF Debts
  <2>1. CASE q = p
    <3>1. owed'[p] \subseteq Reach(next, first_client)
      BY <1>2, ListedReach
    <3>2. \A d \in owed'[p] : plog_router_match_topic(topic_filter'[d], task'[p].topic)
      BY <1>1, <1>2
    <3> QED BY <1>5, <2>1, <3>1, <3>2
  <2>2. CASE q # p
    BY <1>1, <1>2, <1>4, <2>2 DEF Walks, Debts
  <2> QED BY <2>1, <2>2
<1>8. InOrder'
  BY <1>2 DEF Walks, InOrder
<1> QED BY <1>3, <1>6, <1>7, <1>8 DEF Walks

LEMMA WalksWalk ==
  ASSUME Inv, Walks, NEW p \in Clients, Walk(p)
  PROVE  Walks'
<1>t. /\ task \in [Clients -> TaskType] /\ next \in Links
      /\ task[p] \in TaskType /\ task[p].c \in Clients
  BY DEF Inv, TypeOK, TaskType, Links, Walk
<1> DEFINE c == task[p].c
<1>1. /\ UNCHANGED <<first_client, next, recv_lock, got, topic_filter, owed>>
      /\ task[p].pc = "walk"
  BY DEF Walk, listVars, queueVars
<1>2. CASE task' = [task EXCEPT ![p].pc = "lock"]
  BY <1>t, <1>1, <1>2, PlainStep DEF Publishing, TaskType
<1>3. ASSUME task' = [task EXCEPT ![p].c = NextClient(@)],
             ~plog_router_match_topic(topic_filter[c], task[p].topic)
      PROVE  Walks'
  <2>1. /\ task'[p].pc = "walk" /\ task'[p].c = next[c] /\ task'[p].msg = task[p].msg
        /\ task'[p].topic = task[p].topic
        /\ \A q \in Clients : q # p => task'[q] = task[q]
    BY <1>t, <1>1, <1>3 DEF NextClient, TaskType
  <2>2. Unlinked' /\ Acyclic'
    <3>1. ~Unopened(p)' /\ \A d \in Clients : Unopened(d) => task'[p].c # d
      BY <1>t, <2>1 DEF Walks, Unlinked, Unopened
    <3> QED BY <1>1, <2>1, <3>1, SameList
  <2>3. /\ \A q \in Clients \ {p} : Pos(q)' = Pos(q)
        /\ Pos(p) = c /\ Pos(p)' = next[c]
    BY <1>1, <2>1, SamePos
  <2>4. Ahead(p) = {c} \cup Ahead(p)'
    BY <1>t, <1>1, <2>3, ReachStep DEF Ahead
  <2>5. \A q \in Clients \ {p} : Ahead(q)' = Ahead(q)
    BY <1>1, <2>3 DEF Ahead
  <2>6. \A q \in Clients : Publishing(q)' <=> Publishing(q)
    BY <1>1, <2>1 DEF Publishing
  <2>7. \A q \in Clients :
          /\ ~Publishing(q) => owed[q] = {}
          /\ Publishing(q) => owed[q] \subseteq Ahead(q)'
    <3>1. c \notin owed[p] /\ owed[p] \subseteq Ahead(p)
      BY <1>1, <1>3 DEF Walks, Debts, Publishing
    <3> QED BY <2>4, <2>5, <3>1 DEF Walks, Debts
  <2>8. \A q \in Clients : Ahead(q)' \subseteq Ahead(q)
    BY <2>4, <2>5
  <2>9. \A q \in Clients : task'[q].msg = task[q].msg /\ task'[q].topic = task[q].topic
    BY <2>1
  <2>10. Behind' /\ Debts' /\ InOrder'
    BY <1>1, <2>6, <2>7, <2>8, <2>9, NoCopy DEF Walks
  <2> QED BY <2>2, <2>10 DEF Walks
<1> QED BY <1>2, <1>3 DEF Walk

LEMMA WalksReturn ==
  ASSUME Inv, Walks, NEW p \in Clients, PublishReturn(p)
  PROVE  Walks'
<1>t. task \in [Clients -> TaskType] /\ task[p] \in TaskType
  BY DEF Inv, TypeOK, TaskType
<1>1. /\ UNCHANGED <<first_client, next, recv_lock, got, topic_filter, owed>>
      /\ task[p].pc = "walk" /\ task[p].c = None
  BY DEF PublishReturn, listVars, queueVars
<1>2. /\ task'[p].pc = "idle" /\ task'[p].c = task[p].c /\ task'[p].msg = task[p].msg
      /\ \A q \in Clients : q # p => task'[q] = task[q]
  <2> DEFINE r == [task[p] EXCEPT !.pc = "idle", !.topic = None]
  <2>1. task' = [task EXCEPT ![p] = r]
    BY DEF PublishReturn
  <2>2. r.pc = "idle" /\ r.c = task[p].c /\ r.msg = task[p].msg
    BY <1>t DEF TaskType
  <2> HIDE DEF r
  <2> QED BY <1>t, <2>1, <2>2
<1>3. Unlinked' /\ Acyclic'
  BY <1>1, <1>2, SameList DEF Unopened
<1>4. \A q \in Clients : Ahead(q)' = Ahead(q)
  BY <1>1, <1>2, SamePos DEF Ahead
<1>5. owed[p] = {}
  <2>1. Ahead(p) = {}
    BY <1>1, ReachNone DEF Ahead, Pos, Handed
  <2> QED BY <1>1, <2>1 DEF Walks, Debts, Publishing
<1>6. /\ ~Publishing(p)'
      /\ \A q \in Clients \ {p} : (Publishing(q)' <=> Publishing(q)) /\ task'[q] = task[q]
  BY <1>2 DEF Publishing
<1>7. \A q \in Clients :
        /\ ~Publishing(q) => owed[q] = {}
        /\ Publishing(q) => owed[q] \subseteq Ahead(q)
  BY DEF Walks, Debts
<1>8. Behind' /\ Debts' /\ InOrder'
  BY <1>1, <1>2, <1>4, <1>5, <1>6, <1>7, NoCopy DEF Walks
<1> QED BY <1>3, <1>8 DEF Walks

(* The steps of a delivery after its lock, and the response: the publisher *)
(* stays where it is.                                                      *)
LEMMA WalksDeliver ==
  ASSUME Inv, Walks, NEW t \in Clients, UNCHANGED <<first_client, next, got, topic_filter, owed>>,
         \A q \in Clients : q # t => task'[q] = task[q],
         task'[t].pc \notin {"new", "opening"},
         task'[t].c = task[t].c \/ \A d \in Clients : Unopened(d) => task'[t].c # d,
         task'[t].msg = task[t].msg, Publishing(t) => task'[t].topic = task[t].topic,
         Publishing(t)' <=> Publishing(t),
         \A p \in Clients : Publishing(p) => Pos(p)' = Pos(p)
  PROVE  Walks'
<1>1. Unlinked' /\ Acyclic'
  BY SameList DEF Unopened
<1>2. \A p \in Clients : Publishing(p)' <=> Publishing(p)
  BY DEF Publishing
<1>3. Behind' /\ Debts' /\ InOrder'
  BY <1>2, NoMove DEF Walks
<1> QED BY <1>1, <1>3 DEF Walks

LEMMA WalksSend ==
  ASSUME Inv, Walks, NEW p \in Clients, DeliverSend(p)
  PROVE  Walks'
<1>t. task \in [Clients -> TaskType] /\ recv_lock \in [Clients -> 0 .. 1]
  BY DEF Inv, TypeOK, TaskType
<1> DEFINE c == task[p].c
<1>1. /\ task'[p].pc = "wait" /\ task'[p].c = task[p].c /\ task'[p].msg = task[p].msg
      /\ task'[p].topic = task[p].topic
      /\ \A q \in Clients : q # p => task'[q] = task[q]
  <2> "wait" \in Pcs  BY DEF Pcs
  <2> QED BY <1>t, PcStep DEF DeliverSend, AfterSend
<1>2. /\ UNCHANGED <<first_client, next, recv_lock, got, topic_filter, owed>>
      /\ task[p].pc = "send" /\ c \in Clients /\ send_lock[c] = <<>>
  BY DEF DeliverSend, listVars, Inv, Located
<1>3. ASSUME NEW q \in Clients, WaitsFor(q, c) PROVE FALSE
  <2>1. msg_mutex[c] = p /\ msg_mutex[c] = q
    BY <1>2, <1>3 DEF Inv, MutexOwned, Delivering, WaitsFor
  <2> QED BY <1>2, <1>3, <2>1 DEF WaitsFor
<1>4. ~(recv_lock[c] > 0) /\ task[c].pc # "respond"
  BY <1>2, <1>3 DEF Inv, Rendezvous, Copying
<1>5. ASSUME NEW q \in Clients PROVE Handed(q)' <=> Handed(q)
  <2>1. CASE q = p
    BY <1>1, <1>2, <1>4, <2>1 DEF Handed
  <2>2. CASE q # p
    <3>1. task[q].pc = "wait" => task[q].c \in Clients
      BY DEF Inv, Located
    <3>2. task[q].pc = "wait" =>
            (task'[task[q].c].pc = "respond" <=> task[task[q].c].pc = "respond")
      BY <1>1, <1>2, <3>1
    <3> QED BY <1>1, <1>2, <2>2, <3>2 DEF Handed
  <2> QED BY <2>1, <2>2
<1>6. \A q \in Clients : Pos(q)' = Pos(q)
  BY <1>1, <1>2, <1>5 DEF Pos
<1> QED BY <1>1, <1>2, <1>6, WalksDeliver DEF Publishing

LEMMA WalksWait ==
  ASSUME Inv, Walks, NEW p \in Clients, DeliverWait(p)
  PROVE  Walks'
<1>t. task \in [Clients -> TaskType] /\ recv_lock \in [Clients -> 0 .. 1]
  BY DEF Inv, TypeOK, TaskType
<1> DEFINE c == task[p].c
<1>1. /\ task'[p].pc = "unlock" /\ task'[p].c = task[p].c /\ task'[p].msg = task[p].msg
      /\ task'[p].topic = task[p].topic
      /\ \A q \in Clients : q # p => task'[q] = task[q]
  <2> "unlock" \in Pcs  BY DEF Pcs
  <2> QED BY <1>t, PcStep DEF DeliverWait
<1>2. /\ UNCHANGED <<first_client, next, got, topic_filter, owed>>
      /\ task[p].pc = "wait" /\ c \in Clients /\ recv_lock[c] > 0
      /\ \A d \in Clients : d # c => recv_lock'[d] = recv_lock[d]
  BY <1>t DEF DeliverWait, listVars, Inv, Located
<1>5. ASSUME NEW q \in Clients PROVE Handed(q)' <=> Handed(q)
  <2>1. CASE q = p
    BY <1>1, <1>2, <2>1 DEF Handed
  <2>2. CASE q # p
    <3>1. task[q].pc = "wait" => task[q].c \in Clients /\ task[q].c # c
      BY <1>2, <2>2, WaitsAlone DEF Inv, Located, WaitsFor
    <3>2. task[q].pc = "wait" =>
            (task'[task[q].c].pc = "respond" <=> task[task[q].c].pc = "respond")
      BY <1>1, <1>2, <3>1
    <3> QED BY <1>1, <1>2, <2>2, <3>1, <3>2 DEF Handed
  <2> QED BY <2>1, <2>2
<1>6. \A q \in Clients : Pos(q)' = Pos(q)
  BY <1>1, <1>2, <1>5 DEF Pos
<1> QED BY <1>1, <1>2, <1>6, WalksDeliver DEF Publishing

LEMMA WalksUnlock ==
  ASSUME Inv, Walks, NEW p \in Clients, DeliverUnlock(p)
  PROVE  Walks'
<1>t. task \in [Clients -> TaskType] /\ task[p] \in TaskType /\ next \in Links
  BY DEF Inv, TypeOK, TaskType, Links
<1>1. /\ task'[p].pc = "walk" /\ task'[p].c = next[task[p].c] /\ task'[p].msg = task[p].msg
      /\ task'[p].topic = task[p].topic
      /\ \A q \in Clients : q # p => task'[q] = task[q]
  <2> DEFINE r == [task[p] EXCEPT !.pc = "walk", !.c = NextClient(@)]
  <2>1. task' = [task EXCEPT ![p] = r]
    BY DEF DeliverUnlock
  <2>2. /\ r.pc = "walk" /\ r.c = next[task[p].c] /\ r.msg = task[p].msg
        /\ r.topic = task[p].topic
    BY <1>t DEF TaskType, NextClient
  <2> HIDE DEF r
  <2> QED BY <1>t, <2>1, <2>2
<1>2. /\ UNCHANGED <<first_client, next, recv_lock, got, topic_filter, owed>>
      /\ task[p].pc = "unlock" /\ task[p].c \in Clients
  BY DEF DeliverUnlock, listVars, Inv, Located
<1>3. \A d \in Clients : Unopened(d) => task'[p].c # d
  BY <1>1, <1>2 DEF Walks, Unlinked
<1>4. ASSUME NEW q \in Clients PROVE Pos(q)' = Pos(q)
  <2>1. CASE q = p
    BY <1>1, <1>2, <2>1 DEF Pos, Handed
  <2>2. CASE q # p
    <3>1. task[q].pc = "wait" => task[q].c \in Clients
      BY DEF Inv, Located
    <3>2. task[q].pc = "wait" =>
            (task'[task[q].c].pc = "respond" <=> task[task[q].c].pc = "respond")
      BY <1>1, <1>2, <3>1
    <3> QED BY <1>1, <1>2, <2>2, <3>2 DEF Pos, Handed
  <2> QED BY <2>1, <2>2
<1> QED BY <1>1, <1>2, <1>3, <1>4, WalksDeliver DEF Publishing

LEMMA WalksRespond ==
  ASSUME Inv, Walks, NEW c \in Clients, Respond(c)
  PROVE  Walks'
<1>t. /\ task \in [Clients -> TaskType] /\ task[c] \in TaskType
      /\ recv_lock \in [Clients -> 0 .. 1]
  BY DEF Inv, TypeOK, TaskType
<1>1. /\ task'[c].pc = "idle" /\ task'[c].c = task[c].c /\ task'[c].msg = task[c].msg
      /\ \A q \in Clients : q # c => task'[q] = task[q]
  <2> DEFINE r == [task[c] EXCEPT !.pc = "idle", !.from = None, !.read = None]
  <2>1. task' = [task EXCEPT ![c] = r]
    BY DEF Respond
  <2>2. r.pc = "idle" /\ r.c = task[c].c /\ r.msg = task[c].msg
    BY <1>t DEF TaskType
  <2> HIDE DEF r
  <2> QED BY <1>t, <2>1, <2>2
<1>2. /\ UNCHANGED <<first_client, next, got, topic_filter, owed>>
      /\ task[c].pc = "respond" /\ recv_lock'[c] = 1
      /\ \A d \in Clients : d # c => recv_lock'[d] = recv_lock[d]
  BY <1>t DEF Respond, Response, listVars
<1>3. ASSUME NEW q \in Clients PROVE Handed(q)' <=> Handed(q)
  <2>1. CASE q = c
    BY <1>1, <1>2, <2>1 DEF Handed
  <2>2. CASE q # c
    <3>1. task[q].pc = "wait" => task[q].c \in Clients
      BY DEF Inv, Located
    <3>2. CASE task[q].c = c
      BY <1>1, <1>2, <2>2, <3>2 DEF Handed
    <3>3. CASE task[q].c # c
      BY <1>1, <1>2, <2>2, <3>1, <3>3 DEF Handed
    <3> QED BY <3>2, <3>3
  <2> QED BY <2>1, <2>2
<1>4. \A q \in Clients : Pos(q)' = Pos(q)
  BY <1>1, <1>2, <1>3 DEF Pos
<1> QED BY <1>1, <1>2, <1>4, WalksDeliver DEF Publishing

(* The receiver copies: the publisher is still at this client, so that the *)
(* message is new to it, and leaves it behind.                             *)
LEMMA WalksCopy ==
  ASSUME Inv, Walks, NEW c \in Clients, CopyArray(c)
  PROVE  Walks'
<1>t. /\ task \in [Clients -> TaskType] /\ owed \in [Clients -> SUBSET Clients]
      /\ next \in Links
  BY DEF Inv, TypeOK, TaskType, Links
<1>p. PICK p \in Clients : p = task[c].from /\ WaitsFor(p, c) /\ recv_lock[c] = 0 /\ p # c
  BY DEF Inv, Rendezvous, CopyArray, Copying, WaitsFor
<1> DEFINE e == [from |-> p, msg |-> task[p].msg, topic |-> task[c].read]
<1>1. /\ task'[c].pc = "respond" /\ task'[c].c = task[c].c /\ task'[c].msg = task[c].msg
      /\ task'[c].topic = task[c].topic
      /\ \A q \in Clients : q # c => task'[q] = task[q]
  <2> "respond" \in Pcs  BY DEF Pcs
  <2> QED BY <1>t, PcStep DEF CopyArray
<1>2. /\ UNCHANGED <<first_client, next, recv_lock, topic_filter>> /\ task[c].pc = "append"
      /\ owed'[p] = owed[p] \ {c}
      /\ \A q \in Clients : q # p => owed'[q] = owed[q]
  BY <1>t, <1>p DEF CopyArray, listVars, queueVars
<1>3. Unlinked' /\ Acyclic'
  BY <1>1, <1>2, SameList DEF Unopened
<1>4. Ahead(p) = {c} \cup Ahead(p)' /\ c \notin Ahead(p)'
  <2>1. Pos(p) = c /\ Pos(p)' = next[c]
    BY <1>p, <1>1, <1>2 DEF Pos, Handed, WaitsFor
  <2> QED BY <1>t, <1>2, <2>1, ReachStep DEF Ahead, Walks, Acyclic
<1>5. ASSUME NEW q \in Clients, q # p PROVE Ahead(q)' = Ahead(q)
  <2>1. task[q].pc = "wait" => task[q].c \in Clients /\ task[q].c # c
    BY <1>p, <1>5, WaitsAlone DEF Inv, Located, WaitsFor
  <2>2. task[q].pc = "wait" => task'[task[q].c] = task[task[q].c]
    BY <1>1, <2>1
  <2>3. task'[q].c = task[q].c
    BY <1>1
  <2>4. Handed(q)' <=> Handed(q)
    BY <1>1, <1>2, <2>2, <2>3 DEF Handed
  <2>5. Pos(q)' = Pos(q)
    BY <1>2, <2>3, <2>4 DEF Pos
  <2> QED BY <1>2, <2>5 DEF Ahead
<1>6. \A q \in Clients : /\ Publishing(q)' <=> Publishing(q)
                         /\ task'[q].msg = task[q].msg /\ task'[q].topic = task[q].topic
  BY <1>1, <1>2 DEF Publishing
<1>7. /\ Publishing(p) /\ task[p].msg \in Nat
  BY <1>t, <1>p DEF Publishing, WaitsFor, TaskType
<1>g. /\ \A d \in Clients : d # c => got'[d] = got[d]
      /\ DOMAIN got[c] = 1 .. Len(got[c]) /\ Len(got[c]) \in Nat
      /\ DOMAIN got'[c] = 1 .. Len(got[c]) + 1
      /\ \A i \in 1 .. Len(got[c]) : got'[c][i] = got[c][i]
      /\ got'[c][Len(got[c]) + 1] = e
  <2> DEFINE Msg == [from : Clients, msg : Nat, topic : Topics]
  <2>1. got \in [Clients -> Seq(Msg)]
    BY DEF Inv, TypeOK
  <2>2. e \in Msg
    BY <1>p, <1>7 DEF Inv, Located, CopyArray
  <2>3. got' = [got EXCEPT ![c] = Append(@, e)]
    BY <1>p DEF CopyArray
  <2> HIDE DEF Msg, e
  <2> QED BY <2>1, <2>2, <2>3
<1>8. \A i \in 1 .. Len(got[c]) : got[c][i].from = p => got[c][i].msg < task[p].msg
  <2> SUFFICES ASSUME NEW i \in DOMAIN got[c], got[c][i].from = p
               PROVE  got[c][i].msg < task[p].msg
    BY <1>g
  <2>1. got[c][i].msg <= task[p].msg /\ got[c][i].msg # task[p].msg
    BY <1>p, <1>4, <1>7 DEF Walks, Behind
  <2> QED BY <1>7, <2>1, GotType
<1>9. Behind'
  <2> SUFFICES ASSUME NEW q \in Clients, NEW d \in Clients, NEW i \in DOMAIN got'[d],
                      got'[d][i].from = q
               PROVE  /\ got'[d][i].msg <= task[q].msg
                      /\ Publishing(q) /\ got'[d][i].msg = task[q].msg => d \notin Ahead(q)'
    BY <1>6 DEF Behind
  <2>1. CASE d = c /\ i = Len(got[c]) + 1
    <3>1. got'[d][i] = e
      BY <1>g, <2>1
    <3>2. q = p /\ got'[d][i].msg = task[p].msg
      BY <3>1
    <3> QED BY <1>4, <1>7, <2>1, <3>2
  <2>2. CASE ~(d = c /\ i = Len(got[c]) + 1)
    <3>1. i \in DOMAIN got[d] /\ got'[d][i] = got[d][i]
      BY <1>g, <2>2
    <3>2. /\ got[d][i].msg <= task[q].msg
          /\ Publishing(q) /\ got[d][i].msg = task[q].msg => d \notin Ahead(q)
      BY <3>1 DEF Walks, Behind
    <3> QED BY <1>4, <1>5, <3>1, <3>2
  <2> QED BY <2>1, <2>2
<1>10. Debts'
  <2> SUFFICES ASSUME NEW q \in Clients PROVE Debts!(q)'
    BY DEF Debts
  <2>1. CASE q = p
    BY <1>2, <1>4, <1>6, <2>1 DEF Walks, Debts
  <2>2. CASE q # p
    BY <1>2, <1>5, <1>6, <2>2 DEF Walks, Debts
  <2> QED BY <2>1, <2>2
<1>11. InOrder'
  <2> SUFFICES ASSUME NEW d \in Clients, NEW i \in DOMAIN got'[d], NEW j \in DOMAIN got'[d],
                      i < j, got'[d][i].from = got'[d][j].from
               PROVE  got'[d][i].msg < got'[d][j].msg
    BY DEF InOrder
  <2>1. CASE d = c /\ j = Len(got[c]) + 1
    <3>1. i \in 1 .. Len(got[c]) /\ got'[d][i] = got[c][i] /\ got'[d][j] = e
      BY <1>g, <2>1
    <3>2. got[c][i].from = p /\ got'[d][j].msg = task[p].msg
      BY <3>1
    <3> QED BY <1>8, <3>1, <3>2
  <2>2. CASE ~(d = c /\ j = Len(got[c]) + 1)
    <3>1. /\ i \in DOMAIN got[d] /\ got'[d][i] = got[d][i]
          /\ j \in DOMAIN got[d] /\ got'[d][j] = got[d][j]
      BY <1>g, <2>2
    <3> QED BY <3>1 DEF Walks, InOrder
  <2> QED BY <2>1, <2>2
<1> QED BY <1>3, <1>9, <1>10, <1>11 DEF Walks

LEMMA WalksNext == Inv /\ Walks /\ [Next]_vars => Walks'
<1> SUFFICES ASSUME Inv, Walks, [Next]_vars PROVE Walks'
  OBVIOUS
<1>1. ASSUME NEW c \in Clients, CallStep(c) PROVE Walks'
  BY <1>1, WalksOpenPublish, WalksCall, WalksCopy, WalksRespond, WalksWalk, WalksReturn,
     WalksSend, WalksWait, WalksUnlock DEF CallStep
<1>2. ASSUME NEW c \in Clients, Unsubscribe(c) \/ \E f \in Filters : Subscribe(c, f)
      PROVE  Walks'
  BY <1>2, WalksSubscribe DEF Unsubscribe
<1>3. CASE UNCHANGED vars
  <2>1. UNCHANGED <<first_client, next, topic_filter, recv_lock, task, got, owed>>
    BY <1>3 DEF vars, listVars, queueVars
  <2>2. Unlinked' /\ Acyclic'
    BY <2>1 DEF Walks, Unlinked, Unopened, Acyclic
  <2>3. \A p \in Clients : Pos(p)' = Pos(p) /\ (Publishing(p)' <=> Publishing(p))
    BY <2>1 DEF Pos, Handed, Publishing
  <2>4. Behind' /\ Debts' /\ InOrder'
    BY <2>1, <2>3, NoMove DEF Walks
  <2> QED BY <2>2, <2>4 DEF Walks
<1> QED BY <1>1, <1>2, <1>3, WalksOpenLink, WalksCall, WalksPublish DEF Next

LEMMA WalksAlways == Spec => []Walks
  BY InvAlways, WalksInit, WalksNext, PTL DEF Spec

(***************************************************************************)
(* A client gets the messages of a task in the order of its publish calls  *)
(* and none of them twice, for any number of tasks that publish, open      *)
(* clients and change filters at the same time.                            *)
(***************************************************************************)
THEOREM DeliveredInOrder == Spec => []InOrder
<1>1. Walks => InOrder
  BY DEF Walks
<1> QED BY <1>1, WalksAlways, PTL

(***************************************************************************)
(* When plog_router_mq_client_publish returns, every client that was       *)
(* listed and matched when it began, and stayed so, has the message.       *)
(***************************************************************************)
THEOREM PublishReachesAll == Spec => []ReachesAll
<1>1. Walks => ReachesAll
  BY DEF Walks, Debts, ReachesAll
<1> QED BY <1>1, WalksAlways, PTL

=============================================================================
