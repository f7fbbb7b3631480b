----------------------------- MODULE PlogRouter -----------------------------
(***************************************************************************)
(* The message queue of plumCore (src/services/plog-router).  A service    *)
(* opens a client, subscribes it to one topic filter and loops on receive; *)
(* publish walks the list of clients and hands the message to each match.  *)
(* Nothing is copied on the way: the queue send_lock carries pointers into *)
(* the publisher's stack, the receiver reads through them and answers on   *)
(* recv_lock, and only then does the publisher go on.                      *)
(*                                                                         *)
(* Every client belongs to one task and is named like it.  A message is    *)
(* named by its publisher and a number.                                    *)
(***************************************************************************)
EXTENDS Integers, Sequences, FiniteSets

CONSTANTS
  Clients,      (* tasks, each with the client it may open                 *)
  None,         (* NULL                                                    *)
  Topics, Filters,
  NoFilter,     (* "", the filter of a client that is not subscribed       *)
  Matches,      (* [Filters \X Topics -> BOOLEAN]: what a filter matches   *)
  MaxMsgs,      (* bound: messages that each task publishes                *)
  MaxFilters    (* bound: subscribe and unsubscribe calls of each task     *)

ASSUME RouterAssumption ==
  /\ None \notin Clients /\ NoFilter \notin Filters
  /\ Matches \in [Filters \X Topics -> BOOLEAN]
  /\ MaxMsgs \in [Clients -> Nat] /\ MaxFilters \in [Clients -> Nat]

VARIABLES
  first_client, (* head of the list of clients                             *)
  next,         (* client.next                                             *)
  topic_filter,
  msg_mutex,    (* the task that holds it                                  *)
  send_lock,    (* queue of one message, named by the task that sent it    *)
  recv_lock,    (* queue of one response: the number in it                 *)
  task,         (* of each task: pc, its publish (msg, topic, c: the list  *)
                (* position) and the publisher it is receiving from        *)
  filters,      (* subscribe and unsubscribe calls so far                  *)
  got,          (* ghost: what a client received                           *)
  owed          (* ghost: clients that a running publish has to reach      *)

listVars == <<first_client, next>>
queueVars == <<msg_mutex, send_lock, recv_lock>>
vars == <<listVars, topic_filter, queueVars, task, filters, got, owed>>

Idle == [pc |-> "idle", msg |-> 0, topic |-> None, c |-> None, from |-> None, read |-> None]

Init ==
  /\ first_client = None /\ next = [c \in Clients |-> None]
  /\ topic_filter = [c \in Clients |-> NoFilter]
  /\ msg_mutex = [c \in Clients |-> None]
  /\ send_lock = [c \in Clients |-> <<>>]
  /\ recv_lock = [c \in Clients |-> 0]
  /\ task = [c \in Clients |-> [Idle EXCEPT !.pc = "new"]]
  /\ filters = [c \in Clients |-> 0]
  /\ got = [c \in Clients |-> <<>>]
  /\ owed = [c \in Clients |-> {}]

plog_router_match_topic(f, t) == f # NoFilter /\ Matches[f, t]

(* Clients reachable from the head of the list.                            *)
Listed ==
  {c \in Clients : \E k \in 1 .. Cardinality(Clients) :
     \E s \in [1 .. k -> Clients] :
       /\ s[1] = first_client /\ s[k] = c
       /\ \A i \in 1 .. k - 1 : next[s[i]] = s[i + 1]}

-----------------------------------------------------------------------------
(* plog_router_open: "@todo add to the list, lock".                        *)

OpenLink(c) ==
  /\ task[c].pc = "new"
  /\ next' = [next EXCEPT ![c] = first_client]
  /\ task' = [task EXCEPT ![c].pc = "opening"]
  /\ UNCHANGED <<first_client, topic_filter, queueVars, filters, got, owed>>

OpenPublish(c) ==
  /\ task[c].pc = "opening"
  /\ first_client' = c
  /\ task' = [task EXCEPT ![c].pc = "idle"]
  /\ UNCHANGED <<next, topic_filter, queueVars, filters, got>>
  /\ owed' = [p \in Clients |-> owed[p] \cap Listed']

(* subscribe overwrites the filter, unsubscribe clears it.                 *)
SetFilter(c, f) ==
  /\ topic_filter' = [topic_filter EXCEPT ![c] = f]
  /\ owed' = [p \in Clients |-> owed[p] \ {c}]

Subscribe(c, f) ==
  /\ task[c].pc = "idle"
  /\ filters[c] < MaxFilters[c]
  /\ SetFilter(c, f)
  /\ filters' = [filters EXCEPT ![c] = @ + 1]
  /\ UNCHANGED <<listVars, queueVars, task, got>>

Unsubscribe(c) == Subscribe(c, NoFilter)

(* close clears the filter; the client stays in the list and its task no   *)
(* longer receives.                                                        *)
Close(c) ==
  /\ task[c].pc = "idle"
  /\ SetFilter(c, NoFilter)
  /\ task' = [task EXCEPT ![c].pc = "closed"]
  /\ UNCHANGED <<listVars, queueVars, filters, got>>

-----------------------------------------------------------------------------
(* plog_router_mq_client_receive                                           *)

ReceiveCall(c) ==
  /\ task[c].pc = "idle"
  /\ task' = [task EXCEPT ![c].pc = "receive"]
  /\ UNCHANGED <<listVars, topic_filter, queueVars, filters, got, owed>>

ReceiveTimeout(c) ==
  /\ task[c].pc = "receive" /\ send_lock[c] = <<>>
  /\ task' = [task EXCEPT ![c].pc = "idle"]
  /\ UNCHANGED <<listVars, topic_filter, queueVars, filters, got, owed>>

Taken_Peek(c) == send_lock[c]
Taken(c) == Tail(send_lock[c])

ReceiveMsg(c) ==
  /\ task[c].pc = "receive" /\ send_lock[c] # <<>>
  /\ send_lock' = [send_lock EXCEPT ![c] = Taken(c)]
  /\ task' = [task EXCEPT ![c].pc = "copy", ![c].from = Head(send_lock[c])]
  /\ UNCHANGED <<listVars, topic_filter, msg_mutex, recv_lock, filters, got, owed>>

(* topic and ts are read through the pointers, then the array.             *)
CopyTopic(c) ==
  /\ task[c].pc = "copy"
  /\ task' = [task EXCEPT ![c].pc = "append", ![c].read = task[task[c].from].topic]
  /\ UNCHANGED <<listVars, topic_filter, queueVars, filters, got, owed>>

CopyArray(c) ==
  /\ task[c].pc = "append"
  /\ LET p == task[c].from IN
     /\ got' = [got EXCEPT ![c] =
                  Append(@, [from |-> p, msg |-> task[p].msg, topic |-> task[c].read])]
     /\ owed' = [owed EXCEPT ![p] = @ \ {c}]
  /\ task' = [task EXCEPT ![c].pc = "respond"]
  /\ UNCHANGED <<listVars, topic_filter, queueVars, filters>>

(* xQueueSend without waiting: a response that finds the queue full is     *)
(* dropped.                                                                *)
Response_Dropped(c) == recv_lock
Response(c) == [recv_lock EXCEPT ![c] = IF @ < 1 THEN @ + 1 ELSE @]

Respond(c) ==
  /\ task[c].pc = "respond"
  /\ recv_lock' = Response(c)
  /\ task' = [task EXCEPT ![c].pc = "idle", ![c].from = None, ![c].read = None]
  /\ UNCHANGED <<listVars, topic_filter, msg_mutex, send_lock, filters, got, owed>>

-----------------------------------------------------------------------------
(* plog_router_mq_client_publish and deliver_to_client                     *)

Publish(p, t) ==
  /\ task[p].pc = "idle"
  /\ task[p].msg < MaxMsgs[p]
  /\ task' = [task EXCEPT ![p].pc = "walk", ![p].msg = @ + 1, ![p].topic = t,
                          ![p].c = first_client]
  /\ owed' = [owed EXCEPT ![p] = {c \in Listed : plog_router_match_topic(topic_filter[c], t)}]
  /\ UNCHANGED <<listVars, topic_filter, queueVars, filters, got>>

NextClient_Stop(c) == None
NextClient(c) == next[c]

Walk(p) ==
  /\ task[p].pc = "walk" /\ task[p].c # None
  /\ \/ /\ plog_router_match_topic(topic_filter[task[p].c], task[p].topic)
        /\ task' = [task EXCEPT ![p].pc = "lock"]
     \/ /\ ~plog_router_match_topic(topic_filter[task[p].c], task[p].topic)
        /\ task' = [task EXCEPT ![p].c = NextClient(@)]
  /\ UNCHANGED <<listVars, topic_filter, queueVars, filters, got, owed>>

PublishReturn(p) ==
  /\ task[p].pc = "walk" /\ task[p].c = None
  /\ task' = [task EXCEPT ![p].pc = "idle", ![p].topic = None]
  /\ UNCHANGED <<listVars, topic_filter, queueVars, filters, got, owed>>

Free_Always(c) == TRUE
Free(c) == msg_mutex[c] = None

DeliverLock(p) ==
  LET c == task[p].c IN
  /\ task[p].pc = "lock" /\ Free(c)
  /\ msg_mutex' = [msg_mutex EXCEPT ![c] = p]
  /\ task' = [task EXCEPT ![p].pc = "send"]
  /\ UNCHANGED <<listVars, topic_filter, send_lock, recv_lock, filters, got, owed>>

AfterSend_NoWait == "unlock"
AfterSend == "wait"

DeliverSend(p) ==
  LET c == task[p].c IN
  /\ task[p].pc = "send" /\ send_lock[c] = <<>>
  /\ send_lock' = [send_lock EXCEPT ![c] = Append(@, p)]
  /\ task' = [task EXCEPT ![p].pc = AfterSend]
  /\ UNCHANGED <<listVars, topic_filter, msg_mutex, recv_lock, filters, got, owed>>

DeliverWait(p) ==
  LET c == task[p].c IN
  /\ task[p].pc = "wait" /\ recv_lock[c] > 0
  /\ recv_lock' = [recv_lock EXCEPT ![c] = @ - 1]
  /\ task' = [task EXCEPT ![p].pc = "unlock"]
  /\ UNCHANGED <<listVars, topic_filter, msg_mutex, send_lock, filters, got, owed>>

Unlocked(c) == [msg_mutex EXCEPT ![c] = None]

DeliverUnlock(p) ==
  /\ task[p].pc = "unlock"
  /\ msg_mutex' = Unlocked(task[p].c)
  /\ task' = [task EXCEPT ![p].pc = "walk", ![p].c = NextClient(@)]
  /\ UNCHANGED <<listVars, topic_filter, send_lock, recv_lock, filters, got, owed>>

-----------------------------------------------------------------------------
(* Steps of a call that has begun, and the calls a task chooses to make.   *)
CallStep(c) ==
  \/ OpenPublish(c)
  \/ ReceiveMsg(c) \/ CopyTopic(c) \/ CopyArray(c) \/ Respond(c)
  \/ Walk(c) \/ PublishReturn(c)
  \/ DeliverLock(c) \/ DeliverSend(c) \/ DeliverWait(c) \/ DeliverUnlock(c)

Next ==
  \E c \in Clients :
    \/ OpenLink(c)
    \/ CallStep(c)
    \/ ReceiveCall(c) \/ ReceiveTimeout(c)
    \/ \E f \in Filters : Subscribe(c, f)
    \/ Unsubscribe(c) \/ Close(c)
    \/ \E t \in Topics : Publish(c, t)

Spec == Init /\ [][Next]_vars

(* Calls that can go on do, and a task receives until it closes its client.*)
FairSpec == Spec /\ \A c \in Clients : WF_vars(CallStep(c)) /\ WF_vars(ReceiveCall(c))

-----------------------------------------------------------------------------
(* Properties                                                              *)

Pcs == {"new", "opening", "idle", "closed", "receive", "copy", "append", "respond",
        "walk", "lock", "send", "wait", "unlock"}
Publishing(p) == task[p].pc \in {"walk", "lock", "send", "wait", "unlock"}
WaitsFor(p, c) == task[p].pc = "wait" /\ task[p].c = c
Copying(c) == task[c].pc \in {"copy", "append", "respond"}

TypeOK ==
  /\ first_client \in Clients \cup {None} /\ next \in [Clients -> Clients \cup {None}]
  /\ topic_filter \in [Clients -> Filters \cup {NoFilter}]
  /\ msg_mutex \in [Clients -> Clients \cup {None}]
  /\ send_lock \in [Clients -> Seq(Clients)] /\ recv_lock \in [Clients -> 0 .. 1]
  /\ task \in [Clients -> [pc : Pcs, msg : Nat, topic : Topics \cup {None},
                           c : Clients \cup {None}, from : Clients \cup {None},
                           read : Topics \cup {None}]]
  /\ filters \in [Clients -> Nat]
  /\ got \in [Clients -> Seq([from : Clients, msg : Nat, topic : Topics])]
  /\ owed \in [Clients -> SUBSET Clients]

(***************************************************************************)
(* No dangling pointer: whatever is in send_lock or being copied by the    *)
(* receiver points into the stack of a task that waits in                  *)
(* deliver_to_client for this very client, however late the receiver is.   *)
(***************************************************************************)
PointersValid ==
  \A c \in Clients :
    /\ \A i \in DOMAIN send_lock[c] : WaitsFor(send_lock[c][i], c)
    /\ Copying(c) => WaitsFor(task[c].from, c)

(***************************************************************************)
(* A response belongs to the delivery that waits for it: it is there only  *)
(* when a task waits whose message was copied, and is never a leftover     *)
(* that would release the next publisher before its message was read, or   *)
(* fill the queue so that the response of the next receive is dropped.     *)
(***************************************************************************)
ResponsesPair ==
  \A c \in Clients : recv_lock[c] > 0 =>
    /\ send_lock[c] = <<>> /\ ~Copying(c)
    /\ \E p \in Clients : WaitsFor(p, c)

(***************************************************************************)
(* A client receives a task's messages in the order they were published,   *)
(* each at most once.                                                      *)
(***************************************************************************)
InOrder ==
  \A c \in Clients : \A i, j \in DOMAIN got[c] :
    (i < j /\ got[c][i].from = got[c][j].from) => got[c][i].msg < got[c][j].msg

(***************************************************************************)
(* publish reaches everyone: when it returns, each client that was listed  *)
(* with a matching filter when it began, and kept it, has the message.     *)
(***************************************************************************)
ReachesAll == \A p \in Clients : ~Publishing(p) => owed[p] = {}

(***************************************************************************)
(* Whoever waits for ever waits for a task that has closed its client or   *)
(* is itself stuck in a publish: nothing else blocks a publisher.          *)
(***************************************************************************)
StuckBehindStuck ==
  \A p \in Clients :
    (<>[]Publishing(p)) =>
      <>[](/\ task[p].c # None
           /\ task[task[p].c].pc = "closed" \/ Publishing(task[p].c))

=============================================================================
