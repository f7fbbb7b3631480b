----------------------------- MODULE MqttTcpip -----------------------------
(***************************************************************************)
(* The MQTT client service (src/services/mqtt-tcpip/mqtt_tcpip.c): one task *)
(* runs the connection state machine over a TCP socket; other tasks add    *)
(* subscriptions and publishes to its lists, wait for messages on a        *)
(* subscription and hand messages to a publish, waiting until they are     *)
(* sent.  Nothing but binary semaphores synchronises them.  What a call of *)
(* the WolfMQTT library or of the socket returns is up to the environment. *)
(***************************************************************************)
EXTENDS Naturals, Sequences, Functions

CONSTANTS
    Sub, Pub,       \* QueueSubscribe and QueuePublish structures of the application
    StateTimeout,   \* MQTT_STATE_TIMEOUT
    PingInterval,   \* ping_interval_ms, in waits of CONNECTED
    MaxBackoff,     \* MQTT_RECONNECT_TIMEOUT_MAX_MS, in units of the initial one
    MaxMsg          \* bound: messages given to one publish

ASSUME MqttAssumption ==
    /\ StateTimeout \in Nat \ {0} /\ PingInterval \in Nat
    /\ MaxBackoff \in Nat \ {0} /\ MaxMsg \in Nat
    /\ Sub \cap Pub = {} /\ "step" \notin Sub \cup Pub /\ "none" \notin Sub \cup Pub

VARIABLES
    state, state_time,  \* enum mqtt_state; steps spent in it
    at,                 \* where mqtt_task is: between steps or inside SUBSCRIBE or PUBLISH
    can_run,            \* cleared by mqtt_free
    backoff,            \* reconnect_timeout_ms
    ping,               \* time_from_last_ping_ms
    subscribes,         \* the list of subscriptions, newest first
    new_subscription,
    subscribed,         \* subscribed[s]
    receiver,           \* receiver[s]: a task is in queue_subscribe_receive_message
    msg_wait,           \* msg_wait_lock of s
    publishes,          \* the list of publishes, newest first
    new_message,        \* new_message[p]
    sender,             \* sender[p]: a task is in queue_publish_send_message
    msg_sent,           \* msg_sent_lock of p
    ret,                \* ret[p]
    sends,              \* messages given to p so far
    known,              \* subscriptions in the list when the connection was made (history)
    broker              \* external: subscriptions the broker has in this session

conn == <<state, state_time, at, can_run, backoff, ping>>
subVars == <<subscribes, new_subscription, subscribed, receiver, msg_wait, known, broker>>
pubVars == <<publishes, new_message, sender, msg_sent, ret, sends>>
vars == <<conn, subVars, pubVars>>

Code == {"SUCCESS", "CONTINUE", "NETWORK", "OTHER"}
State == {"INIT", "NO_SOCKET", "NET_CONNECTING", "PROTO_CONNECTING", "CONNECTED",
          "SUBSCRIBE", "DISCONNECT", "PING", "PUBLISH"}

Min2(a, b) == IF a < b THEN a ELSE b

(***************************************************************************)
(* The main task                                                           *)
(***************************************************************************)
\* The end of mqtt_step and the check in mqtt_task: a step that leaves the state as it is counts,
\* and too many of them drop the connection, except in the three states that may last.
Lasting_Subscribe(s) == s \in {"CONNECTED", "NO_SOCKET", "INIT", "SUBSCRIBE"}
Lasting(s) == s \in {"CONNECTED", "NO_SOCKET", "INIT"}

Goto(s) ==
    LET counts == s = state /\ ~Lasting(s)
        expired == counts /\ state_time + 1 >= StateTimeout
    IN  /\ state' = IF expired THEN "DISCONNECT" ELSE s
        /\ state_time' = IF counts /\ ~expired THEN state_time + 1 ELSE 0

\* mqtt_msg runs inside the calls that read from the broker, once per message received: the
\* subscriptions that match it are woken, whether anybody waits or not.
mqtt_msg ==
    \E matching \in SUBSET Range(subscribes) :
        msg_wait' = [s \in Sub |-> msg_wait[s] \/ s \in matching]

no_socket ==
    /\ at = "step" /\ can_run /\ state = "NO_SOCKET"
    /\ \E ok \in BOOLEAN : Goto(IF ok THEN "NET_CONNECTING" ELSE "NO_SOCKET")
    /\ UNCHANGED <<at, can_run, backoff, ping, subVars, pubVars>>

net_connecting ==
    /\ at = "step" /\ can_run /\ state = "NET_CONNECTING"
    /\ \E rc \in Code : Goto(IF rc = "SUCCESS" THEN "PROTO_CONNECTING" ELSE "DISCONNECT")
    /\ UNCHANGED <<at, can_run, backoff, ping, subVars, pubVars>>

\* A new connection is a clean session: every subscription is marked to be made again.
Unmarked_Kept == subscribed
Unmarked == [s \in Sub |-> subscribed[s] /\ s \notin Range(subscribes)]

proto_connecting ==
    /\ at = "step" /\ can_run /\ state = "PROTO_CONNECTING"
    /\ \E rc \in Code :
        /\ Goto(IF rc = "CONTINUE" THEN "PROTO_CONNECTING"
                ELSE IF rc = "SUCCESS" THEN "CONNECTED" ELSE "DISCONNECT")
        /\ IF rc = "SUCCESS"
           THEN /\ ping' = 0
                /\ subscribed' = Unmarked
                /\ new_subscription' = TRUE
                /\ known' = Range(subscribes) /\ broker' = {}
           ELSE UNCHANGED <<ping, subscribed, new_subscription, known, broker>>
    /\ UNCHANGED <<at, can_run, backoff, subscribes, receiver, msg_wait, pubVars>>

\* CONNECTED: a ping that is due goes first, then a new subscription; a message to publish
\* only selects the next state, and the wait for a message can still turn it to DISCONNECT.
connected ==
    /\ at = "step" /\ can_run /\ state = "CONNECTED"
    /\ backoff' = 1
    /\ IF ping >= PingInterval
       THEN Goto("PING") /\ UNCHANGED <<ping, msg_wait>>
       ELSE IF new_subscription
       THEN Goto("SUBSCRIBE") /\ UNCHANGED <<ping, msg_wait>>
       ELSE \E rc \in Code :
            /\ mqtt_msg
            /\ ping' = ping + 1
            /\ Goto(IF rc = "NETWORK" THEN "DISCONNECT"
                    ELSE IF \E p \in Range(publishes) : new_message[p] THEN "PUBLISH" ELSE "CONNECTED")
    /\ UNCHANGED <<at, can_run, subscribes, new_subscription, subscribed, receiver, known, broker, pubVars>>

pinging ==
    /\ at = "step" /\ can_run /\ state = "PING"
    /\ mqtt_msg
    /\ \E rc \in Code :
        /\ Goto(IF rc = "CONTINUE" THEN "PING" ELSE IF rc = "SUCCESS" THEN "CONNECTED" ELSE "DISCONNECT")
        /\ ping' = IF rc = "SUCCESS" THEN 0 ELSE ping
    /\ UNCHANGED <<at, can_run, backoff, subscribes, new_subscription, subscribed, receiver, known, broker, pubVars>>

disconnect ==
    /\ at = "step" /\ can_run /\ state = "DISCONNECT"
    /\ backoff' = Min2(2 * backoff, MaxBackoff)
    /\ Goto("NET_CONNECTING")
    /\ UNCHANGED <<at, can_run, ping, subVars, pubVars>>

\* The first member of a list that is in S.
First(list, S) ==
    LET hits == {i \in DOMAIN list : list[i] \in S}
    IN  IF hits = {} THEN "none" ELSE list[CHOOSE i \in hits : \A j \in hits : i <= j]

\* SUBSCRIBE looks for the first subscription not made yet...
subscribe_scan ==
    /\ at = "step" /\ can_run /\ state = "SUBSCRIBE"
    /\ at' = First(subscribes, {s \in Sub : ~subscribed[s]})
    /\ UNCHANGED <<state, state_time, can_run, backoff, ping, subVars, pubVars>>

\* ... and when there is none clears the flag, after other tasks may have set it again.
subscribe_none ==
    /\ at = "none"
    /\ new_subscription' = FALSE
    /\ at' = "step"
    /\ Goto("CONNECTED")
    /\ UNCHANGED <<can_run, backoff, ping, subscribes, subscribed, receiver, msg_wait, known, broker, pubVars>>

\* Up to five calls of MqttClient_Subscribe with the same packet.
subscribe_end ==
    /\ at \in Sub
    /\ mqtt_msg
    /\ \E rc \in Code :
        /\ subscribed' = [subscribed EXCEPT ![at] = @ \/ rc = "SUCCESS"]
        /\ broker' = IF rc = "SUCCESS" THEN broker \cup {at} ELSE broker
        /\ Goto(IF rc = "SUCCESS" THEN "CONNECTED" ELSE "SUBSCRIBE")
    /\ at' = "step"
    /\ UNCHANGED <<can_run, backoff, ping, subscribes, new_subscription, receiver, known, pubVars>>

\* PUBLISH takes the first message of the list...
publish_scan ==
    /\ at = "step" /\ can_run /\ state = "PUBLISH"
    /\ LET p == First(publishes, {q \in Pub : new_message[q]})
       IN  IF p = "none"
           THEN Goto("CONNECTED") /\ UNCHANGED at
           ELSE at' = p /\ UNCHANGED <<state, state_time>>
    /\ UNCHANGED <<can_run, backoff, ping, subVars, pubVars>>

\* ... and after up to five calls of MqttClient_Publish wakes its sender.  A message that could
\* not be published stays marked as new.
publish_end_GiveOnSuccess ==
    /\ at \in Pub
    /\ mqtt_msg
    /\ \E rc \in Code :
        /\ msg_sent' = [msg_sent EXCEPT ![at] = @ \/ rc = "SUCCESS"]
        /\ ret' = [ret EXCEPT ![at] = IF rc = "SUCCESS" THEN "OK" ELSE "FAILED"]
    /\ new_message' = [new_message EXCEPT ![at] = FALSE]
    /\ at' = "step"
    /\ Goto("CONNECTED")
    /\ UNCHANGED <<can_run, backoff, ping, subscribes, new_subscription, subscribed, receiver, known,
                   broker, publishes, sender, sends>>

publish_end ==
    /\ at \in Pub
    /\ mqtt_msg
    /\ \E rc \in Code :
        /\ new_message' = [new_message EXCEPT ![at] = @ /\ rc # "SUCCESS"]
        /\ ret' = [ret EXCEPT ![at] = IF rc = "SUCCESS" THEN "OK" ELSE "FAILED"]
    /\ msg_sent' = [msg_sent EXCEPT ![at] = TRUE]
    /\ at' = "step"
    /\ Goto("CONNECTED")
    /\ UNCHANGED <<can_run, backoff, ping, subscribes, new_subscription, subscribed, receiver, known, broker,
                   publishes, sender, sends>>

(***************************************************************************)
(* Calls of other tasks                                                    *)
(***************************************************************************)
mqtt_connect ==
    /\ state = "INIT"
    /\ state' = "NO_SOCKET"
    /\ UNCHANGED <<state_time, at, can_run, backoff, ping, subVars, pubVars>>

mqtt_free ==
    /\ can_run
    /\ can_run' = FALSE
    /\ UNCHANGED <<state, state_time, at, backoff, ping, subVars, pubVars>>

mqtt_add_subscribe(s) ==
    /\ s \notin Range(subscribes)
    /\ subscribes' = <<s>> \o subscribes
    /\ subscribed' = [subscribed EXCEPT ![s] = FALSE]
    /\ new_subscription' = TRUE
    /\ UNCHANGED <<conn, receiver, msg_wait, known, broker, pubVars>>

queue_subscribe_receive_message(s) ==
    /\ ~receiver[s]
    /\ receiver' = [receiver EXCEPT ![s] = TRUE]
    /\ UNCHANGED <<conn, subscribes, new_subscription, subscribed, msg_wait, known, broker, pubVars>>

receive_return(s) ==
    /\ receiver[s] /\ msg_wait[s]
    /\ receiver' = [receiver EXCEPT ![s] = FALSE]
    /\ msg_wait' = [msg_wait EXCEPT ![s] = FALSE]
    /\ UNCHANGED <<conn, subscribes, new_subscription, subscribed, known, broker, pubVars>>

mqtt_add_publish(p) ==
    /\ p \notin Range(publishes)
    /\ publishes' = <<p>> \o publishes
    /\ new_message' = [new_message EXCEPT ![p] = FALSE]
    /\ UNCHANGED <<conn, subVars, sender, msg_sent, ret, sends>>

queue_publish_send_message(p) ==
    /\ p \in Range(publishes)
    /\ ~sender[p] /\ sends[p] < MaxMsg
    /\ sends' = [sends EXCEPT ![p] = @ + 1]
    /\ new_message' = [new_message EXCEPT ![p] = TRUE]
    /\ sender' = [sender EXCEPT ![p] = TRUE]
    /\ UNCHANGED <<conn, subVars, publishes, msg_sent, ret>>

send_return(p) ==
    /\ sender[p] /\ msg_sent[p]
    /\ sender' = [sender EXCEPT ![p] = FALSE]
    /\ msg_sent' = [msg_sent EXCEPT ![p] = FALSE]
    /\ UNCHANGED <<conn, subVars, publishes, new_message, ret, sends>>

Init ==
    /\ state = "INIT" /\ state_time = 0 /\ at = "step" /\ can_run = TRUE
    /\ backoff = 1 /\ ping = 0
    /\ subscribes = <<>> /\ new_subscription = FALSE
    /\ subscribed = [s \in Sub |-> FALSE]
    /\ receiver = [s \in Sub |-> FALSE] /\ msg_wait = [s \in Sub |-> FALSE]
    /\ publishes = <<>>
    /\ new_message = [p \in Pub |-> FALSE] /\ sender = [p \in Pub |-> FALSE]
    /\ msg_sent = [p \in Pub |-> FALSE] /\ ret = [p \in Pub |-> "OK"]
    /\ sends = [p \in Pub |-> 0]
    /\ known = {} /\ broker = {}

mqtt_task ==
    \/ no_socket \/ net_connecting \/ proto_connecting \/ connected \/ pinging \/ disconnect
    \/ subscribe_scan \/ subscribe_none \/ subscribe_end
    \/ publish_scan \/ publish_end

Next ==
    \/ mqtt_task
    \/ mqtt_connect \/ mqtt_free
    \/ \E s \in Sub : \/ mqtt_add_subscribe(s)
                      \/ queue_subscribe_receive_message(s) \/ receive_return(s)
    \/ \E p \in Pub : \/ mqtt_add_publish(p)
                      \/ queue_publish_send_message(p) \/ send_return(p)

\* The scheduler runs mqtt_task, and a task whose semaphore was given.  No call to the broker
\* is assumed to succeed.
Fairness ==
    /\ WF_vars(mqtt_task)
    /\ \A p \in Pub : WF_vars(send_return(p))

Spec == Init /\ [][Next]_vars /\ Fairness

-----------------------------------------------------------------------------
TypeOK ==
    /\ state \in State /\ state_time \in Nat
    /\ at \in {"step", "none"} \cup Sub \cup Pub
    /\ can_run \in BOOLEAN /\ new_subscription \in BOOLEAN
    /\ backoff \in Nat /\ ping \in Nat
    /\ subscribes \in Seq(Sub) /\ publishes \in Seq(Pub)
    /\ subscribed \in [Sub -> BOOLEAN] /\ receiver \in [Sub -> BOOLEAN] /\ msg_wait \in [Sub -> BOOLEAN]
    /\ new_message \in [Pub -> BOOLEAN] /\ sender \in [Pub -> BOOLEAN] /\ msg_sent \in [Pub -> BOOLEAN]
    /\ ret \in [Pub -> {"OK", "FAILED"}] /\ sends \in [Pub -> Nat]
    /\ known \subseteq Sub /\ broker \subseteq Sub

\* A task that waits in queue_publish_send_message (mqtt_tcpip.c:708) has its message still
\* marked as new or its semaphore given, however a failed publish, its retry and the return
\* of the previous call interleave: it never waits for a wake-up that has been used up.
NotStranded == \A p \in Pub : sender[p] => new_message[p] \/ msg_sent[p]

\* After a reconnection (mqtt_tcpip.c:315) the subscriptions of the list are made again, although
\* the broker has forgotten them, other tasks add to the list meanwhile and any call may fail:
\* when the client is CONNECTED with no new subscription to make, the broker has all of them.
SubscriptionsRestored == state = "CONNECTED" /\ ~new_subscription => known \subseteq broker

\* A message is dealt with, for better or worse, while the connection lasts (mqtt_tcpip.c:399):
\* its sender returns unless the client is or gets disconnected or is stopped.
SenderReturns ==
    \A p \in Pub : sender[p] ~> ~sender[p] \/ state \in {"INIT", "NO_SOCKET", "DISCONNECT"} \/ ~can_run
=============================================================================
