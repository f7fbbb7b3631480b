-------------------------- MODULE MqttTcpipProofs --------------------------
(***************************************************************************)
(* Theorems about MqttTcpip, for any number of subscriptions, publishes    *)
(* and messages and any timeouts.                                          *)
(*                                                                         *)
(* NotStranded needs to know that only publishes of the list have a        *)
(* sender (Listed).  SubscriptionsRestored needs three facts about the     *)
(* subscriptions of the current connection: they are in the list, so that  *)
(* adding one never unmarks them; one that is marked is one the broker     *)
(* has; and all are marked once the flag is down, or is about to be taken  *)
(* down by a task that found nothing left to do.                           *)
(***************************************************************************)
EXTENDS MqttTcpip, Integers, WellFoundedInduction, TLAPS

(* Every nonempty set of naturals has a least element.                     *)
LEMMA NatMin ==
  ASSUME NEW T \in SUBSET Nat, T # {}
  PROVE  \E x \in T : \A y \in T : x <= y
<1> DEFINE R == {ss \in Nat \X Nat : ss[1] < ss[2]}
<1>1. IsWellFoundedOn(R, Nat)
  BY NatLessThanWellFounded DEF OpToRel
<1> HIDE DEF R
<1>2. PICK x \in T : \A y \in T : ~(<<y, x>> \in R)
  BY <1>1, WFMin, Zenon
<1>3. ASSUME NEW y \in T PROVE x <= y
  <2>1. <<y, x>> \in Nat \X Nat /\ <<y, x>>[1] = y /\ <<y, x>>[2] = x
    OBVIOUS
  <2>2. y < x => <<y, x>> \in R
    BY <2>1 DEF R
  <2> QED BY <2>2, <1>2
<1> QED BY <1>3

Listed == \A p \in Pub : sender[p] => p \in Range(publishes)

KnownListed == known \subseteq Range(subscribes)
MarkedMade == \A s \in known : subscribed[s] => s \in broker
AllMarked == ~new_subscription \/ at = "none" => \A s \in known : subscribed[s]

SubInv == KnownListed /\ MarkedMade /\ AllMarked

(* The first member of a list in a set is one of both, and there is none   *)
(* exactly when the list has no such member.                               *)
LEMMA FirstOfList ==
  ASSUME NEW S, "none" \notin S, NEW list \in Seq(S), NEW T \in SUBSET S
  PROVE  /\ First(list, T) \in T \cup {"none"}
         /\ First(list, T) = "none" => Range(list) \cap T = {}
<1> DEFINE hits == {i \in DOMAIN list : list[i] \in T}
<1>1. hits \in SUBSET Nat
  OBVIOUS
<1>2. CASE hits = {}
  <2>1. First(list, T) = "none"
    BY <1>2 DEF First
  <2>2. Range(list) \cap T = {}
    BY <1>2 DEF Range
  <2> QED BY <2>1, <2>2
<1>3. CASE hits # {}
  <2>1. \E x \in hits : \A y \in hits : x <= y
    BY <1>1, <1>3, NatMin
  <2> DEFINE i == CHOOSE x \in hits : \A y \in hits : x <= y
  <2>2. i \in hits
    BY <2>1
  <2>3. First(list, T) = list[i]
    BY <1>3 DEF First
  <2> HIDE DEF i
  <2> QED BY <2>2, <2>3
<1> QED BY <1>2, <1>3

(* Adding at the head keeps the members of a list.                         *)
LEMMA RangeCons ==
  ASSUME NEW S, NEW list \in Seq(S), NEW x \in S
  PROVE  /\ <<x>> \o list \in Seq(S)
         /\ Range(<<x>> \o list) = Range(list) \cup {x}
<1> DEFINE new == <<x>> \o list
<1>1. new \in Seq(S) /\ Len(new) = Len(list) + 1 /\ DOMAIN new = 1 .. Len(list) + 1
      /\ DOMAIN list = 1 .. Len(list)
  OBVIOUS
<1>2. new[1] = x /\ \A i \in 1 .. Len(list) : new[i + 1] = list[i]
  OBVIOUS
<1>3. \A i \in DOMAIN new : i = 1 \/ (i - 1 \in 1 .. Len(list) /\ new[i] = list[i - 1])
  BY <1>1, <1>2
<1> HIDE DEF new
<1>4. Range(new) \subseteq Range(list) \cup {x}
  BY <1>1, <1>2, <1>3 DEF Range
<1>5. Range(list) \cup {x} \subseteq Range(new)
  <2>1. \A i \in 1 .. Len(list) : i + 1 \in DOMAIN new
    BY <1>1
  <2>2. 1 \in DOMAIN new
    BY <1>1
  <2> QED BY <1>1, <1>2, <2>1, <2>2 DEF Range
<1> QED BY <1>1, <1>4, <1>5 DEF new

(* Goto leads to a state of the client.                                    *)
LEMMA GotoType ==
  ASSUME state_time \in Nat, NEW s \in State, Goto(s)
  PROVE  state' \in State /\ state_time' \in Nat
  BY DEF Goto, State

(* mqtt_msg only gives semaphores.                                         *)
LEMMA MsgType ==
  ASSUME msg_wait \in [Sub -> BOOLEAN], mqtt_msg
  PROVE  msg_wait' \in [Sub -> BOOLEAN]
  BY DEF mqtt_msg

(* The initial state is well typed.                                        *)
LEMMA TypeInit == Init => TypeOK
<1> SUFFICES ASSUME Init PROVE TypeOK
  OBVIOUS
<1>1. state \in State /\ state_time \in Nat /\ backoff \in Nat /\ ping \in Nat
  BY DEF Init, State
<1>2. subscribes \in Seq(Sub) /\ publishes \in Seq(Pub) /\ known \subseteq Sub /\ broker \subseteq Sub
  BY DEF Init
<1>3. subscribed \in [Sub -> BOOLEAN] /\ receiver \in [Sub -> BOOLEAN] /\ msg_wait \in [Sub -> BOOLEAN]
  BY DEF Init
<1>4. new_message \in [Pub -> BOOLEAN] /\ sender \in [Pub -> BOOLEAN] /\ msg_sent \in [Pub -> BOOLEAN]
  BY DEF Init
<1>5. ret \in [Pub -> {"OK", "FAILED"}] /\ sends \in [Pub -> Nat]
  BY DEF Init
<1> QED BY <1>1, <1>2, <1>3, <1>4, <1>5 DEF Init, TypeOK

(* Every step keeps the types.                                             *)
LEMMA TypeNext == TypeOK /\ [Next]_vars => TypeOK'
<1> SUFFICES ASSUME TypeOK, [Next]_vars PROVE TypeOK'
  OBVIOUS
<1> USE MqttAssumption DEF TypeOK, conn, subVars, pubVars
<1>1. CASE no_socket
  BY <1>1, GotoType DEF no_socket, State
<1>2. CASE net_connecting
  BY <1>2, GotoType DEF net_connecting, State
<1>3. CASE proto_connecting
  <2>1. Range(subscribes) \subseteq Sub
    BY DEF Range
  <2>2. Unmarked \in [Sub -> BOOLEAN]
    BY DEF Unmarked
  <2>3. state' \in State /\ state_time' \in Nat
    BY <1>3, GotoType DEF proto_connecting, State
  <2>4. CASE UNCHANGED <<ping, subscribed, new_subscription, known, broker>>
    BY <1>3, <2>3, <2>4 DEF proto_connecting
  <2>5. CASE /\ ping' = 0 /\ subscribed' = Unmarked /\ new_subscription' = TRUE
             /\ known' = Range(subscribes) /\ broker' = {}
    BY <1>3, <2>1, <2>2, <2>3, <2>5 DEF proto_connecting
  <2> QED BY <1>3, <2>4, <2>5 DEF proto_connecting
<1>4. CASE connected
  BY <1>4, GotoType, MsgType DEF connected, State
<1>5. CASE pinging
  BY <1>5, GotoType, MsgType DEF pinging, State
<1>6. CASE disconnect
  BY <1>6, GotoType DEF disconnect, State, Min2
<1>7. CASE subscribe_scan
  <2>1. {s \in Sub : ~subscribed[s]} \in SUBSET Sub
    OBVIOUS
  <2>2. at' \in Sub \cup {"none"}
    BY <1>7, <2>1, FirstOfList DEF subscribe_scan
  <2> QED BY <1>7, <2>2 DEF subscribe_scan
<1>8. CASE subscribe_none
  BY <1>8, GotoType DEF subscribe_none, State
<1>9. CASE subscribe_end
  <2>1. PICK rc \in Code :
          /\ subscribed' = [subscribed EXCEPT ![at] = @ \/ rc = "SUCCESS"]
          /\ broker' = IF rc = "SUCCESS" THEN broker \cup {at} ELSE broker
          /\ Goto(IF rc = "SUCCESS" THEN "CONNECTED" ELSE "SUBSCRIBE")
    BY <1>9 DEF subscribe_end
  <2>2. state' \in State /\ state_time' \in Nat
    BY <2>1, GotoType DEF State
  <2>3. at \in Sub /\ mqtt_msg
    BY <1>9 DEF subscribe_end
  <2> QED BY <1>9, <2>1, <2>2, <2>3, MsgType DEF subscribe_end
<1>10. CASE publish_scan
  <2> DEFINE T == {q \in Pub : new_message[q]}
  <2>1. T \in SUBSET Pub
    OBVIOUS
  <2>2. First(publishes, T) \in Pub \cup {"none"}
    BY <2>1, FirstOfList
  <2>3. CASE First(publishes, T) = "none"
    BY <1>10, <2>3, GotoType DEF publish_scan, State
  <2>4. CASE First(publishes, T) # "none"
    BY <1>10, <2>2, <2>4 DEF publish_scan
  <2> QED BY <2>3, <2>4
<1>11. CASE publish_end
  <2>1. PICK rc \in Code :
          /\ new_message' = [new_message EXCEPT ![at] = @ /\ rc # "SUCCESS"]
          /\ ret' = [ret EXCEPT ![at] = IF rc = "SUCCESS" THEN "OK" ELSE "FAILED"]
    BY <1>11 DEF publish_end
  <2>2. state' \in State /\ state_time' \in Nat
    BY <1>11, GotoType DEF publish_end, State
  <2>3. at \in Pub /\ mqtt_msg
    BY <1>11 DEF publish_end
  <2> QED BY <1>11, <2>1, <2>2, <2>3, MsgType DEF publish_end
<1>12. CASE mqtt_connect
  BY <1>12 DEF mqtt_connect, State
<1>13. CASE mqtt_free
  BY <1>13 DEF mqtt_free
<1>14. ASSUME NEW s \in Sub, mqtt_add_subscribe(s) PROVE TypeOK'
  BY <1>14, RangeCons DEF mqtt_add_subscribe
<1>15. ASSUME NEW s \in Sub, queue_subscribe_receive_message(s) \/ receive_return(s) PROVE TypeOK'
  BY <1>15 DEF queue_subscribe_receive_message, receive_return
<1>16. ASSUME NEW p \in Pub, mqtt_add_publish(p) PROVE TypeOK'
  BY <1>16, RangeCons DEF mqtt_add_publish
<1>17. ASSUME NEW p \in Pub, queue_publish_send_message(p) PROVE TypeOK'
  BY <1>17 DEF queue_publish_send_message
<1>18. ASSUME NEW p \in Pub, send_return(p) PROVE TypeOK'
  BY <1>18 DEF send_return
<1>19. CASE UNCHANGED vars
  BY <1>19 DEF vars
<1> QED
  BY <1>1, <1>2, <1>3, <1>4, <1>5, <1>6, <1>7, <1>8, <1>9, <1>10, <1>11, <1>12, <1>13, <1>14,
     <1>15, <1>16, <1>17, <1>18, <1>19 DEF Next, mqtt_task

(* Every step keeps each waiting sender awake or wakeable.                 *)
LEMMA SenderNext == TypeOK /\ Listed /\ NotStranded /\ [Next]_vars => Listed' /\ NotStranded'
<1> SUFFICES ASSUME TypeOK, Listed, NotStranded, [Next]_vars PROVE Listed' /\ NotStranded'
  OBVIOUS
<1> USE MqttAssumption DEF Listed, NotStranded, conn, subVars, pubVars
<1>1. CASE UNCHANGED pubVars
  BY <1>1
<1>2. CASE publish_end
  BY <1>2 DEF publish_end, TypeOK
<1>3. ASSUME NEW p \in Pub, mqtt_add_publish(p) PROVE Listed' /\ NotStranded'
  <2>1. Range(publishes') = Range(publishes) \cup {p}
    BY <1>3, RangeCons DEF mqtt_add_publish, TypeOK
  <2>2. ~sender[p]
    BY <1>3 DEF mqtt_add_publish
  <2> QED BY <1>3, <2>1, <2>2 DEF mqtt_add_publish, TypeOK
<1>4. ASSUME NEW p \in Pub, queue_publish_send_message(p) PROVE Listed' /\ NotStranded'
  BY <1>4 DEF queue_publish_send_message, TypeOK
<1>5. ASSUME NEW p \in Pub, send_return(p) PROVE Listed' /\ NotStranded'
  BY <1>5 DEF send_return, TypeOK
<1>6. no_socket \/ net_connecting \/ proto_connecting \/ connected \/ pinging \/ disconnect
      \/ subscribe_scan \/ subscribe_none \/ subscribe_end \/ publish_scan
      \/ mqtt_connect \/ mqtt_free
      \/ (\E s \in Sub : mqtt_add_subscribe(s) \/ queue_subscribe_receive_message(s) \/ receive_return(s))
      => UNCHANGED pubVars
  BY DEF no_socket, net_connecting, proto_connecting, connected, pinging, disconnect,
         subscribe_scan, subscribe_none, subscribe_end, publish_scan, mqtt_connect, mqtt_free,
         mqtt_add_subscribe, queue_subscribe_receive_message, receive_return
<1>7. UNCHANGED vars => UNCHANGED pubVars
  BY DEF vars
<1> QED BY <1>1, <1>2, <1>3, <1>4, <1>5, <1>6, <1>7 DEF Next, mqtt_task

(* Every step keeps what is known of the connection's subscriptions.       *)
LEMMA SubNext == TypeOK /\ SubInv /\ [Next]_vars => SubInv'
<1> SUFFICES ASSUME TypeOK, SubInv, [Next]_vars PROVE SubInv'
  OBVIOUS
<1> DEFINE keep == <<subscribes, new_subscription, subscribed, known, broker>>
<1> USE MqttAssumption DEF SubInv, KnownListed, MarkedMade, AllMarked, conn, subVars, pubVars
<1>1. CASE UNCHANGED keep /\ (at' = at \/ at' # "none")
  BY <1>1
<1>2. CASE proto_connecting
  <2>1. CASE UNCHANGED keep
    BY <1>1, <1>2, <2>1 DEF proto_connecting
  <2>2. CASE subscribed' = Unmarked /\ new_subscription' = TRUE /\ known' = Range(subscribes) /\ broker' = {}
    <3>1. Range(subscribes) \subseteq Sub
      BY DEF TypeOK, Range
    <3>2. \A s \in Range(subscribes) : ~Unmarked[s]
      BY <3>1 DEF Unmarked
    <3>3. at' # "none" /\ subscribes' = subscribes
      BY <1>2 DEF proto_connecting
    <3> QED BY <2>2, <3>1, <3>2, <3>3
  <2> QED BY <1>2, <2>1, <2>2 DEF proto_connecting
<1>3. CASE subscribe_scan
  <2> DEFINE T == {s \in Sub : ~subscribed[s]}
  <2>1. T \in SUBSET Sub
    OBVIOUS
  <2>2. at' = "none" => Range(subscribes) \cap T = {}
    <3>1. "none" \notin Sub /\ subscribes \in Seq(Sub)
      BY DEF TypeOK
    <3> HIDE DEF T
    <3>2. First(subscribes, T) = "none" => Range(subscribes) \cap T = {}
      BY <2>1, <3>1, FirstOfList
    <3> QED BY <1>3, <3>2 DEF subscribe_scan, T
  <2>3. at' = "none" => \A s \in known : subscribed[s]
    BY <2>2 DEF TypeOK
  <2> QED BY <1>3, <2>3 DEF subscribe_scan
<1>4. CASE subscribe_none
  BY <1>4 DEF subscribe_none
<1>5. CASE subscribe_end
  <2>1. PICK rc \in Code :
          /\ subscribed' = [subscribed EXCEPT ![at] = @ \/ rc = "SUCCESS"]
          /\ broker' = IF rc = "SUCCESS" THEN broker \cup {at} ELSE broker
    BY <1>5 DEF subscribe_end
  <2>2. \A s \in Sub : subscribed'[s] = IF s = at THEN subscribed[s] \/ rc = "SUCCESS" ELSE subscribed[s]
    BY <2>1, <1>5 DEF TypeOK, subscribe_end
  <2> QED BY <1>5, <2>1, <2>2 DEF subscribe_end, TypeOK
<1>6. ASSUME NEW s \in Sub, mqtt_add_subscribe(s) PROVE SubInv'
  <2>1. Range(subscribes') = Range(subscribes) \cup {s}
    BY <1>6, RangeCons DEF mqtt_add_subscribe, TypeOK
  <2>2. s \notin known
    BY <1>6 DEF mqtt_add_subscribe
  <2>3. \A r \in known : subscribed'[r] = subscribed[r]
    BY <1>6, <2>2 DEF mqtt_add_subscribe, TypeOK
  <2> QED BY <1>6, <2>1, <2>3 DEF mqtt_add_subscribe, TypeOK
<1>7. no_socket \/ net_connecting \/ connected \/ pinging \/ disconnect \/ publish_end
      \/ mqtt_connect \/ mqtt_free
      \/ (\E s \in Sub : queue_subscribe_receive_message(s) \/ receive_return(s))
      \/ (\E p \in Pub : mqtt_add_publish(p) \/ queue_publish_send_message(p) \/ send_return(p))
      => UNCHANGED keep /\ (at' = at \/ at' # "none")
  BY DEF no_socket, net_connecting, connected, pinging, disconnect, publish_end, mqtt_connect,
         mqtt_free, queue_subscribe_receive_message, receive_return, mqtt_add_publish,
         queue_publish_send_message, send_return
<1>8. publish_scan => UNCHANGED keep /\ (at' = at \/ at' # "none")
  BY DEF publish_scan
<1>9. UNCHANGED vars => UNCHANGED keep /\ at' = at
  BY DEF vars
<1> QED BY <1>1, <1>2, <1>3, <1>4, <1>5, <1>6, <1>7, <1>8, <1>9 DEF Next, mqtt_task

(* A task in queue_publish_send_message (mqtt_tcpip.c:708) never waits for *)
(* a wake-up that has been used up, for any number of publishes and any    *)
(* outcome of the calls to the broker.                                     *)
THEOREM SenderNotStranded == Spec => []NotStranded
<1>1. Init => Listed /\ NotStranded
  BY DEF Init, Listed, NotStranded
<1> QED BY <1>1, TypeInit, TypeNext, SenderNext, PTL DEF Spec

(* After a reconnection no subscription of the list is forgotten           *)
(* (mqtt_tcpip.c:315), for any number of subscriptions, added at any time. *)
THEOREM NoSubscriptionForgotten == Spec => []SubscriptionsRestored
<1>1. Init => SubInv
  BY DEF Init, SubInv, KnownListed, MarkedMade, AllMarked
<1>2. SubInv => SubscriptionsRestored
  BY DEF SubInv, MarkedMade, AllMarked, SubscriptionsRestored
<1> QED BY <1>1, <1>2, TypeInit, TypeNext, SubNext, PTL DEF Spec
=============================================================================
