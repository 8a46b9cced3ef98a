----------------------------- MODULE MqttClient -----------------------------
(***************************************************************************)
(* circuitforge_core/mqtt: MQTTClient.run() connects, subscribes to the    *)
(* router's patterns, dispatches what arrives and reconnects when that     *)
(* fails. The broker drops the subscriptions of a lost connection, and may *)
(* be away for a while. router.matches() is not implemented and raises, so *)
(* TopicRouter.dispatch() logs an error per route and calls no handler.    *)
(* run() is awaited by the product, or is a task that packets() of         *)
(* mqtt/meshtastic/mqtt_backend.py makes for a client of its own; then     *)
(* packets() waits on a queue that the handler it registered would fill.   *)
(***************************************************************************)
EXTENDS Naturals, Sequences, FiniteSets

CONSTANTS
  Patterns,  \* what the product registers handlers for, one topic each
  MaxDrops,  \* bound on the outages of the broker
  MaxMsgs    \* bound on the messages of one connection that wait

ConstantsOK == MaxDrops \in Nat /\ MaxMsgs \in Nat

VARIABLES
  bridge,     \* run() belongs to packets()
  installed,  \* aiomqtt, an optional dependency, can be imported
  consumer,   \* packets(): "idle", "waiting", "leaving", "left", "ImportError"
  routes,     \* TopicRouter._routes
  pc,         \* run(): "off", "start", "connect", "subscribe", "receive", "sleep",
              \*   "cancelled" or "ImportError"
  todo,       \* the patterns run() has yet to subscribe to
  known,      \* the routes there were when run() last connected
  connected,
  subs,       \* the broker's subscriptions of the connection
  inbox,      \* the messages the connection has received
  brokerUp,
  drops,
  called,     \* the routes whose handler was called for the last message
  handled     \* the last message dispatched, with the routes of that time

use == <<bridge, installed>>
client == <<todo, known, connected, subs, inbox, called, handled>>
vars == <<use, consumer, routes, pc, client, brokerUp, drops>>

Prefix == CHOOSE p \in Patterns : TRUE  \* topic_prefix of the bridge
NoMessage == [topic |-> Prefix, routes |-> {}]
Ended == {"cancelled", "ImportError"}

Init ==
  /\ bridge \in BOOLEAN /\ installed \in BOOLEAN
  /\ consumer = "idle"
  /\ routes = {}
  /\ pc = "off"
  /\ todo = {}
  /\ known = {}
  /\ connected = FALSE
  /\ subs = {}
  /\ inbox = <<>>
  /\ brokerUp \in BOOLEAN
  /\ drops = 0
  /\ called = {}
  /\ handled = NoMessage

(* MQTTClient.on(), TopicRouter.register(): the product's, at any time.    *)
Register(p) ==
  /\ ~bridge /\ p \notin routes
  /\ routes' = routes \cup {p}
  /\ UNCHANGED <<use, consumer, pc, client, brokerUp, drops>>

(* The product awaits run().                                               *)
Run ==
  /\ ~bridge /\ pc = "off"
  /\ pc' = "start"
  /\ UNCHANGED <<use, consumer, routes, client, brokerUp, drops>>

(* run() imports aiomqtt.                                                  *)
Import ==
  /\ pc = "start"
  /\ pc' = IF installed THEN "connect" ELSE "ImportError"
  /\ UNCHANGED <<use, consumer, routes, client, brokerUp, drops>>

\* Mutant: only the patterns that the last connection did not have.
ConnectForNew ==
  /\ pc = "connect"
  /\ \/ /\ brokerUp
        /\ connected' = TRUE
        /\ todo' = routes \ known
        /\ known' = routes
        /\ pc' = "subscribe"
     \/ ~brokerUp /\ pc' = "sleep" /\ UNCHANGED <<connected, todo, known>>
  /\ UNCHANGED <<use, consumer, routes, subs, inbox, brokerUp, drops, called, handled>>

(* aiomqtt.Client.__aenter__(), then the router's patterns are read.       *)
Connect ==
  /\ pc = "connect"
  /\ \/ /\ brokerUp
        /\ connected' = TRUE
        /\ todo' = routes
        /\ known' = routes
        /\ pc' = "subscribe"
     \/ ~brokerUp /\ pc' = "sleep" /\ UNCHANGED <<connected, todo, known>>
  /\ UNCHANGED <<use, consumer, routes, subs, inbox, brokerUp, drops, called, handled>>

(* One ac.subscribe() after the other; it fails on a lost connection.      *)
Subscribe ==
  /\ pc = "subscribe"
  /\ \/ /\ connected /\ todo # {}
        /\ \E p \in todo : todo' = todo \ {p} /\ subs' = subs \cup {p}
        /\ UNCHANGED pc
     \/ connected /\ todo = {} /\ pc' = "receive" /\ UNCHANGED <<todo, subs>>
     \/ ~connected /\ pc' = "sleep" /\ UNCHANGED <<todo, subs>>
  /\ UNCHANGED <<use, consumer, routes, known, connected, inbox, brokerUp, drops, called, handled>>

(* dispatch(): every matches() raises and the error is logged.             *)
Dispatch ==
  /\ pc = "receive" /\ inbox # <<>>
  /\ inbox' = Tail(inbox)
  /\ called' = {}
  /\ handled' = [topic |-> Head(inbox), routes |-> routes]
  /\ UNCHANGED <<use, consumer, routes, pc, todo, known, connected, subs, brokerUp, drops>>

(* ac.messages raises when the connection is gone: log, and sleep for      *)
(* reconnect_interval.                                                     *)
ReceiveFails ==
  /\ pc = "receive" /\ ~connected /\ inbox = <<>>
  /\ pc' = "sleep"
  /\ UNCHANGED <<use, consumer, routes, client, brokerUp, drops>>

Retry ==
  /\ pc = "sleep"
  /\ pc' = "connect"
  /\ UNCHANGED <<use, consumer, routes, client, brokerUp, drops>>

Disconnect == connected' = FALSE /\ subs' = {} /\ inbox' = <<>>

\* Mutant: the bridge awaits its runner without having cancelled it.
CancelForgotten ==
  /\ pc \notin Ended \cup {"off"} /\ ~bridge
  /\ pc' = "cancelled"
  /\ Disconnect
  /\ UNCHANGED <<use, consumer, routes, todo, known, brokerUp, drops, called, handled>>

(* CancelledError is raised on, whatever run() waits for.                  *)
Cancel ==
  /\ pc \notin Ended \cup {"off"}
  /\ bridge => consumer = "leaving"
  /\ pc' = "cancelled"
  /\ Disconnect
  /\ UNCHANGED <<use, consumer, routes, todo, known, brokerUp, drops, called, handled>>

-----------------------------------------------------------------------------
(* packets() *)

Packets ==
  /\ bridge /\ consumer = "idle"
  /\ routes' = {Prefix}
  /\ pc' = "start"
  /\ consumer' = "waiting"
  /\ UNCHANGED <<use, client, brokerUp, drops>>

(* A handler that is called would let queue.get() return; packets() yields *)
(* and waits on. The consumer closes the generator or is cancelled: the    *)
(* finally block cancels the runner, which takes no other step, ...        *)
Leave ==
  /\ consumer = "waiting"
  /\ consumer' = "leaving"
  /\ UNCHANGED <<use, routes, pc, client, brokerUp, drops>>

(* ... and awaits it: its CancelledError is dropped, another exception is  *)
(* raised only now.                                                        *)
Left ==
  /\ consumer = "leaving" /\ pc \in Ended
  /\ consumer' = IF pc = "cancelled" THEN "left" ELSE pc
  /\ UNCHANGED <<use, routes, pc, client, brokerUp, drops>>

-----------------------------------------------------------------------------
(* The broker and the network. *)
Publish(p) ==
  /\ connected /\ p \in subs /\ Len(inbox) < MaxMsgs
  /\ inbox' = Append(inbox, p)
  /\ UNCHANGED <<use, consumer, routes, pc, todo, known, connected, subs, brokerUp, drops, called, handled>>

Drop ==
  /\ brokerUp /\ drops < MaxDrops
  /\ brokerUp' = FALSE
  /\ drops' = drops + 1
  /\ connected' = FALSE
  /\ subs' = {}
  /\ UNCHANGED <<use, consumer, routes, pc, todo, known, inbox, called, handled>>

Recover ==
  /\ ~brokerUp
  /\ brokerUp' = TRUE
  /\ UNCHANGED <<use, consumer, routes, pc, todo, known, connected, subs, inbox, drops, called, handled>>

Client ==
  /\ consumer # "leaving"
  /\ Import \/ Connect \/ Subscribe \/ Dispatch \/ ReceiveFails \/ Retry
Consumer == Left \/ (bridge /\ Cancel)

Next ==
  \/ \E p \in Patterns : Register(p) \/ Publish(p)
  \/ Run \/ Client \/ Cancel \/ Drop \/ Recover
  \/ Packets \/ Leave \/ Left

Spec == Init /\ [][Next]_vars

(* The client's task runs whenever it can; the broker comes back.          *)
Fairness == WF_vars(Client) /\ WF_vars(Recover) /\ WF_vars(Consumer)
FairSpec == Spec /\ Fairness

-----------------------------------------------------------------------------
(* client.py:50, while run() receives on a live connection, that           *)
(* connection is subscribed to every pattern registered before it was      *)
(* made, however many connections were lost before.                        *)
EveryConnectionSubscribes == pc = "receive" /\ connected => known \subseteq subs

(* client.py:52, "Reconnects automatically if the connection drops." And   *)
(* mqtt_backend.py:192-197, who leaves packets() gets out, with no runner  *)
(* left behind.                                                            *)
Listening == pc = "receive" /\ connected /\ known \subseteq subs
Settled == \/ pc = "off" \/ (Listening /\ consumer # "leaving")
           \/ (pc \in Ended /\ consumer # "leaving")
Reconnects == []<>Settled

(* router.py:65, dispatch() calls "all handlers whose pattern matches".    *)
MatchingHandlersCalled == handled.topic \in handled.routes => handled.topic \in called
=============================================================================
