----------------------------- MODULE Meshtastic -----------------------------
(***************************************************************************)
(* circuitforge_core/mqtt/meshtastic/serial_backend.py: packets() opens a  *)
(* radio in an executor thread, subscribes two listeners to the global     *)
(* PyPubSub topics of the meshtastic library, and yields what they put     *)
(* into a queue. The library publishes from a thread of its own, between   *)
(* any two steps. Each stream of packets has a radio of its own.           *)
(***************************************************************************)
EXTENDS Naturals, Sequences

CONSTANTS
  Streams,    \* the packets() generators of the process, one radio each
  MaxPackets  \* per radio, bound on its packets

ConstantsOK == MaxPackets \in [Streams -> Nat]

Closed == [from |-> CHOOSE s \in Streams : TRUE, n |-> 0]  \* None in the queue

VARIABLES
  pc,         \* per stream where packets() is
  radio,      \* per stream its interface: "none", "open", "lost", "closed"
  sent,       \* number of packets its radio has received
  receiving,  \* the streams subscribed to meshtastic.receive
  watching,   \* the streams subscribed to meshtastic.connection.lost
  queue,      \* per stream: packets [from, n], or Closed
  missed,     \* packets of its radio received before it was subscribed
  yielded,    \* per stream what its consumer got
  cancelled   \* the streams whose consumer cancelled them

vars == <<pc, radio, sent, receiving, watching, queue, missed, yielded, cancelled>>

Init ==
  /\ pc = [s \in Streams |-> "connecting"]
  /\ radio = [s \in Streams |-> "none"]
  /\ sent = [s \in Streams |-> 0]
  /\ receiving = {}
  /\ watching = {}
  /\ queue = [s \in Streams |-> <<>>]
  /\ missed = [s \in Streams |-> 0]
  /\ yielded = [s \in Streams |-> <<>>]
  /\ cancelled = {}

-----------------------------------------------------------------------------
(* _make_interface() in the executor; nobody waits for it any more when    *)
(* the stream was cancelled, but the thread opens the radio all the same.  *)
MakeInterface(s) ==
  /\ radio[s] = "none"
  /\ radio' = [radio EXCEPT ![s] = "open"]
  /\ UNCHANGED <<pc, sent, receiving, watching, queue, missed, yielded, cancelled>>

SubscribeReceive(s) ==
  /\ pc[s] = "connecting" /\ radio[s] # "none"
  /\ receiving' = receiving \cup {s}
  /\ missed' = [missed EXCEPT ![s] = sent[s]]
  /\ pc' = [pc EXCEPT ![s] = "subscribing"]
  /\ UNCHANGED <<radio, sent, watching, queue, yielded, cancelled>>

SubscribeLost(s) ==
  /\ pc[s] = "subscribing"
  /\ watching' = watching \cup {s}
  /\ pc' = [pc EXCEPT ![s] = "running"]
  /\ UNCHANGED <<radio, sent, receiving, queue, missed, yielded, cancelled>>

(* queue.get(): None ends the loop, everything else is yielded.            *)
Get(s) ==
  /\ pc[s] = "running" /\ queue[s] # <<>>
  /\ queue' = [queue EXCEPT ![s] = Tail(@)]
  /\ \/ Head(queue[s]) = Closed /\ pc' = [pc EXCEPT ![s] = "closing"] /\ UNCHANGED yielded
     \/ /\ Head(queue[s]) # Closed
        /\ yielded' = [yielded EXCEPT ![s] = Append(@, Head(queue[s]))]
        /\ UNCHANGED pc
  /\ UNCHANGED <<radio, sent, receiving, watching, missed, cancelled>>

(* The consumer's task is cancelled, or closes the generator: where it     *)
(* waits for the radio, which is then nobody's, or in the loop, whose      *)
(* finally clause runs.                                                    *)
Cancel(s) ==
  /\ pc[s] \in {"connecting", "running"}
  /\ cancelled' = cancelled \cup {s}
  /\ pc' = [pc EXCEPT ![s] = IF pc[s] = "connecting" THEN "abandoned" ELSE "closing"]
  /\ UNCHANGED <<radio, sent, receiving, watching, queue, missed, yielded>>

(* The finally clause: unsubscribe both listeners ... *)
Unsubscribe(s) ==
  /\ pc[s] = "closing"
  /\ receiving' = receiving \ {s}
  /\ watching' = watching \ {s}
  /\ pc' = [pc EXCEPT ![s] = "unsubscribed"]
  /\ UNCHANGED <<radio, sent, queue, missed, yielded, cancelled>>

(* ... and close the radio in the executor.                                *)
Close(s) ==
  /\ pc[s] = "unsubscribed"
  /\ radio' = [radio EXCEPT ![s] = "closed"]
  /\ pc' = [pc EXCEPT ![s] = "ended"]
  /\ UNCHANGED <<sent, receiving, watching, queue, missed, yielded, cancelled>>

Put(listeners, item) ==
  queue' = [s \in Streams |-> IF s \in listeners THEN Append(queue[s], item) ELSE queue[s]]

(* The library's thread: a packet on s's radio, and the loss of it. Every  *)
(* listener of the topic is called; _on_receive() and                      *)
(* _on_connection_closed() ignore which interface it was.                  *)
OnReceive(s) ==
  /\ radio[s] = "open" /\ sent[s] < MaxPackets[s]
  /\ sent' = [sent EXCEPT ![s] = @ + 1]
  /\ Put(receiving, [from |-> s, n |-> sent'[s]])
  /\ UNCHANGED <<pc, radio, receiving, watching, missed, yielded, cancelled>>

OnConnectionClosed(s) ==
  /\ radio[s] = "open"
  /\ radio' = [radio EXCEPT ![s] = "lost"]
  /\ Put(watching, Closed)
  /\ UNCHANGED <<pc, sent, receiving, watching, missed, yielded, cancelled>>

Next ==
  \E s \in Streams :
    \/ MakeInterface(s) \/ SubscribeReceive(s) \/ SubscribeLost(s) \/ Get(s)
    \/ Cancel(s) \/ Unsubscribe(s) \/ Close(s)
    \/ OnReceive(s) \/ OnConnectionClosed(s)

Spec == Init /\ [][Next]_vars

(* The event loop runs its tasks and the executor its threads. *)
Packets(s) == \/ MakeInterface(s) \/ SubscribeReceive(s) \/ SubscribeLost(s)
              \/ Get(s) \/ Unsubscribe(s) \/ Close(s)
Fairness == \A s \in Streams : WF_vars(Packets(s))
FairSpec == Spec /\ Fairness

-----------------------------------------------------------------------------
Items(s) == yielded[s] \o queue[s]
Own(s, items) == {i \in DOMAIN items : items[i] # Closed /\ items[i].from = s}

(* serial_backend.py:7-9, the bridge from the library's threads into       *)
(* asyncio: while a stream is subscribed, the packets of its radio reach   *)
(* its consumer in order and none is lost or repeated; those received      *)
(* before it subscribed are missing.                                       *)
Whole(s, items, first, last) ==
  /\ \A i, j \in Own(s, items) : i < j => items[i].n < items[j].n
  /\ {items[i].n : i \in Own(s, items)} = first .. last
InOrder == \A s \in receiving : Whole(s, Items(s), missed[s] + 1, sent[s])

(* The finally clause, lines 191-194: a stream that has ended, and also    *)
(* one cancelled while it connects, leaves no listener in the library; the *)
(* radio of one that had its listeners is closed.                          *)
NothingLeftBehind ==
  \A s \in Streams :
    /\ pc[s] \in {"ended", "abandoned"} => s \notin receiving \cup watching
    /\ pc[s] = "ended" => radio[s] = "closed"

(* A packet that has reached the queue is yielded unless the stream ends.  *)
Queued(s) == queue[s] # <<>>
QueueDone(s) == queue[s] = <<>> \/ pc[s] = "ended"
PacketsAreYielded == \A s \in Streams : Queued(s) ~> QueueDone(s)

(* interface.py:24, "Yields packets as they arrive. Runs until          *)
(* cancelled."                                                             *)
RunsUntilCancelled == \A s \in Streams : pc[s] = "ended" => s \in cancelled

(* serial_backend.py:3, the backend "Connects directly to a Meshtastic     *)
(* node": what it yields are the packets of that node.                     *)
OwnPackets == \A s \in Streams : \A i \in 1..Len(yielded[s]) : yielded[s][i].from = s
=============================================================================
