----------------------------- MODULE SignalBus ------------------------------
(***************************************************************************)
(* circuitforge_core/signal_bus/bus.py: producer threads publish events,   *)
(* the event loop moves them into one bounded queue per SSE subscriber, a  *)
(* generator per subscriber takes them out until its client disconnects.   *)
(* Events are pairs <<producer, number>>.                                  *)
(***************************************************************************)
EXTENDS Naturals, Sequences, SequencesExt

CONSTANTS
  Producers, Clients,
  QueueSize,   \* queue_size
  MaxEvents    \* bound on the events one producer publishes

ConstantsOK == QueueSize \in Nat \ {0} /\ MaxEvents \in Nat

VARIABLES
  subscribers,  \* the clients in _subscribers
  queue,        \* per client its asyncio.Queue
  ready,        \* callbacks handed over by call_soon_threadsafe, in order
  sent,         \* per producer, the number of events published so far
  targets,      \* per producer, the snapshot it still has to go through
  gen,          \* per client, its generator: "none", "created", "running", "closed"
  received,     \* history: per client, the events yielded to it
  dropped       \* history: per client, the events dropped from its queue

vars == <<subscribers, queue, ready, sent, targets, gen, received, dropped>>

Init ==
  /\ subscribers = {}
  /\ queue = [c \in Clients |-> <<>>]
  /\ ready = <<>>
  /\ sent = [p \in Producers |-> 0]
  /\ targets = [p \in Producers |-> {}]
  /\ gen = [c \in Clients |-> "none"]
  /\ received = [c \in Clients |-> <<>>]
  /\ dropped = [c \in Clients |-> {}]

(* subscribe(): queue registered under the lock, generator not yet entered. *)
Subscribe(c) ==
  /\ gen[c] = "none"
  /\ subscribers' = subscribers \cup {c}
  /\ gen' = [gen EXCEPT ![c] = "created"]
  /\ UNCHANGED <<queue, ready, sent, targets, received, dropped>>

(* publish(): the snapshot under the lock; no loop before the first subscribe. *)
Publish(p) ==
  /\ targets[p] = {}
  /\ sent[p] < MaxEvents
  /\ \E c \in Clients : gen[c] # "none"
  /\ sent' = [sent EXCEPT ![p] = @ + 1]
  /\ targets' = [targets EXCEPT ![p] = subscribers]
  /\ UNCHANGED <<subscribers, queue, ready, gen, received, dropped>>

(* One call_soon_threadsafe() of the loop over the snapshot. *)
\* Mutant: the callback overtakes those that wait already.
HandOverFirst(p, c) ==
  /\ c \in targets[p]
  /\ ready' = <<[client |-> c, event |-> <<p, sent[p]>>]>> \o ready
  /\ targets' = [targets EXCEPT ![p] = @ \ {c}]
  /\ UNCHANGED <<subscribers, queue, sent, gen, received, dropped>>

HandOver(p, c) ==
  /\ c \in targets[p]
  /\ ready' = Append(ready, [client |-> c, event |-> <<p, sent[p]>>])
  /\ targets' = [targets EXCEPT ![p] = @ \ {c}]
  /\ UNCHANGED <<subscribers, queue, sent, gen, received, dropped>>

(* The loop runs _enqueue_drop_oldest. *)
EnqueueDropOldest ==
  /\ ready # <<>>
  /\ LET to == Head(ready).client
         full == Len(queue[to]) = QueueSize
     IN /\ queue' = [queue EXCEPT ![to] = Append(IF full THEN Tail(@) ELSE @, Head(ready).event)]
        /\ dropped' = [dropped EXCEPT ![to] = IF full THEN @ \cup {Head(queue[to])} ELSE @]
  /\ ready' = Tail(ready)
  /\ UNCHANGED <<subscribers, sent, targets, gen, received>>

(* The response starts iterating; a keepalive changes nothing. *)
Iterate(c) ==
  /\ gen[c] = "created"
  /\ gen' = [gen EXCEPT ![c] = "running"]
  /\ UNCHANGED <<subscribers, queue, ready, sent, targets, received, dropped>>

Deliver(c) ==
  /\ gen[c] = "running"
  /\ queue[c] # <<>>
  /\ received' = [received EXCEPT ![c] = Append(@, Head(queue[c]))]
  /\ queue' = [queue EXCEPT ![c] = Tail(@)]
  /\ UNCHANGED <<subscribers, ready, sent, targets, gen, dropped>>

(* aclose(): the finally clause runs only in a generator that was entered. *)
Disconnect(c) ==
  /\ gen[c] \in {"created", "running"}
  /\ subscribers' = IF gen[c] = "running" THEN subscribers \ {c} ELSE subscribers
  /\ gen' = [gen EXCEPT ![c] = "closed"]
  /\ UNCHANGED <<queue, ready, sent, targets, received, dropped>>

Next ==
  \/ \E p \in Producers : Publish(p) \/ \E c \in Clients : HandOver(p, c)
  \/ EnqueueDropOldest
  \/ \E c \in Clients : Subscribe(c) \/ Iterate(c) \/ Deliver(c) \/ Disconnect(c)

Spec == Init /\ [][Next]_vars

(* Threads and loop go on, and an iterated response takes what is queued.   *)
Fairness ==
  /\ WF_vars(EnqueueDropOldest)
  /\ \A p \in Producers, c \in Clients : WF_vars(HandOver(p, c))
  /\ \A c \in Clients : WF_vars(Deliver(c))
FairSpec == Spec /\ Fairness

-----------------------------------------------------------------------------
Stream(c) == received[c] \o queue[c]

(* Whatever is dropped and however producers interleave, a client gets the  *)
(* events of one producer in the order they were published, none twice.     *)
OrderPerProducer ==
  \A c \in Clients : \A i, j \in DOMAIN Stream(c) :
    i < j /\ Stream(c)[i][1] = Stream(c)[j][1] => Stream(c)[i][2] < Stream(c)[j][2]

(* A slow client loses old events, never new ones: of one producer nothing  *)
(* that is still queued is older than something that was dropped.           *)
DropsOldestFirst ==
  \A c \in Clients : Len(queue[c]) <= QueueSize /\
    \A e \in dropped[c], i \in DOMAIN queue[c] : queue[c][i][1] = e[1] => e[2] < queue[c][i][2]

(* An event whose snapshot holds a client reaches it, is dropped for newer  *)
(* ones, or the client goes away.                                           *)
Targeted(p, c, n) == c \in targets[p] /\ sent[p] = n
EventDone(p, c, n) == gen[c] # "running" \/ <<p, n>> \in ToSet(received[c]) \cup dropped[c]
EveryTargetIsServed ==
  \A p \in Producers, c \in Clients, n \in 1 .. MaxEvents :
    Targeted(p, c, n) ~> EventDone(p, c, n)

-----------------------------------------------------------------------------
(* subscribe(): "The subscriber is removed automatically when the client    *)
(* disconnects."                                                            *)
RemovedWhenDisconnected == \A c \in Clients : gen[c] = "closed" => c \notin subscribers
=============================================================================
