------------------------------ MODULE MCClients ------------------------------
(* The clients of other processes and machines that a product holds on to:   *)
(* the LLM router with its fallback chain; the memory client, against a      *)
(* service whose health checks may fail ("flaky") and against one that is up *)
(* when it is asked ("healthy"), on recall() calls, which are the ones it    *)
(* recovers from by itself; Meshtastic radios, an MQTT broker and the signal *)
(* bus, whose packets, messages and events cross into an event loop;         *)
(* ActivityPub deliveries; the feedback router and its Forgejo server.       *)
(* They share nothing: a behaviour runs the part that `part` names.          *)
EXTENDS Naturals

CONSTANTS RouterCalls, Backends, Config, Orders, Reliable,  \* the LLM router
          Calls, Recalls, MaxFailures,                      \* the memory client
          base, roof, Radios, MaxPackets,                   \* Meshtastic
          Patterns, MaxDrops, MaxMsgs,                      \* MQTT
          Producers, Subscribers, QueueSize, BusEvents,     \* the signal bus
          Deliveries, MaxTries, MaxRotations,               \* ActivityPub
          Submissions, PageSize,                            \* feedback
          caller, p, c,  \* the call, producer and subscriber that are followed
          None

VARIABLES part,
          followed,  \* the number of an event, chosen once, that Progress is about
          call, routerPc, at, leases, reply, outcome, tags, pulled,
          available, client, fails, retry, pc, life,
          radioPc, radio, radioSent, receiving, watching, radioQueue, missed, yielded, cancelled,
          bridge, installed, consumer, routes, mqttPc, todo, known, connected, subs, inbox, brokerUp,
          drops, called, handled,
          subscribers, queue, ready, sent, targets, gen, received, dropped,
          shape, proxy, keyFile, actor, fedPc, tries, fedReply, signature, posts, fetched, fedStatus,
          delivered,
          token, demo, type, feedPc, existing, ids, feedStatus, number, labels, issues

(* A vision service and two openai_compat services started by cf-orch, one  *)
(* of which may fail, a static server, the Anthropic API, a disabled entry. *)
MCBackends == {"vision", "voice", "gpu", "ollama", "cloud", "old"}
MCConfig ==
  [b \in MCBackends |->
     [type    |-> CASE b = "vision" -> "vision_service" [] b = "cloud" -> "anthropic"
                    [] OTHER -> "openai_compat",
      enabled |-> b # "old",
      images  |-> b = "cloud",
      orch    |-> b \in {"vision", "voice", "gpu"}]]
\* Two packets of the radio that is followed, one of the other.
MCPackets == [s \in {base, roof} |-> IF s = base THEN 2 ELSE 1]
MCOrders == {<<"old", "vision", "voice", "gpu", "cloud">>, <<"ollama", "gpu", "vision">>}

Router == INSTANCE LLMRouter
  WITH Calls <- RouterCalls, pc <- routerPc
Flaky == INSTANCE MemoryClient
  WITH ConnectMayFail <- TRUE, Concurrent <- TRUE, CanClose <- TRUE
Healthy == INSTANCE MemoryClient
  WITH Recalls <- Calls, ConnectMayFail <- FALSE, Concurrent <- TRUE, CanClose <- FALSE
Radio == INSTANCE Meshtastic
  WITH Streams <- Radios, pc <- radioPc, sent <- radioSent, queue <- radioQueue
Mqtt == INSTANCE MqttClient WITH pc <- mqttPc
Bus == INSTANCE SignalBus
  WITH Clients <- Subscribers, MaxEvents <- BusEvents
Federation == INSTANCE Federation
  WITH pc <- fedPc, reply <- fedReply, inbox <- posts,
       status <- fedStatus, handled <- delivered
Feedback == INSTANCE Feedback WITH pc <- feedPc, status <- feedStatus

ASSUME ClientsAssumption ==
  /\ Router!ConstantsOK /\ Flaky!ConstantsOK /\ Healthy!ConstantsOK
  /\ Radio!ConstantsOK /\ Mqtt!ConstantsOK /\ Bus!ConstantsOK
  /\ Federation!ConstantsOK /\ Feedback!ConstantsOK
  /\ base \in Radios

routerVars == <<call, routerPc, at, leases, reply, outcome, tags, pulled>>
memoryVars == <<available, client, fails, retry, pc, life>>
radioVars == <<radioPc, radio, radioSent, receiving, watching, radioQueue, missed, yielded, cancelled>>
mqttVars == 
  <<bridge, installed, consumer, routes, mqttPc, todo, known, connected, subs, inbox, brokerUp,
    drops, called, handled>>
busVars == <<subscribers, queue, ready, sent, targets, gen, received, dropped>>
fedVars == 
  <<shape, proxy, keyFile, actor, fedPc, tries, fedReply, signature, posts, fetched, fedStatus,
    delivered>>
feedVars == <<token, demo, type, feedPc, existing, ids, feedStatus, number, labels, issues>>
vars == <<part, followed, routerVars, memoryVars, radioVars, mqttVars, busVars, fedVars, feedVars>>

notRouter == <<part, followed, memoryVars, radioVars, mqttVars, busVars, fedVars, feedVars>>
notMemory == <<part, followed, routerVars, radioVars, mqttVars, busVars, fedVars, feedVars>>
notRadio == <<part, followed, routerVars, memoryVars, mqttVars, busVars, fedVars, feedVars>>
notMqtt == <<part, followed, routerVars, memoryVars, radioVars, busVars, fedVars, feedVars>>
notBus == <<part, followed, routerVars, memoryVars, radioVars, mqttVars, fedVars, feedVars>>
notFed == <<part, followed, routerVars, memoryVars, radioVars, mqttVars, busVars, feedVars>>
notFeed == <<part, followed, routerVars, memoryVars, radioVars, mqttVars, busVars, fedVars>>

RouterSteps == part = "router" /\ Router!Next /\ UNCHANGED notRouter
FlakySteps == part = "flaky" /\ Flaky!Next /\ UNCHANGED notMemory
HealthySteps == part = "healthy" /\ Healthy!Next /\ UNCHANGED notMemory
RadioSteps == part = "radio" /\ Radio!Next /\ UNCHANGED notRadio
MqttSteps == part = "mqtt" /\ Mqtt!Next /\ UNCHANGED notMqtt
BusSteps == part = "bus" /\ Bus!Next /\ UNCHANGED notBus
FederationSteps == part = "federation" /\ Federation!Next /\ UNCHANGED notFed
FeedbackSteps == part = "feedback" /\ Feedback!Next /\ UNCHANGED notFeed

\* A part that does not run has one initial state.
Resting ==
  /\ part # "router" =>
       pulled = {} /\ call = [k \in RouterCalls |->
         [kind |-> "embed", images |-> FALSE, order |-> CHOOSE o \in Orders : TRUE]]
  /\ part # "mqtt" => brokerUp = TRUE /\ bridge = TRUE /\ installed = TRUE
  /\ part # "federation" =>
       proxy = "nothing" /\ shape = [d \in Deliveries |-> [handler |-> TRUE, query |-> FALSE]]
  /\ part # "feedback" =>
       /\ token = TRUE /\ demo = TRUE
       /\ type = [s \in Submissions |-> "bug"] /\ labels = {}
Init ==
  /\ part \in {"router", "flaky", "healthy", "radio", "mqtt", "bus", "federation", "feedback"}
  /\ followed \in IF part = "bus" THEN 1..BusEvents ELSE {1}
  /\ Resting
  /\ Router!Init /\ Flaky!Init /\ Radio!Init /\ Mqtt!Init /\ Bus!Init
  /\ Federation!Init /\ Feedback!Init
Next == \/ RouterSteps \/ FlakySteps \/ HealthySteps \/ RadioSteps \/ MqttSteps
        \/ BusSteps \/ FederationSteps \/ FeedbackSteps

(* The fairness of the parts, each where it runs.                            *)
InRouter(A) == part = "router" /\ A /\ UNCHANGED notRouter
InHealthy(A) == part = "healthy" /\ A /\ UNCHANGED notMemory
InRadio(A) == part = "radio" /\ A /\ UNCHANGED notRadio
InMqtt(A) == part = "mqtt" /\ A /\ UNCHANGED notMqtt
InBus(A) == part = "bus" /\ A /\ UNCHANGED notBus
Fairness ==
  /\ \A k \in RouterCalls : WF_vars(InRouter(Router!Work(k)))
  /\ WF_vars(InHealthy(Healthy!CooldownElapses))
  /\ WF_vars(InHealthy(Healthy!Connect)) /\ WF_vars(InHealthy(Healthy!Connected))
  /\ WF_vars(InHealthy(\E k \in Calls : Healthy!CallReconnects(k)))
  /\ \A k \in Calls :
       /\ WF_vars(InHealthy(Healthy!ReconnectOk(k)))
       /\ WF_vars(InHealthy(Healthy!CallSucceeds(k) \/ Healthy!CallFails(k)))
  /\ \A s \in Radios : WF_vars(InRadio(Radio!Packets(s)))
  /\ WF_vars(InMqtt(Mqtt!Client)) /\ WF_vars(InMqtt(Mqtt!Recover))
  /\ WF_vars(InMqtt(Mqtt!Consumer))
  /\ WF_vars(InBus(Bus!EnqueueDropOldest)) /\ WF_vars(InBus(Bus!Deliver(c)))
  /\ \A k \in Producers : WF_vars(InBus(Bus!HandOver(k, c)))
Spec == Init /\ [][Next]_vars /\ Fairness

-----------------------------------------------------------------------------
(* What is begun gets done: a router call ends; a memory client that is      *)
(* disabled comes back; a packet in a queue is yielded; the MQTT client is   *)
(* connected again and again, or ends; an event reaches its subscriber.      *)
(* Calls, radios and producers are alike, so one of each is followed.        *)
Waits == CASE part = "router" -> Router!Begun(caller)
           [] part = "healthy" -> Healthy!Tripped
           [] part = "radio" -> Radio!Queued(base)
           [] part = "mqtt" -> TRUE
           [] part = "bus" -> Bus!Targeted(p, c, followed)
           [] OTHER -> FALSE
Served == CASE part = "router" -> Router!Ended(caller)
            [] part = "healthy" -> available
            [] part = "radio" -> Radio!QueueDone(base)
            [] part = "mqtt" -> Mqtt!Settled
            [] part = "bus" -> Bus!EventDone(p, c, followed)
            [] OTHER -> TRUE
ClientsProgress == Waits ~> Served

(* The properties of the parts. *)
LeasesGivenBack == Router!LeasesGivenBack
ReliableIsNotBypassed == Router!ReliableIsNotBypassed
OrderPerProducer == Bus!OrderPerProducer
DeliveriesAreTrue == Federation!DeliveriesAreTrue
FeedbackIsWhole == Feedback!FeedbackIsWhole

(* The links from threads and other machines: a producer's events reach a    *)
(* subscriber in order, a subscribed radio's packets whole and in order, and *)
(* no stream leaves a listener behind; every connection to the broker has    *)
(* every subscription; a memory client that is available has failed less     *)
(* often than _MAX_FAILURES, and only calls that were in flight count on     *)
(* after it was disabled.                                                    *)
LinksHold ==
  /\ OrderPerProducer
  /\ Radio!InOrder /\ Radio!NothingLeftBehind
  /\ Mqtt!EveryConnectionSubscribes
  /\ Flaky!FailuresDisable
=============================================================================
