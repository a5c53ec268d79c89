------------------------------ MODULE Ingestion ------------------------------
(***************************************************************************)
(* How readings come into the stream: the simulator's fleet and its three  *)
(* transports (simulator/), and the data-ingestion service with its MQTT   *)
(* subscriber, its HTTP route, its CoAP resource and the lifespan around   *)
(* them.  The MQTT broker and the clients' protocol libraries are          *)
(* external: MQTT hands a publication to the broker at least once (QoS 1), *)
(* and the broker to a subscriber that is connected at most once (aiomqtt  *)
(* subscribes with QoS 0 and a clean session).                             *)
(*                                                                         *)
(* An entry of the stream is its rank; entry[i] is the reading it holds.   *)
(***************************************************************************)
EXTENDS RedisStream, Sequences, FiniteSets

CONSTANTS
    Devices,             \* the fleet
    MaxCycles,           \* bound of the model: publish cycles of the fleet
    MaxDelay,            \* _MAX_RECONNECT_DELAY, as a multiple of the base
    MaxOutages,          \* bound of the model: broker outages
    MaxDuplicates,       \* bound of the model: readings the broker takes twice
    IngestionScenarios   \* sets of disruptions, one of which a behaviour has

IngestDisruptions ==
    {"redis",       \* XADD or XGROUP fails, before or after it has taken effect
     "broker",      \* the broker is away from the subscriber
     "duplicates",  \* an acknowledgement of the broker is lost
     "timeouts",    \* a client does not wait for its answer
     "garbage",     \* a payload does not parse
     "restarts"}    \* the service is stopped, or dies, and is started again

ASSUME IngestionAssumption ==
    /\ MaxCycles \in Nat \ {0}
    /\ MaxDelay \in Nat \ {0}
    /\ {MaxOutages, MaxDuplicates} \subseteq Nat
    /\ \A s \in IngestionScenarios : s \subseteq IngestDisruptions

VARIABLES
    transport,   \* settings.transport of the simulator; fixed
    fleet,       \* fleet.cycle under way, fleet.running, fleet.broken
    reading,     \* reading[r]: where it is, the broker's copies, the answer
    entry,       \* the readings behind the stream's entries
    service,     \* "down" or "up"
    groups,      \* how many of the three consumer groups exist
    mqtt,        \* the subscriber: its state, its delay, messages received
    outages,     \* broker outages so far
    ingestFaults

ingestOwn  == <<transport, fleet, reading, entry, service, groups, mqtt, outages, ingestFaults>>
ingestVars == <<streamVars, ingestOwn>>

Readings == Devices \X (1..MaxCycles)
Cycle(r) == r[2]

Unsent == [at |-> "unsent", garbage |-> FALSE, taken |-> 0, answer |-> "none", id |-> 0]

Update(r, new) == reading' = [reading EXCEPT ![r] = new]

May(disruption) == disruption \in ingestFaults

(***************************************************************************)
(* ingestion_service.process: the XADD.  Its outcome decides the answer.   *)
(***************************************************************************)
Added(r) ==
    /\ StreamAdd(FALSE)
    /\ entry' = Append(entry, r)

NotAdded == UNCHANGED <<streamVars, entry>>

-----------------------------------------------------------------------------
(***************************************************************************)
(* FleetManager: _publish_cycle publishes for all devices at once, each in *)
(* a thread, and the next cycle begins when all of them have returned.     *)
(* MqttPublisher.publish only queues; the other two wait for the answer,   *)
(* or give up on it after ten seconds.  stop() lets the cycle finish.      *)
(***************************************************************************)
Returned(r) ==
    IF transport = "mqtt" THEN reading[r].at # "unsent" ELSE reading[r].answer # "none"

CycleDone == \A r \in Readings : Cycle(r) = fleet.cycle => Returned(r)

NextCycle ==
    /\ fleet.running /\ CycleDone
    /\ fleet.cycle < MaxCycles
    /\ fleet' = [fleet EXCEPT !.cycle = @ + 1]
    /\ UNCHANGED <<streamVars, transport, reading, entry, service, groups, mqtt, outages, ingestFaults>>

StopFleet ==
    /\ fleet.running
    /\ fleet' = [fleet EXCEPT !.running = FALSE]
    /\ UNCHANGED <<streamVars, transport, reading, entry, service, groups, mqtt, outages, ingestFaults>>

\* With the service down a request is refused at once: publish returns False.
Publish(r) ==
    /\ reading[r].at = "unsent"
    /\ Cycle(r) = fleet.cycle
    /\ ~fleet.broken
    /\ \E g \in IF May("garbage") THEN BOOLEAN ELSE {FALSE} :
          Update(r, CASE transport = "mqtt" ->
                           [reading[r] EXCEPT !.at = "queued", !.garbage = g]
                      [] transport # "mqtt" /\ service = "up" ->
                           [reading[r] EXCEPT !.at = "request", !.garbage = g]
                      [] OTHER -> [reading[r] EXCEPT !.at = "done", !.answer = "failed"])
    /\ UNCHANGED <<streamVars, transport, fleet, entry, service, groups, mqtt, outages, ingestFaults>>

(***************************************************************************)
(* The client stops waiting while its request is under way.                *)
(* CoapPublisher.publish catches that; RestPublisher.publish catches       *)
(* URLError only, and the timeout ends gather, run and the simulator.      *)
(***************************************************************************)
GiveUp(r) ==
    /\ May("timeouts")
    /\ reading[r].at = "request" /\ reading[r].answer = "none"
    /\ Update(r, [reading[r] EXCEPT !.answer = "gave up"])
    /\ fleet' = IF transport = "rest" THEN [fleet EXCEPT !.running = FALSE, !.broken = TRUE]
                                      ELSE fleet
    /\ UNCHANGED <<streamVars, transport, entry, service, groups, mqtt, outages, ingestFaults>>

(***************************************************************************)
(* ingest_telemetry and render_post: a payload that does not parse is      *)
(* rejected; a failing XADD is answered 500, or 4.00, whether or not it    *)
(* took effect.  The answer reaches a client that still waits.             *)
(***************************************************************************)
Respond(r, answer, id) ==
    Update(r, [reading[r] EXCEPT !.at = "done", !.id = id,
                                 !.answer = IF @ = "none" THEN answer ELSE @])

\* Fault: the exception is logged, as for MQTT, and the answer sent.
OnError_swallowed(r) == Respond(r, "accepted", added + 1)

OnError(r) == Respond(r, "failed", 0)

Process(r) ==
    /\ reading[r].at = "request"
    /\ \/ reading[r].garbage /\ Respond(r, "rejected", 0) /\ NotAdded
       \/ ~reading[r].garbage /\ Added(r) /\ Respond(r, "accepted", added + 1)
       \/ /\ ~reading[r].garbage /\ May("redis")
          /\ Added(r) \/ NotAdded
          /\ OnError(r)
    /\ UNCHANGED <<transport, fleet, service, groups, mqtt, outages, ingestFaults>>

-----------------------------------------------------------------------------
(***************************************************************************)
(* The broker takes a publication, in the order the publisher queued them  *)
(* (one that it takes again comes later), and passes it to the subscriber  *)
(* if that is subscribed; without a session to keep it, it is gone.        *)
(***************************************************************************)
Duplicates ==
    {q \in Readings : reading[q].taken = 2 \/ (reading[q].taken = 1 /\ reading[q].at = "queued")}

EarlierTaken(r) ==
    \A q \in Readings : q[1] = r[1] /\ Cycle(q) < Cycle(r) => reading[q].taken > 0

BrokerTakes(r) ==
    /\ reading[r].at = "queued"
    /\ EarlierTaken(r)
    /\ \/ Update(r, [reading[r] EXCEPT !.at = "done", !.taken = @ + 1])
       \/ /\ May("duplicates") /\ reading[r].taken = 0
          /\ Cardinality(Duplicates) < MaxDuplicates
          /\ Update(r, [reading[r] EXCEPT !.taken = 1])
    /\ mqtt' = IF mqtt.state = "subscribed" THEN [mqtt EXCEPT !.inbox = Append(@, r)] ELSE mqtt
    /\ UNCHANGED <<streamVars, transport, fleet, entry, service, groups, outages, ingestFaults>>

\* main: disconnect() ends paho's loop, with what is queued not yet sent.
DisconnectPublisher ==
    /\ transport = "mqtt" /\ ~fleet.running /\ CycleDone
    /\ \E r \in Readings : reading[r].at = "queued"
    /\ reading' = [r \in Readings |->
           IF reading[r].at = "queued" THEN [reading[r] EXCEPT !.at = "done"] ELSE reading[r]]
    /\ UNCHANGED <<streamVars, transport, fleet, entry, service, groups, mqtt, outages, ingestFaults>>

(***************************************************************************)
(* MQTTSubscriber.run: connect and subscribe, or sleep and double the      *)
(* delay.  A connection that breaks takes the messages not yet handled     *)
(* with it.                                                                *)
(***************************************************************************)
Subscriber(state, delay) == [state |-> state, delay |-> delay, inbox |-> <<>>]

Connect ==
    /\ mqtt.state = "connecting"
    /\ \/ mqtt' = Subscriber("subscribed", 1) /\ UNCHANGED outages
       \/ /\ May("broker") /\ outages < MaxOutages
          /\ outages' = outages + 1
          /\ mqtt' = Subscriber("sleeping", mqtt.delay)
    /\ UNCHANGED <<streamVars, transport, fleet, reading, entry, service, groups, ingestFaults>>

LoseConnection ==
    /\ May("broker") /\ outages < MaxOutages
    /\ mqtt.state = "subscribed"
    /\ outages' = outages + 1
    /\ mqtt' = Subscriber("sleeping", mqtt.delay)
    /\ UNCHANGED <<streamVars, transport, fleet, reading, entry, service, groups, ingestFaults>>

\* Fault: an error leaves the loop.
AfterSleep_ends == "ended"

AfterSleep == "connecting"

Wake ==
    /\ mqtt.state = "sleeping"
    /\ mqtt' = Subscriber(AfterSleep, IF mqtt.delay * 2 < MaxDelay THEN mqtt.delay * 2 ELSE MaxDelay)
    /\ UNCHANGED <<streamVars, transport, fleet, reading, entry, service, groups, outages, ingestFaults>>

(***************************************************************************)
(* _handle_message, one message at a time.  Every error is logged and the  *)
(* message dropped; the loop goes on.                                      *)
(***************************************************************************)
\* Fault: a task for each message.
Turn_any(i) == TRUE

Turn(i) == i = 1

Handle ==
    /\ mqtt.state = "subscribed"
    /\ \E i \in 1..Len(mqtt.inbox) :
          LET r == mqtt.inbox[i] IN
          /\ Turn(i)
          /\ \/ ~reading[r].garbage /\ Added(r)
             \/ (reading[r].garbage \/ May("redis")) /\ NotAdded
          /\ mqtt' = [mqtt EXCEPT !.inbox = SubSeq(@, 1, i - 1) \o SubSeq(@, i + 1, Len(@))]
    /\ UNCHANGED <<transport, fleet, reading, service, groups, outages, ingestFaults>>

-----------------------------------------------------------------------------
(***************************************************************************)
(* lifespan: the three groups, then the subscriber and the CoAP server.    *)
(* An exception ends the process, which Docker starts again; a group that  *)
(* exists is no error.                                                     *)
(***************************************************************************)
Start ==
    /\ service = "down"
    /\ \E g \in groups..3 :
          /\ g = 3 \/ May("redis")
          /\ groups' = g
          /\ service' = IF g = 3 THEN "up" ELSE "down"
          /\ mqtt' = IF g = 3 THEN Subscriber("connecting", 1) ELSE mqtt
    /\ UNCHANGED <<streamVars, transport, fleet, reading, entry, outages, ingestFaults>>

(***************************************************************************)
(* Shutdown stops and cancels the subscriber, in the middle of a message   *)
(* or not; HTTP requests are served first.  A crash spares nothing.        *)
(***************************************************************************)
StopService ==
    /\ May("restarts") /\ service = "up"
    /\ service' = "down"
    /\ mqtt' = Subscriber("ended", 1)
    /\ \/ NotAdded
       \/ mqtt.inbox # <<>> /\ ~reading[Head(mqtt.inbox)].garbage /\ Added(Head(mqtt.inbox))
    /\ reading' = [r \in Readings |->
           IF reading[r].at # "request" THEN reading[r]
           ELSE [reading[r] EXCEPT !.at = "done", !.answer = IF @ = "none" THEN "failed" ELSE @]]
    /\ UNCHANGED <<transport, fleet, groups, outages, ingestFaults>>

-----------------------------------------------------------------------------
IngestInit ==
    /\ StreamInit
    /\ transport \in {"mqtt", "rest", "coap"}
    /\ fleet = [cycle |-> 1, running |-> TRUE, broken |-> FALSE]
    /\ reading = [r \in Readings |-> Unsent]
    /\ entry = <<>>
    /\ service = "down"
    /\ groups = 0
    /\ mqtt = Subscriber("ended", 1)
    /\ outages = 0
    /\ ingestFaults \in IngestionScenarios

FleetStep ==
    \/ NextCycle
    \/ \E r \in Readings : Publish(r) \/ GiveUp(r) \/ BrokerTakes(r)

SubscriberStep == Connect \/ Wake \/ Handle

IngestNext ==
    \/ FleetStep
    \/ StopFleet
    \/ DisconnectPublisher
    \/ \E r \in Readings : Process(r)
    \/ SubscriberStep
    \/ LoseConnection
    \/ Start
    \/ StopService

\* What goes on by itself: publishing, retransmission, reconnecting, serving.
IngestProgress ==
    \/ NextCycle
    \/ \E r \in Readings : Publish(r) \/ BrokerTakes(r) \/ Process(r)
    \/ SubscriberStep
    \/ Start

-----------------------------------------------------------------------------
IngestTypeOK ==
    /\ StreamTypeOK
    /\ Len(entry) <= added
    /\ fleet.cycle \in 1..MaxCycles
    /\ \A r \in Readings :
          /\ reading[r].at \in {"unsent", "queued", "request", "done"}
          /\ reading[r].answer \in {"none", "accepted", "rejected", "failed", "gave up"}
    /\ mqtt.state \in {"connecting", "subscribed", "sleeping", "ended"}
    /\ mqtt.delay \in 1..MaxDelay

Copies(r) == {i \in 1..Len(entry) : entry[i] = r}

(***************************************************************************)
(* An accepted reading is in the stream, under the ID it was answered      *)
(* with.  Nothing is there twice but what the broker took twice; what does *)
(* not parse is not there; and nothing is there before the groups are, of  *)
(* which a consumer's read would be refused.                               *)
(***************************************************************************)
AcceptedIsInStream ==
    /\ \A r \in Readings :
          /\ reading[r].answer = "accepted" => Copies(r) = {reading[r].id}
          /\ Cardinality(Copies(r)) <= IF transport = "mqtt" THEN reading[r].taken ELSE 1
          /\ reading[r].garbage => Copies(r) = {}
    /\ entry # <<>> => groups = 3

(***************************************************************************)
(* A device's readings enter the stream in the order it took them, but for *)
(* one that its client gave up, which the service may still be working on, *)
(* and one that the broker took twice.                                     *)
(***************************************************************************)
DeviceOrderIsKept ==
    \A q, r \in Readings :
        /\ q[1] = r[1] /\ Cycle(q) < Cycle(r)
        /\ Copies(q) # {} /\ Copies(r) # {}
        /\ reading[q].answer # "gave up" /\ reading[q].taken <= 1
        => \E i \in Copies(q) : \A j \in Copies(r) : i < j

(***************************************************************************)
(* Outages end; then the subscriber is back and stays, unless the service  *)
(* is stopped for ever.                                                    *)
(***************************************************************************)
SubscriberComesBack ==
    "restarts" \notin ingestFaults => <>[](mqtt.state = "subscribed")

(***************************************************************************)
(* Without disruptions, what is received in a subscription is stored, and  *)
(* what is sent to the service while it is up is accepted.                 *)
(***************************************************************************)
ReceivedIsStored ==
    \A r \in Readings :
        ingestFaults = {} /\ (reading[r].at = "request" \/ \E i \in 1..Len(mqtt.inbox) : mqtt.inbox[i] = r)
        ~> Copies(r) # {}

=============================================================================
