-------------------------------- MODULE MCEdge --------------------------------
(***************************************************************************)
(* The edge of the gateway in one run: the HTTP gateway with its API keys, *)
(* the way readings come in, and the dashboard that watches the stream.    *)
(* A behaviour exercises one of them; the others are idle.  The dashboard  *)
(* has its failures one kind at a time, its feed's while no button is      *)
(* pressed, docker's while nothing is added.                               *)
(***************************************************************************)
EXTENDS Gateway, Ingestion, Dashboard

VARIABLE part    \* the one a behaviour exercises; fixed

\* One key, whose name is that of the user with the token: they share counters.
CONSTANTS k1, token, ann
TwoCredentials == {k1, token}
OneUser        == [c \in TwoCredentials |-> ann]
ByRole         == [c \in TwoCredentials |-> IF c = k1 THEN 2 ELSE 1]

RequestFailures == {{"redis"}, {"upstream", "crash"}, {}}
IngestFailures  == {{"duplicates", "broker"}, {"redis", "timeouts"}, {"garbage", "restarts"}, {}}
FeedFailures    == {{"redis", "page"}, {"docker"}, {}}

edgeVars == <<gatewayVars, streamVars, ingestOwn, dashboardOwn, part>>

Init ==
    /\ part \in {"gateway", "ingestion", "dashboard"}
    /\ GatewayInit
    /\ part = "gateway" \/ gatewayFaults = {}
    /\ IngestInit
    /\ part = "ingestion" \/ (ingestFaults = {} /\ transport = "mqtt")
    /\ DashboardInit
    /\ part = "dashboard" \/ dashboardFaults = {}

Next ==
    /\ UNCHANGED part
    /\ \/ /\ part = "gateway"
          /\ GatewayNext
          /\ UNCHANGED <<streamVars, ingestOwn, dashboardOwn>>
       \/ /\ part = "ingestion"
          /\ IngestNext
          /\ UNCHANGED <<gatewayVars, dashboardOwn>>
       \/ /\ part = "dashboard"
          /\ \/ DashboardNext
             \/ (StreamAdd(FALSE) \/ StreamEvict) /\ UNCHANGED dashboardOwn
          /\ "redis" \in dashboardFaults => UNCHANGED command
          /\ "docker" \in dashboardFaults => UNCHANGED added
          /\ UNCHANGED <<gatewayVars, ingestOwn>>

Spec ==
    /\ Init
    /\ [][Next]_edgeVars
    /\ WF_gatewayVars(part = "gateway" /\ GatewayProgress)
    /\ WF_ingestVars(part = "ingestion" /\ IngestProgress)
    /\ WF_dashboardVars(part = "dashboard" /\ DashboardProgress)

(***************************************************************************)
(* Requests are answered, the subscriber comes back after outages, what it *)
(* receives is stored, and the feed catches up.                            *)
(***************************************************************************)
EdgeAnswers ==
    /\ EveryRequestIsAnswered
    /\ part = "ingestion" => SubscriberComesBack
    /\ ReceivedIsStored
    /\ part = "dashboard" => FeedCatchesUp

=============================================================================
