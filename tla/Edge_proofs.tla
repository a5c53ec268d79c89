----------------------------- MODULE Edge_proofs -----------------------------
(***************************************************************************)
(* Proofs about the edge services MCEdge composes, each for any value of   *)
(* its constants: the gateway (API keys, forwarded requests, rate limit),  *)
(* ingestion (what the stream holds of what the service accepted, and the  *)
(* order of a device's readings in it), and the dashboard (its live feed   *)
(* and its stack commands).                                                *)
(***************************************************************************)
EXTENDS Gateway, Ingestion, Dashboard, FiniteSetTheorems, FunctionTheorems, SequenceTheorems,
        TLAPS

(***************************************************************************)
(* The gateway's API keys: the two entries of a key and what its admin was *)
(* told agree.                                                             *)
(***************************************************************************)
\* The entries a key may have, by how far its admin's calls have come.
EntriesAt(stage) ==
    CASE stage \in {"absent", "storing", "revoked"} -> {{}}
      [] stage = "indexing"                         -> {{"raw"}}
      [] stage = "issued"                           -> {{"raw", "index"}}
      [] stage \in {"deleting", "unsure"}           -> {{}, {"raw", "index"}}
      [] stage = "failed"                           -> {{}, {"raw"}, {"raw", "index"}}

KeysInv ==
    /\ key \in [ApiKeys -> SUBSET {"raw", "index"}]
    /\ admin \in [ApiKeys -> Stages]
    /\ \A k \in ApiKeys : key[k] \in EntriesAt(admin[k])

LEMMA KeysInvInit == GatewayInit => KeysInv
BY DEF GatewayInit, KeysInv, Stages, EntriesAt

LEMMA KeysInvStore ==
    ASSUME KeysInv, NEW k \in ApiKeys, StoreKey(k) \/ StoreIndex(k)
    PROVE  KeysInv'
<1>1. CASE StoreKey(k)
  <2>1. key[k] = {}
    BY <1>1 DEF StoreKey, Store, KeysInv, EntriesAt
  <2>2. /\ key' \in {key, [key EXCEPT ![k] = {"raw"}]}
        /\ \/ admin' = [admin EXCEPT ![k] = "failed"]
           \/ /\ admin' = [admin EXCEPT ![k] = "indexing"]
              /\ key' = [key EXCEPT ![k] = {"raw"}]
    BY <1>1, <2>1 DEF StoreKey, Store, KeysInv
  <2> QED
    BY <2>1, <2>2 DEF KeysInv, EntriesAt, Stages
<1>2. CASE StoreIndex(k)
  <2>1. key[k] = {"raw"}
    BY <1>2 DEF StoreIndex, Store, KeysInv, EntriesAt
  <2>2. /\ key' \in {key, [key EXCEPT ![k] = {"raw", "index"}]}
        /\ \/ admin' = [admin EXCEPT ![k] = "failed"]
           \/ /\ admin' = [admin EXCEPT ![k] = "issued"]
              /\ key' = [key EXCEPT ![k] = {"raw", "index"}]
    <3>1. key[k] \cup {"index"} = {"raw", "index"}
      BY <2>1
    <3> QED
      BY <1>2, <3>1 DEF StoreIndex, Store, KeysInv
  <2> QED
    BY <2>1, <2>2 DEF KeysInv, EntriesAt, Stages
<1> QED
  BY <1>1, <1>2

LEMMA KeysInvDelete ==
    ASSUME KeysInv, NEW k \in ApiKeys,
           CreateKey(k) \/ FindKey(k) \/ DeleteKey(k)
    PROVE  KeysInv'
<1>1. CASE CreateKey(k)
  BY <1>1 DEF CreateKey, KeysInv, EntriesAt, Stages
<1>2. CASE FindKey(k)
  <2>1. key[k] \in {{}, {"raw", "index"}}
    BY <1>2 DEF FindKey, KeysInv, EntriesAt
  <2>2. CASE "index" \in key[k]
    BY <1>2, <2>1, <2>2 DEF FindKey, KeysInv, EntriesAt, Stages
  <2>3. CASE "index" \notin key[k]
    <3>1. key[k] = {}
      BY <2>1, <2>3
    <3> QED
      BY <1>2, <2>3, <3>1 DEF FindKey, KeysInv, EntriesAt, Stages
  <2> QED
    BY <2>2, <2>3
<1>3. CASE DeleteKey(k)
  <2>1. key[k] \in {{}, {"raw", "index"}}
    BY <1>3 DEF DeleteKey, KeysInv, EntriesAt
  <2> QED
    BY <1>3, <2>1 DEF DeleteKey, Remains, KeysInv, EntriesAt, Stages
<1> QED
  BY <1>1, <1>2, <1>3

LEMMA KeysInvCrash ==
    ASSUME KeysInv, GatewayCrash
    PROVE  KeysInv'
<1> SUFFICES ASSUME NEW k \in ApiKeys
             PROVE  admin'[k] \in Stages /\ key'[k] \in EntriesAt(admin'[k])
  BY DEF KeysInv, GatewayCrash
<1>1. key'[k] = key[k] /\ key[k] \in EntriesAt(admin[k]) /\ admin[k] \in Stages
  BY DEF KeysInv, GatewayCrash
<1>2. admin'[k] = CASE admin[k] \in {"storing", "indexing"} -> "failed"
                    [] admin[k] = "deleting" -> "unsure"
                    [] OTHER -> admin[k]
  BY DEF KeysInv, GatewayCrash
<1> QED
  BY <1>1, <1>2 DEF EntriesAt, Stages

LEMMA KeysInvNext ==
    ASSUME KeysInv, [GatewayNext]_gatewayVars
    PROVE  KeysInv'
<1>1. CASE KeysNext
  BY <1>1, KeysInvStore, KeysInvDelete DEF KeysNext
<1>2. CASE GatewayCrash
  BY <1>2, KeysInvCrash
<1>3. ASSUME UNCHANGED <<key, admin>>  PROVE KeysInv'
  BY <1>3 DEF KeysInv
<1>4. ASSUME NEW r \in Requests, Arrive(r) \/ Step(r)
      PROVE  UNCHANGED <<key, admin>>
  BY <1>4 DEF Arrive, Step, Lookup, Count, Expire, Answer, Raise, Fallback, Leave
<1>5. ASSUME NEW u \in Users, NEW w \in Windows, Forget(u, w)
      PROVE  UNCHANGED <<key, admin>>
  BY <1>5 DEF Forget
<1>6. CASE NextWindow \/ UNCHANGED gatewayVars
  BY <1>6, <1>3 DEF NextWindow, gatewayVars
<1> QED
  BY <1>1, <1>2, <1>3, <1>4, <1>5, <1>6 DEF GatewayNext

(***************************************************************************)
(* A key that was handed out works and can be revoked until an admin sets  *)
(* out to do so, one reported revoked works no more, and a key that can be *)
(* revoked exists, whichever commands failed and wherever the gateway died *)
(* in create_api_key and revoke_api_key.                                   *)
(***************************************************************************)
THEOREM KeysAlwaysAgree ==
    GatewayInit /\ [][GatewayNext]_gatewayVars => []KeysAgree
<1>1. KeysInv => KeysAgree
  <2> SUFFICES ASSUME KeysInv, NEW k \in ApiKeys
               PROVE  /\ admin[k] = "issued" => key[k] = {"raw", "index"}
                      /\ admin[k] = "revoked" => key[k] = {}
                      /\ "index" \in key[k] => "raw" \in key[k]
    BY DEF KeysAgree
  <2>1. key[k] \in EntriesAt(admin[k]) /\ admin[k] \in Stages
    BY DEF KeysInv
  <2> QED
    BY <2>1 DEF EntriesAt, Stages
<1> QED
  BY <1>1, KeysInvInit, KeysInvNext, PTL

RequestFields ==
    {"at", "cred", "late", "window", "counted", "runs", "raised", "again", "answer"}

Before == {"none", "lookup", "count", "expire"}    \* no handler has run

RequestInv(r) ==
    LET q == request[r] IN
    /\ q.at \in Places /\ q.runs \in 0..2 /\ q.raised \in 0..2
    /\ q.at # "none" => q.cred \in Credentials
    /\ q.window \in 0..now
    /\ q.at \in Before => /\ q.runs = 0 /\ q.raised = 0
                          /\ q.again = FALSE /\ q.counted = FALSE /\ q.answer = "none"
    /\ q.at = "handler" => /\ q.runs = q.raised + 1 /\ q.answer = "none"
                           /\ q.again = FALSE => q.raised = 0
    /\ q.at = "fallback" => q.runs = q.raised /\ q.runs <= 1 /\ q.answer = "none"
    /\ q.runs = 2 => q.raised > 0
    /\ q.answer \in {"unauthorized", "limited"} => q.runs = 0
    /\ q.late => /\ q.at \in {"lookup", "done"} /\ q.runs = 0
                 /\ q.cred \in ApiKeys /\ admin[q.cred] = "revoked"

RequestsInv ==
    /\ DOMAIN request = Requests
    /\ now \in Nat
    /\ \A r \in Requests : DOMAIN request[r] = RequestFields /\ RequestInv(r)

Keeps(r, changed) ==
    \A f \in RequestFields \ changed : request'[r][f] = request[r][f]

LEMMA RequestsInvInit == GatewayInit => RequestsInv
<1> SUFFICES ASSUME GatewayInit  PROVE RequestsInv
  OBVIOUS
<1>1. now = 0 /\ DOMAIN request = Requests
  BY DEF GatewayInit
<1>2. ASSUME NEW r \in Requests
      PROVE  DOMAIN request[r] = RequestFields /\ RequestInv(r)
  <2>1. DOMAIN request[r] = RequestFields
    BY DEF GatewayInit, Arrived, RequestFields
  <2>2. /\ request[r].at = "none" /\ request[r].answer = "none" /\ request[r].window = 0
        /\ request[r].runs = 0 /\ request[r].raised = 0 /\ request[r].again = FALSE
        /\ request[r].counted = FALSE /\ request[r].late = FALSE
    BY DEF GatewayInit, Arrived
  <2> QED
    BY <1>1, <2>1, <2>2 DEF RequestInv, Places, Before
<1> QED
  BY <1>1, <1>2 DEF RequestsInv

LEMMA RequestsInvArrive ==
    ASSUME RequestsInv, NEW r \in Requests, Arrive(r)
    PROVE  RequestsInv'
<1>1. PICK c \in KnownKeys \cup (Credentials \ ApiKeys) :
          request' = [request EXCEPT ![r] =
              IF c \in ApiKeys THEN Arrived(c, "lookup", admin[c] = "revoked")
                               ELSE Arrived(c, "count", FALSE)]
  BY DEF Arrive
<1>2. c \in Credentials
  BY GatewayAssumption DEF KnownKeys
<1>3. UNCHANGED <<now, admin>> /\ DOMAIN request' = Requests
  BY <1>1 DEF Arrive, RequestsInv
<1>4. ASSUME NEW s \in Requests, s # r
      PROVE  (DOMAIN request[s] = RequestFields /\ RequestInv(s))'
  BY <1>1, <1>3, <1>4 DEF RequestsInv, RequestInv
<1>5. (DOMAIN request[r] = RequestFields /\ RequestInv(r))'
  <2>1. DOMAIN request'[r] = RequestFields
    BY <1>1 DEF RequestsInv, RequestFields, Arrived
  <2>2. /\ request'[r].cred = c /\ request'[r].window = now
        /\ request'[r].runs = 0 /\ request'[r].raised = 0 /\ request'[r].again = FALSE
        /\ request'[r].counted = FALSE /\ request'[r].answer = "none"
    BY <1>1 DEF RequestsInv, Arrived
  <2>3. \/ /\ request'[r].at = "lookup" /\ c \in ApiKeys
           /\ (request'[r].late => admin[c] = "revoked")
        \/ request'[r].at = "count" /\ request'[r].late = FALSE
    BY <1>1 DEF RequestsInv, Arrived
  <2>4. now \in Nat
    BY DEF RequestsInv
  <2>5. CASE /\ request'[r].at = "lookup" /\ c \in ApiKeys
             /\ (request'[r].late => admin[c] = "revoked")
    BY <1>2, <1>3, <2>1, <2>2, <2>4, <2>5 DEF RequestInv, Places, Before
  <2>6. CASE request'[r].at = "count" /\ request'[r].late = FALSE
    BY <1>2, <1>3, <2>1, <2>2, <2>4, <2>6 DEF RequestInv, Places, Before
  <2> QED
    BY <2>3, <2>5, <2>6
<1> QED
  BY <1>3, <1>4, <1>5 DEF RequestsInv

(***************************************************************************)
(* What a step of a request does to it: it leaves the fields that are not  *)
(* named, all the other requests, the keys and the window.                 *)
(***************************************************************************)
LEMMA StepEffects ==
    ASSUME RequestsInv, NEW r \in Requests
    PROVE  /\ Step(r) => /\ UNCHANGED <<key, admin, now>>
                         /\ DOMAIN request' = Requests
                         /\ DOMAIN request'[r] = RequestFields
                         /\ \A s \in Requests \ {r} : request'[s] = request[s]
           /\ \A place : Goto(r, place) => request'[r].at = place /\ Keeps(r, {"at"})
           /\ \A answer : Finish(r, answer) =>
                 /\ request'[r].at = "done" /\ request'[r].answer = answer
                 /\ Keeps(r, {"at", "answer"})
           /\ \A n : Judge(r, n) =>
                 \/ Finish(r, "limited")
                 \/ /\ request'[r].at = "handler" /\ request'[r].runs = request[r].runs + 1
                    /\ request'[r].counted = (request[r].window = now)
                    /\ Keeps(r, {"at", "runs", "counted"})
<1> USE DEF RequestsInv
<1>1. Step(r) => UNCHANGED <<key, admin, now>>
  BY DEF Step, Lookup, Count, Expire, Answer, Raise, Fallback, Leave
<1>2. \A place : Goto(r, place) =>
          /\ request'[r].at = place /\ Keeps(r, {"at"})
          /\ \A s \in Requests \ {r} : request'[s] = request[s]
          /\ DOMAIN request' = Requests /\ DOMAIN request'[r] = RequestFields
  BY DEF Goto, Keeps, RequestFields
<1>3. \A answer : Finish(r, answer) =>
          /\ request'[r].at = "done" /\ request'[r].answer = answer
          /\ Keeps(r, {"at", "answer"})
          /\ \A s \in Requests \ {r} : request'[s] = request[s]
          /\ DOMAIN request' = Requests /\ DOMAIN request'[r] = RequestFields
  BY DEF Finish, Keeps, RequestFields
<1>4. \A n : Judge(r, n) =>
          /\ \A s \in Requests \ {r} : request'[s] = request[s]
          /\ DOMAIN request' = Requests /\ DOMAIN request'[r] = RequestFields
  BY <1>3 DEF Judge, RequestFields
<1>5. \A n : Judge(r, n) =>
          \/ Finish(r, "limited")
          \/ /\ request'[r].at = "handler" /\ request'[r].runs = request[r].runs + 1
             /\ request'[r].counted = (request[r].window = now)
             /\ Keeps(r, {"at", "runs", "counted"})
  BY DEF Judge, Keeps, RequestFields
<1>6. Step(r) => /\ DOMAIN request' = Requests
                 /\ DOMAIN request'[r] = RequestFields
                 /\ \A s \in Requests \ {r} : request'[s] = request[s]
  <2>1. Lookup(r) \/ Answer(r) \/ Leave(r) => 
          /\ DOMAIN request' = Requests /\ DOMAIN request'[r] = RequestFields
          /\ \A s \in Requests \ {r} : request'[s] = request[s]
    BY <1>3 DEF Lookup, Answer, Leave, RequestFields
  <2>2. Count(r) \/ Expire(r) =>
          /\ DOMAIN request' = Requests /\ DOMAIN request'[r] = RequestFields
          /\ \A s \in Requests \ {r} : request'[s] = request[s]
    BY <1>2, <1>4 DEF Count, Expire
  <2>3. Raise(r) \/ Fallback(r) =>
          /\ DOMAIN request' = Requests /\ DOMAIN request'[r] = RequestFields
          /\ \A s \in Requests \ {r} : request'[s] = request[s]
    BY <1>2, <1>3 DEF Raise, Fallback, RequestFields
  <2> QED
    BY <2>1, <2>2, <2>3 DEF Step
<1> QED
  BY <1>1, <1>2, <1>3, <1>5, <1>6

LEMMA RequestsInvStep ==
    ASSUME RequestsInv, KeysInv, NEW r \in Requests, Step(r)
    PROVE  RequestsInv'
<1>0. /\ UNCHANGED <<key, admin, now>>
      /\ DOMAIN request' = Requests
      /\ DOMAIN request'[r] = RequestFields
      /\ \A s \in Requests \ {r} : request'[s] = request[s]
  BY StepEffects
<1>1. RequestInv(r) /\ now \in Nat
  BY DEF RequestsInv
<1>2. ASSUME NEW s \in Requests, s # r
      PROVE  (DOMAIN request[s] = RequestFields /\ RequestInv(s))'
  BY <1>0, <1>2 DEF RequestsInv, RequestInv
<1> SUFFICES RequestInv(r)'
  BY <1>0, <1>1, <1>2 DEF RequestsInv
<1>3. CASE Lookup(r)
  <2>1. request[r].late => "raw" \notin key[request[r].cred]
    BY <1>1 DEF RequestInv, KeysInv, EntriesAt, Stages
  <2>2. \/ /\ request'[r].at = "count" /\ request'[r].window = now
           /\ Keeps(r, {"at", "window"}) /\ ~request[r].late
        \/ /\ request'[r].at = "done" /\ request'[r].answer = "unauthorized"
           /\ Keeps(r, {"at", "answer"})
    BY <1>3, <2>1, StepEffects DEF Lookup, RequestsInv, Keeps, RequestFields
  <2>3. request[r].at = "lookup"
    BY <1>3 DEF Lookup
  <2>4. CASE /\ request'[r].at = "count" /\ request'[r].window = now
             /\ Keeps(r, {"at", "window"}) /\ ~request[r].late
    BY <1>0, <1>1, <2>3, <2>4 DEF RequestInv, Places, Before, Keeps, RequestFields
  <2>5. CASE /\ request'[r].at = "done" /\ request'[r].answer = "unauthorized"
             /\ Keeps(r, {"at", "answer"})
    BY <1>0, <1>1, <2>3, <2>5 DEF RequestInv, Places, Before, Keeps, RequestFields
  <2> QED
    BY <2>2, <2>4, <2>5
<1>4. CASE Count(r) \/ Expire(r)
  <2>1. \/ \E place \in {"expire", "fallback"} : Goto(r, place)
        \/ \E n : Judge(r, n)
    BY <1>4 DEF Count, Expire
  <2>2. \/ request'[r].at \in {"expire", "fallback"} /\ Keeps(r, {"at"})
        \/ /\ request'[r].at = "done" /\ request'[r].answer = "limited"
           /\ Keeps(r, {"at", "answer"})
        \/ /\ request'[r].at = "handler" /\ request'[r].runs = request[r].runs + 1
           /\ Keeps(r, {"at", "runs", "counted"})
    BY <2>1, StepEffects
  <2>3. request[r].at \in {"count", "expire"}
    BY <1>4 DEF Count, Expire
  <2> USE DEF RequestInv, Places, Before, Keeps, RequestFields
  <2>4. CASE request'[r].at \in {"expire", "fallback"} /\ Keeps(r, {"at"})
    BY <1>0, <1>1, <2>3, <2>4
  <2>5. CASE /\ request'[r].at = "done" /\ request'[r].answer = "limited"
             /\ Keeps(r, {"at", "answer"})
    BY <1>0, <1>1, <2>3, <2>5
  <2>6. CASE /\ request'[r].at = "handler" /\ request'[r].runs = request[r].runs + 1
             /\ Keeps(r, {"at", "runs", "counted"})
    BY <1>0, <1>1, <2>3, <2>6
  <2> QED
    BY <2>2, <2>4, <2>5, <2>6
<1>5. CASE Answer(r) \/ Leave(r)
  <2>1. /\ request'[r].at = "done" /\ request'[r].answer \in {"handled", "gone"}
        /\ Keeps(r, {"at", "answer"})
    BY <1>5, StepEffects DEF Answer, Leave
  <2>2. request[r].at \in {"handler", "hung"}
    BY <1>5 DEF Answer, Leave
  <2> QED
    BY <1>0, <1>1, <2>1, <2>2 DEF RequestInv, Places, Before, Keeps, RequestFields
<1>6. CASE Raise(r)
  <2>1. /\ request'[r].raised = request[r].raised + 1
        /\ \/ /\ request[r].again = FALSE /\ request'[r].at = "fallback"
              /\ Keeps(r, {"at", "raised"})
           \/ /\ request'[r].at = "done" /\ request'[r].answer = "error"
              /\ Keeps(r, {"at", "raised", "answer"})
    BY <1>6 DEF Raise, Retried, RequestsInv, Keeps, RequestFields
  <2>2. request[r].at = "handler" /\ request[r].raised < 2
    BY <1>6 DEF Raise
  <2> USE DEF RequestInv, Places, Before, Keeps, RequestFields
  <2>3. CASE /\ request[r].again = FALSE /\ request'[r].at = "fallback"
             /\ Keeps(r, {"at", "raised"})
    BY <1>0, <1>1, <2>1, <2>2, <2>3
  <2>4. CASE /\ request'[r].at = "done" /\ request'[r].answer = "error"
             /\ Keeps(r, {"at", "raised", "answer"})
    BY <1>0, <1>1, <2>1, <2>2, <2>4
  <2> QED
    BY <2>1, <2>3, <2>4
<1>7. CASE Fallback(r)
  <2>1. \/ /\ request'[r].at = "handler" /\ request'[r].runs = request[r].runs + 1
           /\ request'[r].again = TRUE /\ Keeps(r, {"at", "runs", "again"})
        \/ request'[r].at = "hung" /\ Keeps(r, {"at"})
        \/ /\ request'[r].at = "done" /\ request'[r].answer = "error"
           /\ Keeps(r, {"at", "answer"})
    <3>1. CASE request' = [request EXCEPT ![r].at = "handler", ![r].runs = @ + 1,
                                          ![r].again = TRUE]
      BY <3>1 DEF RequestsInv, Keeps, RequestFields
    <3> QED
      BY <1>7, <3>1, StepEffects DEF Fallback
  <2>2. request[r].at = "fallback"
    BY <1>7 DEF Fallback
  <2> USE DEF RequestInv, Places, Before, Keeps, RequestFields
  <2>3. CASE /\ request'[r].at = "handler" /\ request'[r].runs = request[r].runs + 1
             /\ request'[r].again = TRUE /\ Keeps(r, {"at", "runs", "again"})
    BY <1>0, <1>1, <2>2, <2>3
  <2>4. CASE request'[r].at = "hung" /\ Keeps(r, {"at"})
    BY <1>0, <1>1, <2>2, <2>4
  <2>5. CASE /\ request'[r].at = "done" /\ request'[r].answer = "error"
             /\ Keeps(r, {"at", "answer"})
    BY <1>0, <1>1, <2>2, <2>5
  <2> QED
    BY <2>1, <2>3, <2>4, <2>5
<1> QED
  BY <1>3, <1>4, <1>5, <1>6, <1>7 DEF Step

LEMMA RequestsInvCrash ==
    ASSUME RequestsInv, GatewayCrash
    PROVE  RequestsInv'
<1>1. /\ DOMAIN request' = Requests /\ now' = now
      /\ \A k \in ApiKeys : admin[k] = "revoked" => admin'[k] = "revoked"
  BY DEF GatewayCrash
<1>2. ASSUME NEW r \in Requests
      PROVE  (DOMAIN request[r] = RequestFields /\ RequestInv(r))'
  <2>1. DOMAIN request[r] = RequestFields /\ RequestInv(r) /\ now \in Nat
    BY DEF RequestsInv
  <2>2. CASE request'[r] = request[r]
    BY <1>1, <2>1, <2>2 DEF RequestInv
  <2>3. CASE /\ request[r].at \notin {"none", "done"}
             /\ request'[r] = [request[r] EXCEPT !.at = "done", !.answer = "gone"]
    <3>1. /\ DOMAIN request'[r] = RequestFields
          /\ request'[r].at = "done" /\ request'[r].answer = "gone"
          /\ Keeps(r, {"at", "answer"})
      BY <2>1, <2>3 DEF Keeps, RequestFields
    <3>2. request[r].at \notin {"none", "done"}
      BY <2>3
    <3> QED
      BY <1>1, <2>1, <3>1, <3>2 DEF RequestInv, Places, Before, Keeps, RequestFields
  <2> QED
    BY <2>2, <2>3 DEF GatewayCrash
<1> QED
  BY <1>1, <1>2, GatewayAssumption DEF RequestsInv

LEMMA RequestsInvKeys ==
    ASSUME RequestsInv, KeysInv, KeysNext
    PROVE  RequestsInv'
<1>1. \A k \in ApiKeys : admin[k] = "revoked" => admin'[k] = "revoked"
  BY DEF KeysInv, KeysNext, CreateKey, StoreKey, StoreIndex, Store, FindKey, DeleteKey
<1>2. UNCHANGED <<now, request>>
  BY DEF KeysNext, CreateKey, StoreKey, StoreIndex, Store, FindKey, DeleteKey
<1> QED
  BY <1>1, <1>2 DEF RequestsInv, RequestInv

LEMMA RequestsInvNext ==
    ASSUME RequestsInv, KeysInv, [GatewayNext]_gatewayVars
    PROVE  RequestsInv'
<1>1. CASE KeysNext
  BY <1>1, RequestsInvKeys
<1>2. ASSUME NEW r \in Requests, Arrive(r) \/ Step(r)
      PROVE  RequestsInv'
  BY <1>2, RequestsInvArrive, RequestsInvStep
<1>3. CASE \/ \E u \in Users, w \in Windows : Forget(u, w)
           \/ UNCHANGED gatewayVars
  <2>1. UNCHANGED <<admin, now, request>>
    BY <1>3 DEF Forget, gatewayVars
  <2> QED
    BY <2>1 DEF RequestsInv, RequestInv
<1>4. CASE NextWindow
  <2>1. UNCHANGED <<admin, request>> /\ now' = now + 1
    BY <1>4 DEF NextWindow
  <2> QED
    BY <2>1 DEF RequestsInv, RequestInv
<1>5. CASE GatewayCrash
  BY <1>5, RequestsInvCrash
<1> QED
  BY <1>1, <1>2, <1>3, <1>4, <1>5 DEF GatewayNext

(***************************************************************************)
(* A handler runs at most twice for one request, a second time only after  *)
(* the first raised, and never for a request that was refused or that      *)
(* shows a key reported revoked: whatever the retry in the rate limiter's  *)
(* except clause (middleware/rate_limiter.py) meets.                       *)
(***************************************************************************)
THEOREM ForwardsAlwaysBounded ==
    GatewayInit /\ [][GatewayNext]_gatewayVars => []ForwardsAreBounded
<1>1. RequestsInv => ForwardsAreBounded
  <2> SUFFICES ASSUME RequestsInv, NEW r \in Requests
               PROVE  /\ request[r].runs <= 2
                      /\ request[r].runs = 2 => request[r].raised > 0
                      /\ request[r].answer \in {"unauthorized", "limited"} => request[r].runs = 0
                      /\ request[r].late => request[r].runs = 0
    BY DEF ForwardsAreBounded
  <2> QED
    BY DEF RequestsInv, RequestInv
<1> QED
  BY <1>1, KeysInvInit, KeysInvNext, RequestsInvInit, RequestsInvNext, PTL

(***************************************************************************)
(* The rate limit.  Taken(c) are the requests of c that hold a place in    *)
(* the current window: let through, or first in it and on the way to       *)
(* EXPIRE.  The counter of the window is never below their number, for     *)
(* only counters of past windows are ever forgotten.                       *)
(***************************************************************************)
Holds(r) == request[r].at = "expire" \/ request[r].counted

Taken(c) == {r \in Requests : /\ Holds(r)
                              /\ request[r].cred = c
                              /\ request[r].window = now}

Counted(c, w) == {r \in Requests : /\ request[r].counted
                                   /\ request[r].cred = c
                                   /\ request[r].window = w}

Begun == {r \in Requests : request[r].at # "none"}

CountInv ==
    /\ hits \in [Users -> [Windows -> Nat]]
    /\ now \in Windows
    /\ IsFiniteSet(Begun)
    /\ \A c \in Credentials : /\ Cardinality(Taken(c)) <= hits[Client[c]][now]
                              /\ Cardinality(Taken(c)) <= EffectiveLimit[c]
    /\ \A c \in Credentials, w \in Windows : Cardinality(Counted(c, w)) <= EffectiveLimit[c]

LEMMA WindowsAreNaturals == Windows \subseteq Nat /\ 0 \in Windows
BY GatewayAssumption DEF Windows

LEMMA HoldersHaveBegun ==
    ASSUME RequestsInv, CountInv, NEW c
    PROVE  /\ Taken(c) \subseteq Begun /\ IsFiniteSet(Taken(c))
           /\ \A w : Counted(c, w) \subseteq Begun /\ IsFiniteSet(Counted(c, w))
<1>1. \A r \in Requests : Holds(r) => r \in Begun
  BY DEF RequestsInv, RequestInv, Holds, Begun, Before
<1>2. Taken(c) \subseteq Begun /\ \A w : Counted(c, w) \subseteq Begun
  BY <1>1 DEF Taken, Counted, Holds
<1> QED
  BY <1>2, FS_Subset DEF CountInv

LEMMA CountInvInit == GatewayInit => CountInv
<1> SUFFICES ASSUME GatewayInit  PROVE CountInv
  OBVIOUS
<1>1. \A r \in Requests : request[r].at = "none" /\ request[r].counted = FALSE
  BY DEF GatewayInit, Arrived
<1>2. /\ Begun = {} /\ \A c \in Credentials : Taken(c) = {}
      /\ \A c \in Credentials, w \in Windows : Counted(c, w) = {}
  BY <1>1 DEF Begun, Taken, Counted, Holds
<1>3. hits \in [Users -> [Windows -> Nat]] /\ now = 0
  BY DEF GatewayInit
<1>4. \A c \in Credentials : hits[Client[c]][now] \in Nat /\ EffectiveLimit[c] \in Nat
  BY <1>3, WindowsAreNaturals, GatewayAssumption DEF Users
<1> QED
  BY <1>2, <1>3, <1>4, FS_EmptySet, WindowsAreNaturals DEF CountInv

(***************************************************************************)
(* A step within a window by which no request comes to hold a place and no *)
(* counter of the window falls.                                            *)
(***************************************************************************)
LEMMA NoneTaken ==
    ASSUME RequestsInv, CountInv,
           hits' \in [Users -> [Windows -> Nat]], now' = now, IsFiniteSet(Begun'),
           \A u \in Users : hits'[u][now] >= hits[u][now],
           \A r \in Requests : Holds(r)' /\ request'[r].window = now =>
               Holds(r) /\ request'[r].cred = request[r].cred
                        /\ request'[r].window = request[r].window,
           \A r \in Requests : request'[r].counted /\ request'[r].window # now =>
               request[r].counted /\ request'[r].cred = request[r].cred
                                  /\ request'[r].window = request[r].window
    PROVE  CountInv'
<1>1. ASSUME NEW c \in Credentials
      PROVE  /\ Cardinality(Taken(c)') <= hits'[Client[c]][now']
             /\ Cardinality(Taken(c)') <= EffectiveLimit[c]
  <2>1. Taken(c)' \subseteq Taken(c)
    BY DEF Taken
  <2>2. Cardinality(Taken(c)') <= Cardinality(Taken(c)) /\ Cardinality(Taken(c)) \in Nat
        /\ Cardinality(Taken(c)') \in Nat
    BY <2>1, HoldersHaveBegun, FS_Subset, FS_CardinalityType
  <2>3. Client[c] \in Users /\ now \in Windows
    BY DEF Users, CountInv
  <2>4. /\ hits[Client[c]][now] \in Nat /\ hits'[Client[c]][now] \in Nat
        /\ hits'[Client[c]][now] >= hits[Client[c]][now] /\ EffectiveLimit[c] \in Nat
    BY <2>3, GatewayAssumption DEF CountInv
  <2> QED
    BY <2>2, <2>4 DEF CountInv
<1>2. ASSUME NEW c \in Credentials, NEW w \in Windows
      PROVE  Cardinality(Counted(c, w)') <= EffectiveLimit[c]
  <2>1. CASE w = now
    <3>1. Counted(c, w)' \subseteq Taken(c)
      BY <2>1 DEF Counted, Taken, Holds
    <3> QED
      BY <3>1, HoldersHaveBegun, FS_Subset, FS_CardinalityType, GatewayAssumption DEF CountInv
  <2>2. CASE w # now
    <3>1. Counted(c, w)' \subseteq Counted(c, w)
      BY <2>2 DEF Counted, Holds
    <3> QED
      BY <3>1, HoldersHaveBegun, FS_Subset, FS_CardinalityType, GatewayAssumption DEF CountInv
  <2> QED
    BY <2>1, <2>2
<1> QED
  BY <1>1, <1>2 DEF CountInv

(***************************************************************************)
(* INCR has answered n for a request of the current window, which now      *)
(* holds a place: it was the first, or n is within the limit.              *)
(***************************************************************************)
LEMMA OneTaken ==
    ASSUME RequestsInv, CountInv, NEW r \in Requests,
           hits' \in [Users -> [Windows -> Nat]], now' = now, IsFiniteSet(Begun'),
           request[r].cred \in Credentials, ~Holds(r),
           request'[r].window = now, request'[r].cred = request[r].cred,
           \A u \in Users : hits'[u][now] >= hits[u][now],
           hits'[User(r)][now] = hits[User(r)][now] + 1,
           \/ hits'[User(r)][now] = 1
           \/ hits'[User(r)][now] <= EffectiveLimit[request[r].cred],
           \A s \in Requests \ {r} : request'[s] = request[s]
    PROVE  CountInv'
<1> DEFINE d == request[r].cred
<1>1. ASSUME NEW c \in Credentials
      PROVE  /\ Cardinality(Taken(c)') <= hits'[Client[c]][now']
             /\ Cardinality(Taken(c)') <= EffectiveLimit[c]
  <2>0. Client[c] \in Users /\ now \in Windows /\ Client[d] = User(r)
    BY DEF Users, CountInv, User
  <2>1. /\ hits[Client[c]][now] \in Nat /\ hits'[Client[c]][now] \in Nat
        /\ hits'[Client[c]][now] >= hits[Client[c]][now]
        /\ EffectiveLimit[c] \in Nat /\ EffectiveLimit[c] >= 1
    BY <2>0, GatewayAssumption DEF CountInv
  <2>2. IsFiniteSet(Taken(c)) /\ Cardinality(Taken(c)) \in Nat
        /\ Cardinality(Taken(c)) <= hits[Client[c]][now]
        /\ Cardinality(Taken(c)) <= EffectiveLimit[c]
    BY HoldersHaveBegun, FS_CardinalityType DEF CountInv
  <2>3. CASE c # d
    <3>1. Taken(c)' = Taken(c)
      BY <2>3 DEF Taken, Holds
    <3> QED
      BY <2>1, <2>2, <3>1
  <2>4. CASE c = d
    <3>1. Taken(c)' \subseteq Taken(c) \cup {r}
      BY <2>4 DEF Taken, Holds
    <3>2. /\ IsFiniteSet(Taken(c) \cup {r}) 
          /\ Cardinality(Taken(c) \cup {r}) <= Cardinality(Taken(c)) + 1
          /\ Cardinality(Taken(c) \cup {r}) \in Nat
      <4>1. r \notin Taken(c)
        BY DEF Taken
      <4>2. /\ IsFiniteSet(Taken(c) \cup {r})
            /\ Cardinality(Taken(c) \cup {r}) = Cardinality(Taken(c)) + 1
        BY <2>2, <4>1, FS_AddElement
      <4> QED
        BY <2>2, <4>2
    <3>3. Cardinality(Taken(c)') <= Cardinality(Taken(c)) + 1 /\ Cardinality(Taken(c)') \in Nat
      BY <2>2, <3>1, <3>2, FS_Subset, FS_CardinalityType
    <3> QED
      BY <2>0, <2>1, <2>2, <2>4, <3>3
  <2> QED
    BY <2>3, <2>4
<1>2. ASSUME NEW c \in Credentials, NEW w \in Windows
      PROVE  Cardinality(Counted(c, w)') <= EffectiveLimit[c]
  <2>1. CASE w = now
    <3>1. Counted(c, w)' \subseteq Taken(c)'
      BY <2>1 DEF Counted, Taken, Holds
    <3>2. IsFiniteSet(Taken(c)')
      <4>1. Taken(c)' \subseteq Taken(c) \cup {r}
        BY DEF Taken, Holds
      <4> QED
        BY <4>1, HoldersHaveBegun, FS_AddElement, FS_Subset
    <3> QED
      BY <1>1, <3>1, <3>2, FS_Subset, FS_CardinalityType, GatewayAssumption
  <2>2. CASE w # now
    <3>1. Counted(c, w)' \subseteq Counted(c, w)
      BY <2>2 DEF Counted, Holds
    <3>2. /\ IsFiniteSet(Counted(c, w)) /\ Cardinality(Counted(c, w)) <= EffectiveLimit[c]
          /\ EffectiveLimit[c] \in Nat
      BY HoldersHaveBegun, GatewayAssumption DEF CountInv
    <3> QED
      BY <3>1, <3>2, FS_Subset, FS_CardinalityType
  <2> QED
    BY <2>1, <2>2
<1> QED
  BY <1>1, <1>2 DEF CountInv

LEMMA CountInvCount ==
    ASSUME RequestsInv, CountInv, NEW r \in Requests, Count(r)
    PROVE  CountInv'
<1> DEFINE u == User(r)
           v == request[r].window
<1>1. /\ UNCHANGED now
      /\ DOMAIN request'[r] = RequestFields
      /\ \A s \in Requests \ {r} : request'[s] = request[s]
  BY StepEffects DEF Step
<1>2. /\ request[r].at = "count" /\ request[r].cred \in Credentials /\ v \in 0..now
      /\ request[r].counted = FALSE /\ now \in Nat
  BY DEF Count, RequestsInv, RequestInv, Before
<1>3. u \in Users /\ v \in Windows /\ now \in Windows
  BY <1>2, GatewayAssumption DEF User, Users, CountInv, Windows
<1>4. IsFiniteSet(Begun')
  <2>1. Begun' \subseteq Begun
    BY <1>1, <1>2 DEF Begun
  <2> QED
    BY <2>1, FS_Subset DEF CountInv
<1>5. hits' \in {hits, [hits EXCEPT ![u][v] = @ + 1]}
  BY DEF Count, Hit
<1>6. /\ hits' \in [Users -> [Windows -> Nat]]
      /\ \A x \in Users : hits'[x][now] >= hits[x][now]
  BY <1>3, <1>5 DEF CountInv
<1>7. ~Holds(r)
  BY <1>2 DEF Holds
<1>8. CASE hits' = [hits EXCEPT ![u][v] = @ + 1] /\ v = now /\ hits'[u][v] = 1 /\ Goto(r, "expire")
  <2>1. request'[r].window = now /\ request'[r].cred = request[r].cred
    BY <1>8, StepEffects DEF Keeps, RequestFields
  <2>2. hits'[u][now] = hits[u][now] + 1
    BY <1>3, <1>8 DEF CountInv
  <2> QED
    BY <1>1, <1>2, <1>4, <1>6, <1>7, <1>8, <2>1, <2>2, OneTaken
<1>9. CASE hits' = [hits EXCEPT ![u][v] = @ + 1] /\ v = now /\ ~Exceeds(r, hits'[u][v])
           /\ Judge(r, hits'[u][v])
  <2>1. request'[r].window = now /\ request'[r].cred = request[r].cred
    BY <1>9, StepEffects DEF Keeps, RequestFields
  <2>2. hits'[u][now] = hits[u][now] + 1 /\ hits'[u][now] \in Nat
    BY <1>3, <1>9 DEF CountInv
  <2>3. hits'[u][now] <= EffectiveLimit[request[r].cred]
    BY <1>2, <1>9, <2>2, GatewayAssumption DEF Exceeds
  <2> QED
    BY <1>1, <1>2, <1>4, <1>6, <1>7, <2>1, <2>2, <2>3, OneTaken
<1>10. ASSUME ~request'[r].counted, request'[r].at = "expire" => v # now,
              request'[r].window = v
       PROVE  CountInv'
  BY <1>1, <1>4, <1>6, <1>10, NoneTaken DEF Holds
<1>11. Goto(r, "fallback") \/ Finish(r, "limited") \/ (Goto(r, "expire") /\ v # now)
           => CountInv'
  BY <1>2, <1>10, StepEffects DEF Keeps, RequestFields
<1>12. CASE v # now /\ ~Exceeds(r, hits'[u][v]) /\ Judge(r, hits'[u][v])
  <2>1. request' = [request EXCEPT ![r].at = "handler", ![r].runs = @ + 1,
                                   ![r].counted = (v = now)]
    BY <1>12 DEF Judge
  <2>2. (v = now) = FALSE
    BY <1>12
  <2>3. ~request'[r].counted /\ request'[r].at = "handler" /\ request'[r].window = v
    BY <2>1, <2>2 DEF RequestsInv, RequestFields
  <2> QED
    BY <1>10, <2>3
<1>13. hits' = [hits EXCEPT ![u][v] = @ + 1] => hits'[u][v] = hits[u][v] + 1
  BY <1>3 DEF CountInv
<1>14. CASE /\ hits' = [hits EXCEPT ![u][v] = @ + 1]
            /\ hits[u][v] + 1 = 1 /\ Goto(r, "expire")
  BY <1>8, <1>11, <1>13, <1>14
<1>15. CASE /\ hits' = [hits EXCEPT ![u][v] = @ + 1]
            /\ Judge(r, hits[u][v] + 1)
  <2>1. Judge(r, hits'[u][v])
    BY <1>13, <1>15
  <2>2. CASE Exceeds(r, hits'[u][v])
    BY <1>11, <2>1, <2>2 DEF Judge
  <2>3. CASE ~Exceeds(r, hits'[u][v])
    BY <1>9, <1>12, <1>15, <2>1, <2>3
  <2> QED
    BY <2>2, <2>3
<1> QED
  BY <1>11, <1>14, <1>15 DEF Count, Hit

LEMMA CountInvStep ==
    ASSUME RequestsInv, CountInv, NEW r \in Requests, Step(r)
    PROVE  CountInv'
<1>1. CASE Count(r)
  BY <1>1, CountInvCount
<1>2. CASE ~Count(r)
  <2>1. /\ UNCHANGED <<hits, now>>
        /\ DOMAIN request'[r] = RequestFields
        /\ \A s \in Requests \ {r} : request'[s] = request[s]
    BY <1>2, StepEffects
       DEF Step, Lookup, Expire, Answer, Raise, Fallback, Leave
  <2>2. IsFiniteSet(Begun')
    <3>1. request[r].at # "none"
      BY DEF Step, Lookup, Count, Expire, Answer, Raise, Fallback, Leave
    <3>2. Begun' \subseteq Begun
      BY <2>1, <3>1 DEF Begun
    <3> QED
      BY <3>2, FS_Subset DEF CountInv
  <2>3. /\ hits' \in [Users -> [Windows -> Nat]]
        /\ \A u \in Users : hits'[u][now] >= hits[u][now]
    BY <2>1 DEF CountInv
  <2>4. /\ Holds(r)' /\ request'[r].window = now =>
               Holds(r) /\ request'[r].cred = request[r].cred
                        /\ request'[r].window = request[r].window
        /\ request'[r].counted /\ request'[r].window # now =>
               request[r].counted /\ request'[r].cred = request[r].cred
                        /\ request'[r].window = request[r].window
    <3>1. CASE Lookup(r)
      <4>1. request[r].counted = FALSE
        BY <3>1 DEF Lookup, RequestsInv, RequestInv, Before
      <4>2. request'[r].counted = FALSE /\ request'[r].at # "expire"
        BY <3>1, <4>1, StepEffects DEF Lookup, RequestsInv, Keeps, RequestFields
      <4> QED
        BY <4>2 DEF Holds
    <3>2. CASE Expire(r)
      <4>1. Judge(r, 1) \/ Goto(r, "fallback")
        BY <3>2 DEF Expire
      <4>2. /\ request'[r].cred = request[r].cred /\ request'[r].window = request[r].window
            /\ Holds(r) /\ (request'[r].counted =>
                   request[r].counted \/ request[r].window = now)
        <5>1. Holds(r)
          BY <3>2 DEF Expire, Holds
        <5>2. CASE Goto(r, "fallback")
          <6>1. Keeps(r, {"at"})
            BY <5>2, StepEffects
          <6> QED
            BY <5>1, <6>1 DEF Keeps, RequestFields
        <5>3. CASE Finish(r, "limited")
          <6>1. Keeps(r, {"at", "answer"})
            BY <5>3, StepEffects
          <6> QED
            BY <5>1, <6>1 DEF Keeps, RequestFields
        <5>4. CASE /\ request'[r].counted = (request[r].window = now)
                   /\ Keeps(r, {"at", "runs", "counted"})
          BY <5>1, <5>4 DEF Keeps, RequestFields
        <5> QED
          BY <4>1, <5>2, <5>3, <5>4, StepEffects
      <4> QED
        BY <4>2
    <3>3. CASE Answer(r) \/ Leave(r) \/ Raise(r) \/ Fallback(r)
      <4>1. /\ request'[r].cred = request[r].cred /\ request'[r].window = request[r].window
            /\ request'[r].counted = request[r].counted /\ request'[r].at # "expire"
        BY <3>3, StepEffects
           DEF Answer, Leave, Raise, Fallback, RequestsInv, Keeps, RequestFields
      <4> QED
        BY <4>1 DEF Holds
    <3> QED
      BY <1>2, <3>1, <3>2, <3>3 DEF Step
  <2> QED
    BY <2>1, <2>2, <2>3, <2>4, NoneTaken DEF Holds
<1> QED
  BY <1>1, <1>2

LEMMA CountInvNext ==
    ASSUME RequestsInv, CountInv, [GatewayNext]_gatewayVars
    PROVE  CountInv'
<1>1. ASSUME UNCHANGED <<hits, now, request>>  PROVE CountInv'
  BY <1>1 DEF CountInv, Taken, Counted, Holds, Begun
<1>2. CASE KeysNext \/ UNCHANGED gatewayVars
  BY <1>1, <1>2 DEF KeysNext, CreateKey, StoreKey, StoreIndex, Store, FindKey, DeleteKey,
                    gatewayVars
<1>3. ASSUME NEW r \in Requests, Arrive(r)  PROVE CountInv'
  <2>1. PICK c : request' = [request EXCEPT ![r] =
              IF c \in ApiKeys THEN Arrived(c, "lookup", admin[c] = "revoked")
                               ELSE Arrived(c, "count", FALSE)]
    BY <1>3 DEF Arrive
  <2>2. /\ UNCHANGED <<hits, now>>
        /\ \A s \in Requests \ {r} : request'[s] = request[s]
    BY <1>3, <2>1 DEF Arrive, RequestsInv
  <2>3. request'[r].counted = FALSE /\ request'[r].at # "expire"
    BY <2>1 DEF RequestsInv, Arrived
  <2>4. IsFiniteSet(Begun')
    <3>1. Begun' \subseteq Begun \cup {r}
      BY <2>2 DEF Begun
    <3> QED
      BY <3>1, FS_AddElement, FS_Subset DEF CountInv
  <2>5. /\ hits' \in [Users -> [Windows -> Nat]]
        /\ \A u \in Users : hits'[u][now] >= hits[u][now]
    BY <2>2 DEF CountInv
  <2> QED
    BY <2>2, <2>3, <2>4, <2>5, NoneTaken DEF Holds
<1>4. ASSUME NEW r \in Requests, Step(r)  PROVE CountInv'
  BY <1>4, CountInvStep
<1>5. ASSUME NEW u \in Users, NEW w \in Windows, Forget(u, w)  PROVE CountInv'
  <2>1. UNCHANGED <<now, request>> /\ w < now /\ hits' = [hits EXCEPT ![u][w] = 0]
    BY <1>5 DEF Forget, Outlived
  <2>2. /\ hits' \in [Users -> [Windows -> Nat]]
        /\ \A x \in Users : hits'[x][now] = hits[x][now] /\ hits[x][now] \in Nat
    BY <2>1, WindowsAreNaturals DEF CountInv
  <2>3. IsFiniteSet(Begun')
    BY <2>1 DEF CountInv, Begun
  <2> QED
    BY <2>1, <2>2, <2>3, NoneTaken DEF Holds
<1>6. CASE NextWindow
  <2>1. /\ UNCHANGED <<hits, request>> /\ now' = now + 1 /\ now' \in Windows
    BY <1>6, GatewayAssumption DEF NextWindow, CountInv, Windows
  <2>2. ASSUME NEW c \in Credentials  PROVE Taken(c)' = {}
    BY <2>1 DEF Taken, Holds, RequestsInv, RequestInv
  <2>3. \A c \in Credentials : hits'[Client[c]][now'] \in Nat /\ EffectiveLimit[c] \in Nat
    BY <2>1, GatewayAssumption DEF CountInv, Users
  <2>4. Begun' = Begun /\ \A c \in Credentials, w \in Windows : Counted(c, w)' = Counted(c, w)
    BY <2>1 DEF Begun, Counted
  <2> QED
    BY <2>1, <2>2, <2>3, <2>4, FS_EmptySet DEF CountInv
<1>7. CASE GatewayCrash
  <2>1. UNCHANGED <<hits, now>>
    BY <1>7 DEF GatewayCrash
  <2>2. ASSUME NEW r \in Requests
        PROVE  /\ request'[r].at = "none" <=> request[r].at = "none"
               /\ request'[r].at = "expire" => request[r].at = "expire"
               /\ request'[r].cred = request[r].cred /\ request'[r].window = request[r].window
               /\ request'[r].counted = request[r].counted
    <3>1. CASE request'[r] = request[r]
      BY <3>1
    <3>2. CASE /\ request[r].at \notin {"none", "done"}
               /\ request'[r] = [request[r] EXCEPT !.at = "done", !.answer = "gone"]
      BY <3>2 DEF RequestsInv, RequestFields
    <3> QED
      BY <1>7, <3>1, <3>2 DEF GatewayCrash
  <2>3. Begun' = Begun
    BY <2>2 DEF Begun
  <2>4. /\ hits' \in [Users -> [Windows -> Nat]]
        /\ \A u \in Users : hits'[u][now] >= hits[u][now]
    BY <2>1 DEF CountInv
  <2> QED
    BY <2>1, <2>2, <2>3, <2>4, NoneTaken DEF Holds, CountInv
<1> QED
  BY <1>2, <1>3, <1>4, <1>5, <1>6, <1>7 DEF GatewayNext

(***************************************************************************)
(* The rate limiter (middleware/rate_limiter.py) lets no more than the     *)
(* limit of the role through in a window, of the requests it counts in it: *)
(* for any number of clients and requests, wherever their INCR, EXPIRE and *)
(* comparison interleave, whatever fails and whichever counters expire.    *)
(***************************************************************************)
THEOREM LimitAlwaysKept ==
    GatewayInit /\ [][GatewayNext]_gatewayVars => []LimitIsKept
<1>1. CountInv => LimitIsKept
  BY DEF CountInv, LimitIsKept, Counted
<1> QED
  BY <1>1, KeysInvInit, KeysInvNext, RequestsInvInit, RequestsInvNext,
     CountInvInit, CountInvNext, PTL

(***************************************************************************)
(* Sequences: where an element stands in one, and how appending to it and  *)
(* taking its head change that.                                            *)
(***************************************************************************)
Positions(s, x) == {i \in 1..Len(s) : s[i] = x}

LEMMA PositionsAreFinite ==
    ASSUME NEW S, NEW s \in Seq(S), NEW x
    PROVE  IsFiniteSet(Positions(s, x)) /\ Cardinality(Positions(s, x)) \in Nat
<1>1. IsFiniteSet(1..Len(s))
  BY LenProperties, FS_Interval
<1> QED
  BY <1>1, FS_Subset, FS_CardinalityType DEF Positions

LEMMA PositionsInEmpty ==
    ASSUME NEW x
    PROVE  Positions(<<>>, x) = {} /\ Cardinality(Positions(<<>>, x)) = 0
BY FS_EmptySet DEF Positions

LEMMA PositionsAppend ==
    ASSUME NEW S, NEW s \in Seq(S), NEW x \in S, NEW y
    PROVE  /\ Append(s, x) \in Seq(S) /\ Len(Append(s, x)) = Len(s) + 1
           /\ Positions(Append(s, x), y) =
                 IF x = y THEN Positions(s, y) \cup {Len(s) + 1} ELSE Positions(s, y)
           /\ Cardinality(Positions(Append(s, x), y)) =
                 IF x = y THEN Cardinality(Positions(s, y)) + 1
                          ELSE Cardinality(Positions(s, y))
<1>1. /\ Append(s, x) \in Seq(S) /\ Len(Append(s, x)) = Len(s) + 1 /\ Len(s) \in Nat
      /\ \A i \in 1..Len(s) : Append(s, x)[i] = s[i]
      /\ Append(s, x)[Len(s) + 1] = x
  OBVIOUS
<1>2. Positions(Append(s, x), y) =
          IF x = y THEN Positions(s, y) \cup {Len(s) + 1} ELSE Positions(s, y)
  <2>1. 1..(Len(s) + 1) = (1..Len(s)) \cup {Len(s) + 1}
    BY <1>1
  <2> QED
    BY <1>1, <2>1 DEF Positions
<1>3. Len(s) + 1 \notin Positions(s, y)
  BY <1>1 DEF Positions
<1> QED
  BY <1>1, <1>2, <1>3, PositionsAreFinite, FS_AddElement

\* What Handle leaves of the inbox once it has taken the first message.
Rest(s) == SubSeq(s, 1, 1 - 1) \o SubSeq(s, 1 + 1, Len(s))

LEMMA RestProperties ==
    ASSUME NEW S, NEW s \in Seq(S), s # <<>>
    PROVE  /\ Rest(s) \in Seq(S) /\ Len(Rest(s)) = Len(s) - 1 /\ Len(s) \in Nat \ {0}
           /\ \A i \in 1..Len(Rest(s)) : Rest(s)[i] = s[i + 1]
           /\ Head(s) = s[1] /\ s[1] \in S
<1>1. Len(s) \in Nat \ {0}
  BY EmptySeq
<1>2. Rest(s) = Tail(s)
  <2>1. SubSeq(s, 1, 1 - 1) = <<>>
    BY SubSeqEmpty
  <2>2. SubSeq(s, 1 + 1, Len(s)) = Tail(s) /\ Tail(s) \in Seq(S)
    BY TailIsSubSeq, HeadTailProperties
  <2> QED
    BY <2>1, <2>2, ConcatEmptySeq DEF Rest
<1> QED
  BY <1>1, <1>2, HeadTailProperties

LEMMA PositionsRest ==
    ASSUME NEW S, NEW s \in Seq(S), s # <<>>, NEW y
    PROVE  /\ \A i \in Positions(Rest(s), y) : i \in Nat \ {0} /\ i + 1 \in Positions(s, y)
           /\ Cardinality(Positions(s, y)) =
                 Cardinality(Positions(Rest(s), y)) + (IF s[1] = y THEN 1 ELSE 0)
<1>1. Len(s) \in Nat \ {0}
  BY RestProperties
<1>2. /\ Rest(s) \in Seq(S) /\ Len(Rest(s)) = Len(s) - 1
      /\ \A i \in 1..Len(Rest(s)) : Rest(s)[i] = s[i + 1]
  BY RestProperties
<1>3. \A i \in Positions(Rest(s), y) : i \in Nat \ {0} /\ i + 1 \in Positions(s, y)
  BY <1>1, <1>2 DEF Positions
<1>4. Cardinality(Positions(Rest(s), y)) = Cardinality(Positions(s, y) \ {1})
  <2> DEFINE f == [i \in Positions(Rest(s), y) |-> i + 1]
  <2>1. f \in [Positions(Rest(s), y) -> Positions(s, y) \ {1}]
    BY <1>3
  <2>2. \A i, j \in Positions(Rest(s), y) : f[i] = f[j] => i = j
    BY <1>2 DEF Positions
  <2>3. \A j \in Positions(s, y) \ {1} : \E i \in Positions(Rest(s), y) : f[i] = j
    <3> SUFFICES ASSUME NEW j \in Positions(s, y) \ {1}
                 PROVE  j - 1 \in Positions(Rest(s), y) /\ f[j - 1] = j
      OBVIOUS
    <3> QED
      BY <1>1, <1>2 DEF Positions
  <2>4. f \in Bijection(Positions(Rest(s), y), Positions(s, y) \ {1})
    BY <2>1, <2>2, <2>3, Fun_IsBij
  <2> QED
    BY <1>2, <2>4, PositionsAreFinite, FS_Bijection DEF ExistsBijection
<1>5. 1 \in Positions(s, y) <=> s[1] = y
  BY <1>1 DEF Positions
<1>6. /\ IsFiniteSet(Positions(s, y)) /\ Cardinality(Positions(s, y)) \in Nat
      /\ Cardinality(Positions(s, y) \ {1}) =
            IF 1 \in Positions(s, y) THEN Cardinality(Positions(s, y)) - 1
                                    ELSE Cardinality(Positions(s, y))
  BY PositionsAreFinite, FS_RemoveElement
<1>7. Cardinality(Positions(s, y)) =
          Cardinality(Positions(Rest(s), y)) + (IF s[1] = y THEN 1 ELSE 0)
  BY <1>4, <1>5, <1>6
<1> QED
  BY <1>3, <1>7

-----------------------------------------------------------------------------
ReadingRecord ==
    [at : {"unsent", "queued", "request", "done"}, garbage : BOOLEAN, taken : 0..2,
     answer : {"none", "accepted", "rejected", "failed", "gave up"}, id : Nat]

SubscriberRecord ==
    [state : {"connecting", "subscribed", "sleeping", "ended"}, delay : Nat,
     inbox : Seq(Readings)]

InEntry(r) == Positions(entry, r)
InInbox(r) == Positions(mqtt.inbox, r)

\* How often r has been handed to the service.
Passed(r) ==
    IF transport = "mqtt" THEN reading[r].taken
    ELSE IF reading[r].at = "done" THEN 1 ELSE 0

ProgressInv(r) ==
    LET q == reading[r] IN
    /\ q.at = "unsent" => q.taken = 0 /\ q.answer = "none"
    /\ q.at = "queued" => transport = "mqtt" /\ q.taken <= 1
    /\ q.at = "request" => /\ transport # "mqtt" /\ service = "up"
                           /\ q.answer \in {"none", "gave up"}
    /\ transport = "mqtt" => q.answer = "none"
    /\ transport # "mqtt" => q.taken = 0
    /\ transport # "mqtt" /\ q.at = "done" => q.answer # "none"

CopiesInv(r) ==
    /\ Cardinality(InEntry(r)) + Cardinality(InInbox(r)) <= Passed(r)
    /\ reading[r].garbage => InEntry(r) = {}
    /\ reading[r].answer = "accepted" => InEntry(r) = {reading[r].id}

ReadingInv(r) == ProgressInv(r) /\ CopiesInv(r)

IngestTypes ==
    /\ reading \in [Readings -> ReadingRecord]
    /\ mqtt \in SubscriberRecord
    /\ entry \in Seq(Readings) /\ Len(entry) = added /\ added \in Nat
    /\ fleet \in [cycle : Nat, running : BOOLEAN, broken : BOOLEAN]
    /\ groups \in 0..3

ServiceInv ==
    /\ mqtt.inbox # <<>> => mqtt.state = "subscribed" /\ transport = "mqtt"
    /\ mqtt.state # "ended" => service = "up"
    /\ service = "up" => groups = 3
    /\ entry # <<>> => groups = 3

IngestInv == IngestTypes /\ ServiceInv /\ \A r \in Readings : ReadingInv(r)

LEMMA IngestInvInit == IngestInit => IngestInv
<1> SUFFICES ASSUME IngestInit  PROVE IngestInv
  OBVIOUS
<1>1. /\ entry = <<>> /\ mqtt = Subscriber("ended", 1) /\ added = 0 /\ groups = 0
      /\ fleet = [cycle |-> 1, running |-> TRUE, broken |-> FALSE] /\ service = "down"
      /\ reading = [r \in Readings |-> Unsent]
  BY DEF IngestInit, StreamInit
<1>2. mqtt \in SubscriberRecord /\ mqtt.inbox = <<>> /\ mqtt.state = "ended"
  BY <1>1 DEF Subscriber, SubscriberRecord
<1>3. IngestTypes
  BY <1>1, <1>2 DEF IngestTypes, Unsent, ReadingRecord
<1>4. ServiceInv
  BY <1>1, <1>2 DEF ServiceInv
<1>5. ASSUME NEW r \in Readings  PROVE ReadingInv(r)
  <2>1. /\ reading[r].at = "unsent" /\ reading[r].garbage = FALSE /\ reading[r].taken = 0
        /\ reading[r].answer = "none"
    BY <1>1 DEF Unsent
  <2>2. Cardinality(InEntry(r)) = 0 /\ Cardinality(InInbox(r)) = 0
    BY <1>1, <1>2, PositionsInEmpty DEF InEntry, InInbox
  <2> QED
    BY <2>1, <2>2 DEF ReadingInv, ProgressInv, CopiesInv, Passed
<1> QED
  BY <1>3, <1>4, <1>5 DEF IngestInv

\* What is always there to count.
LEMMA CountsAreNaturals ==
    ASSUME IngestTypes, NEW r
    PROVE  /\ Cardinality(InEntry(r)) \in Nat /\ Cardinality(InInbox(r)) \in Nat
           /\ Cardinality(InEntry(r)) = 0 <=> InEntry(r) = {}
BY PositionsAreFinite, FS_EmptySet DEF IngestTypes, SubscriberRecord, InEntry, InInbox

LEMMA PassedIsNatural ==
    ASSUME IngestTypes, NEW r \in Readings
    PROVE  Passed(r) \in Nat
<1>1. reading[r].taken \in 0..2
  BY DEF IngestTypes, ReadingRecord
<1> QED
  BY <1>1 DEF Passed

\* A reading that a step leaves alone, and of which it adds no entry.
LEMMA ReadingLeftAlone ==
    ASSUME IngestTypes, NEW s \in Readings, ReadingInv(s),
           reading'[s] = reading[s], transport' = transport,
           service = "up" => service' = "up",
           InEntry(s)' = InEntry(s),
           Cardinality(InInbox(s))' \in Nat,
           Cardinality(InInbox(s))' <= Cardinality(InInbox(s))
    PROVE  ReadingInv(s)'
<1>1. Passed(s)' = Passed(s) /\ Passed(s) \in Nat
  BY PassedIsNatural DEF Passed
<1>2. Cardinality(InEntry(s))' = Cardinality(InEntry(s)) /\ Cardinality(InEntry(s)) \in Nat
      /\ Cardinality(InInbox(s)) \in Nat
  BY CountsAreNaturals
<1>3. Cardinality(InEntry(s)) + Cardinality(InInbox(s)) <= Passed(s)
  BY DEF ReadingInv, CopiesInv
<1>4. Cardinality(InEntry(s))' + Cardinality(InInbox(s))' <= Passed(s)'
  BY <1>1, <1>2, <1>3
<1>5. CopiesInv(s)'
  BY <1>4 DEF ReadingInv, CopiesInv
<1>6. ProgressInv(s)'
  BY DEF ReadingInv, ProgressInv
<1> QED
  BY <1>5, <1>6 DEF ReadingInv

LEMMA IngestInvPublish ==
    ASSUME IngestInv, NEW r \in Readings, Publish(r) \/ GiveUp(r)
    PROVE  IngestInv'
<1>1. UNCHANGED <<added, transport, entry, service, groups, mqtt>>
  BY DEF Publish, GiveUp, streamVars
<1>2. \A s \in Readings : InEntry(s)' = InEntry(s) /\ InInbox(s)' = InInbox(s)
  BY <1>1 DEF InEntry, InInbox
<1>3. reading \in [Readings -> ReadingRecord] /\ ReadingInv(r) /\ IngestTypes
  BY DEF IngestInv, IngestTypes
<1>4. /\ reading' \in [Readings -> ReadingRecord]
      /\ \A s \in Readings \ {r} : reading'[s] = reading[s]
      /\ ReadingInv(r)'
  <2>1. ASSUME NEW g \in BOOLEAN, reading[r].at = "unsent", transport = "mqtt",
               Update(r, [reading[r] EXCEPT !.at = "queued", !.garbage = g])
        PROVE  <1>4!1 /\ <1>4!2 /\ <1>4!3
    <3>1. <1>4!1 /\ <1>4!2
      BY <1>3, <2>1 DEF Update, ReadingRecord
    <3>2. reading'[r].at = "queued" /\ reading'[r].taken = reading[r].taken
          /\ reading'[r].answer = reading[r].answer
      BY <1>3, <2>1 DEF Update, ReadingRecord
    <3> QED
      BY <1>1, <1>2, <1>3, <2>1, <3>1, <3>2, CountsAreNaturals DEF ReadingInv, ProgressInv, CopiesInv, Passed
  <2>2. ASSUME NEW g \in BOOLEAN, reading[r].at = "unsent", transport # "mqtt", service = "up",
               Update(r, [reading[r] EXCEPT !.at = "request", !.garbage = g])
        PROVE  <1>4!1 /\ <1>4!2 /\ <1>4!3
    <3>1. <1>4!1 /\ <1>4!2
      BY <1>3, <2>2 DEF Update, ReadingRecord
    <3>2. reading'[r].at = "request" /\ reading'[r].taken = reading[r].taken
          /\ reading'[r].answer = reading[r].answer
      BY <1>3, <2>2 DEF Update, ReadingRecord
    <3>3. InEntry(r) = {} /\ Cardinality(InEntry(r)) = 0 /\ Cardinality(InInbox(r)) = 0
      BY <1>3, <2>2, CountsAreNaturals DEF ReadingInv, ProgressInv, CopiesInv, Passed
    <3> QED
      BY <1>1, <1>2, <1>3, <2>2, <3>1, <3>2, <3>3 DEF ReadingInv, ProgressInv, CopiesInv, Passed
  <2>3. ASSUME reading[r].at = "unsent", transport # "mqtt",
               Update(r, [reading[r] EXCEPT !.at = "done", !.answer = "failed"])
        PROVE  <1>4!1 /\ <1>4!2 /\ <1>4!3
    <3>1. <1>4!1 /\ <1>4!2
      BY <1>3, <2>3 DEF Update, ReadingRecord
    <3>2. reading'[r].at = "done" /\ reading'[r].taken = reading[r].taken
          /\ reading'[r].answer = "failed" /\ reading'[r].garbage = reading[r].garbage
      BY <1>3, <2>3 DEF Update, ReadingRecord
    <3> QED
      BY <1>1, <1>2, <1>3, <2>3, <3>1, <3>2, CountsAreNaturals DEF ReadingInv, ProgressInv, CopiesInv, Passed
  <2>4. ASSUME GiveUp(r)
        PROVE  <1>4!1 /\ <1>4!2 /\ <1>4!3
    <3>1. <1>4!1 /\ <1>4!2 /\ reading[r].at = "request"
      BY <1>3, <2>4 DEF GiveUp, Update, ReadingRecord
    <3>2. reading'[r].at = "request" /\ reading'[r].taken = reading[r].taken
          /\ reading'[r].answer = "gave up" /\ reading'[r].garbage = reading[r].garbage
      BY <1>3, <2>4 DEF GiveUp, Update, ReadingRecord
    <3> QED
      BY <1>1, <1>2, <1>3, <3>1, <3>2, CountsAreNaturals DEF ReadingInv, ProgressInv, CopiesInv, Passed
  <2>5. CASE Publish(r)
    <3>1. PICK g \in BOOLEAN :
            Update(r, CASE transport = "mqtt" ->
                           [reading[r] EXCEPT !.at = "queued", !.garbage = g]
                      [] transport # "mqtt" /\ service = "up" ->
                           [reading[r] EXCEPT !.at = "request", !.garbage = g]
                      [] OTHER -> [reading[r] EXCEPT !.at = "done", !.answer = "failed"])
      BY <2>5 DEF Publish
    <3>2. reading[r].at = "unsent"
      BY <2>5 DEF Publish
    <3>3. CASE transport = "mqtt"
      BY <2>1, <3>1, <3>2, <3>3
    <3>4. CASE transport # "mqtt" /\ service = "up"
      BY <2>2, <3>1, <3>2, <3>4
    <3>5. CASE transport # "mqtt" /\ service # "up"
      BY <2>3, <3>1, <3>2, <3>5
    <3> QED
      BY <3>3, <3>4, <3>5
  <2> QED
    BY <2>4, <2>5
<1>5. fleet' \in [cycle : Nat, running : BOOLEAN, broken : BOOLEAN]
  BY <1>3 DEF IngestTypes, Publish, GiveUp
<1>6. \A s \in Readings : ReadingInv(s)'
  BY <1>1, <1>2, <1>3, <1>4, ReadingLeftAlone, CountsAreNaturals DEF IngestInv
<1>7. IngestTypes' /\ ServiceInv'
  BY <1>1, <1>3, <1>4, <1>5 DEF IngestInv, IngestTypes, ServiceInv
<1> QED
  BY <1>6, <1>7 DEF IngestInv

LEMMA AddedEffects ==
    ASSUME IngestTypes, NEW r \in Readings, Added(r)
    PROVE  /\ entry' \in Seq(Readings) /\ Len(entry') = Len(entry) + 1
           /\ added' = added + 1 /\ Len(entry') = added' /\ added' \in Nat
           /\ InEntry(r)' = InEntry(r) \cup {added + 1}
           /\ Cardinality(InEntry(r))' = Cardinality(InEntry(r)) + 1
           /\ \A s \in Readings \ {r} : InEntry(s)' = InEntry(s)
<1>1. entry' = Append(entry, r) /\ added' = added + 1
  BY DEF Added, StreamAdd
<1> QED
  BY <1>1, PositionsAppend DEF IngestTypes, InEntry

LEMMA IngestInvProcess ==
    ASSUME IngestInv, NEW r \in Readings, Process(r)
    PROVE  IngestInv'
<1>1. /\ UNCHANGED <<transport, fleet, service, groups, mqtt>>
      /\ Added(r) \/ NotAdded
      /\ reading[r].at = "request"
  BY DEF Process
<1>2. \A s \in Readings : InInbox(s)' = InInbox(s)
  BY <1>1 DEF InInbox
<1>3. IngestTypes /\ ProgressInv(r) /\ CopiesInv(r) /\ ServiceInv
  BY DEF IngestInv, ReadingInv
<1>4. /\ transport # "mqtt" /\ service = "up" /\ groups = 3 /\ reading[r].taken = 0
      /\ reading[r].answer \in {"none", "gave up"}
      /\ InEntry(r) = {} /\ Cardinality(InEntry(r)) = 0 /\ Cardinality(InInbox(r)) = 0
  <2>1. /\ transport # "mqtt" /\ service = "up" /\ reading[r].taken = 0
        /\ reading[r].answer \in {"none", "gave up"}
    BY <1>1, <1>3 DEF ProgressInv
  <2>2. Passed(r) = 0
    BY <1>1, <2>1 DEF Passed
  <2>3. /\ Cardinality(InEntry(r)) + Cardinality(InInbox(r)) <= 0
        /\ Cardinality(InEntry(r)) \in Nat /\ Cardinality(InInbox(r)) \in Nat
    BY <1>3, <2>2, CountsAreNaturals DEF CopiesInv
  <2>4. Cardinality(InEntry(r)) = 0 /\ Cardinality(InInbox(r)) = 0
    BY <2>3
  <2> QED
    BY <1>3, <2>1, <2>4, CountsAreNaturals DEF ServiceInv
<1>5. /\ entry' \in Seq(Readings) /\ Len(entry') = added' /\ added' \in Nat
      /\ \A s \in Readings \ {r} : InEntry(s)' = InEntry(s)
      /\ InEntry(r)' \in {{}, {added + 1}} /\ Cardinality(InEntry(r))' <= 1
      /\ Cardinality(InEntry(r))' \in Nat
  <2>1. CASE Added(r)
    <3>1. InEntry(r)' = {added + 1} /\ Cardinality(InEntry(r))' = 1
      <4>1. /\ InEntry(r)' = InEntry(r) \cup {added + 1}
            /\ Cardinality(InEntry(r))' = Cardinality(InEntry(r)) + 1
        BY <1>3, <2>1, AddedEffects
      <4>2. InEntry(r) = {} /\ Cardinality(InEntry(r)) = 0
        BY <1>4
      <4>3. InEntry(r)' = {added + 1}
        BY <4>1, <4>2
      <4>4. Cardinality(InEntry(r))' = 1
        BY <4>1, <4>2
      <4> QED
        BY <4>3, <4>4
    <3> QED
      BY <1>3, <2>1, <3>1, AddedEffects
  <2>2. CASE NotAdded
    <3>1. UNCHANGED <<added, entry>>
      BY <2>2 DEF NotAdded, streamVars
    <3>2. \A s \in Readings : InEntry(s)' = InEntry(s)
      BY <3>1 DEF InEntry
    <3>3. InEntry(r)' = {} /\ Cardinality(InEntry(r))' = 0
      BY <1>4, <3>2
    <3>4. entry' \in Seq(Readings) /\ Len(entry') = added' /\ added' \in Nat
      BY <1>3, <3>1 DEF IngestTypes
    <3> QED
      BY <3>2, <3>3, <3>4
  <2> QED
    BY <1>1, <2>1, <2>2
<1>6. PICK answer \in {"accepted", "rejected", "failed"}, id \in Nat :
          /\ Respond(r, answer, id)
          /\ reading[r].garbage => NotAdded
          /\ answer = "accepted" => Added(r) /\ id = added + 1
  BY <1>3 DEF Process, OnError, IngestTypes
<1>7. /\ reading' \in [Readings -> ReadingRecord]
      /\ \A s \in Readings \ {r} : reading'[s] = reading[s]
      /\ reading'[r].at = "done" /\ reading'[r].taken = 0 /\ reading'[r].id = id
      /\ reading'[r].garbage = reading[r].garbage
      /\ reading'[r].answer = IF reading[r].answer = "none" THEN answer ELSE reading[r].answer
  BY <1>3, <1>4, <1>6 DEF Respond, Update, IngestTypes, ReadingRecord
<1>8. ProgressInv(r)'
  BY <1>1, <1>4, <1>6, <1>7 DEF ProgressInv
<1>9. CopiesInv(r)'
  <2>1. (Cardinality(InEntry(r)) + Cardinality(InInbox(r)) <= Passed(r))'
    <3>1. Passed(r)' = 1
      BY <1>1, <1>4, <1>7 DEF Passed
    <3>2. Cardinality(InInbox(r))' = 0
      BY <1>2, <1>4
    <3> QED
      BY <1>5, <3>1, <3>2
  <2>2. (reading[r].garbage => InEntry(r) = {})'
    <3>1. NotAdded => InEntry(r)' = InEntry(r)
      BY DEF NotAdded, InEntry
    <3> QED
      BY <1>4, <1>6, <1>7, <3>1
  <2>3. (reading[r].answer = "accepted" => InEntry(r) = {reading[r].id})'
    <3>1. Added(r) => InEntry(r)' = {added + 1}
      BY <1>3, <1>4, AddedEffects
    <3> QED
      BY <1>4, <1>6, <1>7, <3>1
  <2> QED
    BY <2>1, <2>2, <2>3 DEF CopiesInv
<1>10. \A s \in Readings : ReadingInv(s)'
  <2>1. ReadingInv(r)'
    BY <1>8, <1>9 DEF ReadingInv
  <2>2. ASSUME NEW s \in Readings, s # r  PROVE ReadingInv(s)'
    <3>1. /\ ReadingInv(s) /\ reading'[s] = reading[s] /\ InEntry(s)' = InEntry(s)
          /\ transport' = transport /\ service' = service
      BY <1>1, <1>5, <1>7, <2>2 DEF IngestInv
    <3>2. Cardinality(InInbox(s))' = Cardinality(InInbox(s)) /\ Cardinality(InInbox(s)) \in Nat
      BY <1>2, <1>3, CountsAreNaturals
    <3>3. Cardinality(InInbox(s))' \in Nat /\ Cardinality(InInbox(s))' <= Cardinality(InInbox(s))
      BY <3>2
    <3> QED
      BY <1>3, <3>1, <3>3, ReadingLeftAlone
  <2> QED
    BY <2>1, <2>2
<1>11. IngestTypes' /\ ServiceInv'
  BY <1>1, <1>3, <1>4, <1>5, <1>7 DEF IngestTypes, ServiceInv
<1> QED
  BY <1>10, <1>11 DEF IngestInv

LEMMA IngestInvBrokerTakes ==
    ASSUME IngestInv, NEW r \in Readings, BrokerTakes(r)
    PROVE  IngestInv'
<1>1. /\ UNCHANGED <<added, transport, fleet, entry, service, groups>>
      /\ reading[r].at = "queued"
  BY DEF BrokerTakes, streamVars
<1>2. \A s \in Readings : InEntry(s)' = InEntry(s)
  BY <1>1 DEF InEntry
<1>3. IngestTypes /\ ProgressInv(r) /\ CopiesInv(r) /\ ServiceInv
  BY DEF IngestInv, ReadingInv
<1>4. /\ transport = "mqtt" /\ reading[r].taken \in {0, 1} /\ reading[r].answer = "none"
  <2>1. reading[r].taken \in 0..2
    BY <1>3 DEF IngestTypes, ReadingRecord
  <2> QED
    BY <1>1, <1>3, <2>1 DEF ProgressInv
<1>5. /\ reading' \in [Readings -> ReadingRecord]
      /\ \A s \in Readings \ {r} : reading'[s] = reading[s]
      /\ reading'[r].at \in {"queued", "done"} /\ reading'[r].taken = reading[r].taken + 1
      /\ reading'[r].at = "queued" => reading[r].taken = 0
      /\ reading'[r].garbage = reading[r].garbage
      /\ reading'[r].answer = "none"
  <2>1. CASE Update(r, [reading[r] EXCEPT !.at = "done", !.taken = @ + 1])
    <3> DEFINE new == [reading[r] EXCEPT !.at = "done", !.taken = reading[r].taken + 1]
    <3>1. /\ new \in ReadingRecord /\ new.at = "done" /\ new.taken = reading[r].taken + 1
          /\ new.garbage = reading[r].garbage /\ new.answer = "none"
      <4>1. reading[r] \in ReadingRecord /\ reading[r].taken + 1 \in 0..2
        BY <1>3, <1>4 DEF IngestTypes
      <4> QED
        BY <1>4, <4>1 DEF ReadingRecord
    <3> QED
      BY <1>3, <2>1, <3>1 DEF Update, IngestTypes
  <2>2. CASE reading[r].taken = 0 /\ Update(r, [reading[r] EXCEPT !.taken = 1])
    <3> DEFINE new == [reading[r] EXCEPT !.taken = 1]
    <3>1. /\ new \in ReadingRecord /\ new.at = "queued" /\ new.taken = reading[r].taken + 1
          /\ new.garbage = reading[r].garbage /\ new.answer = "none"
      <4>1. reading[r] \in ReadingRecord /\ reading[r].taken + 1 = 1
        BY <1>3, <2>2 DEF IngestTypes
      <4>2. reading[r].at = "queued" /\ reading[r].answer = "none" /\ 1 \in 0..2
        BY <1>1, <1>4
      <4> QED
        BY <4>1, <4>2 DEF ReadingRecord
    <3> QED
      BY <1>3, <2>2, <3>1 DEF Update, IngestTypes
  <2> QED
    BY <2>1, <2>2 DEF BrokerTakes
<1>6. /\ mqtt' \in SubscriberRecord
      /\ mqtt'.state = mqtt.state
      /\ mqtt'.inbox # <<>> => mqtt.state = "subscribed"
      /\ \A s \in Readings \ {r} : Cardinality(InInbox(s))' = Cardinality(InInbox(s))
      /\ Cardinality(InInbox(r))' <= Cardinality(InInbox(r)) + 1
      /\ \A s \in Readings : Cardinality(InInbox(s))' \in Nat
  <2>1. CASE mqtt.state = "subscribed" /\ mqtt' = [mqtt EXCEPT !.inbox = Append(@, r)]
    <3>2. mqtt.inbox \in Seq(Readings) /\ Append(mqtt.inbox, r) \in Seq(Readings)
      BY <1>3 DEF IngestTypes, SubscriberRecord
    <3>1. /\ mqtt' \in SubscriberRecord /\ mqtt'.state = mqtt.state
          /\ mqtt'.inbox = Append(mqtt.inbox, r)
      BY <1>3, <2>1, <3>2 DEF IngestTypes, SubscriberRecord
    <3>3. \A s \in Readings : Cardinality(InInbox(s)) \in Nat
      BY <1>3, CountsAreNaturals
    <3>4. \A s \in Readings : Cardinality(InInbox(s))' =
              IF r = s THEN Cardinality(InInbox(s)) + 1 ELSE Cardinality(InInbox(s))
      BY <3>1, <3>2, PositionsAppend DEF InInbox
    <3> QED
      BY <2>1, <3>1, <3>3, <3>4
  <2>2. CASE mqtt' = mqtt
    <3>1. \A s \in Readings : InInbox(s)' = InInbox(s)
      BY <2>2 DEF InInbox
    <3> QED
      BY <1>3, <2>2, <3>1, CountsAreNaturals DEF IngestTypes, ServiceInv
  <2> QED
    BY <2>1, <2>2 DEF BrokerTakes
<1>7. ProgressInv(r)'
  BY <1>1, <1>4, <1>5 DEF ProgressInv
<1>8. CopiesInv(r)'
  <2>1. Passed(r) = reading[r].taken /\ Passed(r)' = reading[r].taken + 1
    BY <1>1, <1>4, <1>5 DEF Passed
  <2>2. Cardinality(InEntry(r)) + Cardinality(InInbox(r)) <= Passed(r)
    BY <1>3 DEF CopiesInv
  <2>3. (Cardinality(InEntry(r)) + Cardinality(InInbox(r)) <= Passed(r))'
    BY <1>2, <1>3, <1>4, <1>6, <2>1, <2>2, CountsAreNaturals
  <2> QED
    BY <1>2, <1>3, <1>5, <2>3 DEF CopiesInv
<1>9. \A s \in Readings : ReadingInv(s)'
  BY <1>1, <1>2, <1>3, <1>5, <1>6, <1>7, <1>8, ReadingLeftAlone, CountsAreNaturals
     DEF IngestInv, ReadingInv
<1>10. IngestTypes' /\ ServiceInv'
  BY <1>1, <1>3, <1>4, <1>5, <1>6 DEF IngestTypes, ServiceInv
<1> QED
  BY <1>9, <1>10 DEF IngestInv

\* A reading of the inbox that is stored.
LEMMA ReadingStored ==
    ASSUME IngestTypes, NEW r \in Readings, ReadingInv(r), Added(r),
           transport = "mqtt", ~reading[r].garbage,
           reading'[r] = reading[r], transport' = transport,
           service = "up" => service' = "up" \/ reading[r].at # "request",
           Cardinality(InInbox(r))' \in Nat,
           Cardinality(InInbox(r))' + 1 <= Cardinality(InInbox(r))
    PROVE  ReadingInv(r)'
<1>1. Passed(r)' = Passed(r) /\ Passed(r) \in Nat
  BY PassedIsNatural DEF Passed
<1>2. /\ Cardinality(InEntry(r))' = Cardinality(InEntry(r)) + 1
      /\ Cardinality(InEntry(r)) \in Nat /\ Cardinality(InInbox(r)) \in Nat
  BY CountsAreNaturals, AddedEffects
<1>3. Cardinality(InEntry(r)) + Cardinality(InInbox(r)) <= Passed(r)
  BY DEF ReadingInv, CopiesInv
<1>4. Cardinality(InEntry(r))' + Cardinality(InInbox(r))' <= Passed(r)'
  BY <1>1, <1>2, <1>3
<1>5. reading[r].answer = "none"
  BY DEF ReadingInv, ProgressInv
<1>6. CopiesInv(r)'
  BY <1>4, <1>5 DEF CopiesInv
<1>7. ProgressInv(r)'
  BY DEF ReadingInv, ProgressInv
<1> QED
  BY <1>6, <1>7 DEF ReadingInv

LEMMA IngestInvSubscriber ==
    ASSUME IngestInv, Connect \/ LoseConnection \/ Wake \/ Start
    PROVE  IngestInv'
<1>1. /\ UNCHANGED <<added, entry, transport, fleet, reading>>
      /\ service = "up" => service' = "up" 
      /\ groups' \in groups..3
  BY DEF Connect, LoseConnection, Wake, Start, streamVars, IngestInv, IngestTypes
<1>2. IngestTypes /\ ServiceInv
  BY DEF IngestInv
<1>3. /\ mqtt' = mqtt \/ \E state \in {"connecting", "subscribed", "sleeping"}, delay \in Nat :
                            mqtt' = Subscriber(state, delay)
      /\ mqtt' # mqtt => service' = "up"
      /\ service' = "up" => groups' = 3
  <2>1. mqtt.delay \in Nat
    BY <1>2 DEF IngestTypes, SubscriberRecord
  <2>2. CASE Connect \/ LoseConnection
    BY <1>2, <2>1, <2>2 DEF Connect, LoseConnection, ServiceInv
  <2>3. CASE Wake
    <3>1. (IF mqtt.delay * 2 < MaxDelay THEN mqtt.delay * 2 ELSE MaxDelay) \in Nat
      BY <2>1, IngestionAssumption
    <3> QED
      BY <1>2, <2>3, <3>1 DEF Wake, AfterSleep, ServiceInv
  <2>4. CASE Start
    BY <1>2, <2>4 DEF Start, ServiceInv
  <2> QED
    BY <2>2, <2>3, <2>4
<1>4. /\ mqtt' \in SubscriberRecord
      /\ mqtt'.inbox # <<>> => mqtt'.inbox = mqtt.inbox /\ mqtt'.state = mqtt.state
      /\ mqtt'.state # "ended" => mqtt.state # "ended" \/ service' = "up"
  <2>1. CASE mqtt' = mqtt
    BY <1>2, <2>1 DEF IngestTypes
  <2>2. ASSUME NEW state \in {"connecting", "subscribed", "sleeping"}, NEW delay \in Nat,
               mqtt' = Subscriber(state, delay)
        PROVE  mqtt' \in SubscriberRecord /\ mqtt'.inbox = <<>>
    BY <2>2 DEF Subscriber, SubscriberRecord
  <2> QED
    BY <1>3, <2>1, <2>2
<1>5. ASSUME NEW s \in Readings
      PROVE  /\ InEntry(s)' = InEntry(s)
             /\ Cardinality(InInbox(s))' \in Nat
             /\ Cardinality(InInbox(s))' <= Cardinality(InInbox(s))
  <2>1. InEntry(s)' = InEntry(s)
    BY <1>1 DEF InEntry
  <2>2. Cardinality(InInbox(s)) \in Nat
    BY <1>2, CountsAreNaturals
  <2>3. CASE mqtt'.inbox = mqtt.inbox
    BY <2>1, <2>2, <2>3 DEF InInbox
  <2>4. CASE mqtt'.inbox = <<>>
    <3>1. Cardinality(InInbox(s))' = 0
      BY <2>4, PositionsInEmpty DEF InInbox
    <3> QED
      BY <2>1, <2>2, <3>1
  <2> QED
    BY <1>4, <2>3, <2>4
<1>6. \A s \in Readings : ReadingInv(s)'
  BY <1>1, <1>2, <1>5, ReadingLeftAlone DEF IngestInv
<1>7. IngestTypes'
  BY <1>1, <1>2, <1>4 DEF IngestTypes
<1>8. ServiceInv'
  BY <1>1, <1>2, <1>3, <1>4 DEF ServiceInv, IngestTypes
<1> QED
  BY <1>6, <1>7, <1>8 DEF IngestInv

LEMMA IngestInvHandle ==
    ASSUME IngestInv, Handle
    PROVE  IngestInv'
<1>1. IngestTypes /\ ServiceInv
  BY DEF IngestInv
<1>2. mqtt.inbox \in Seq(Readings) /\ Len(mqtt.inbox) \in Nat
  BY <1>1 DEF IngestTypes, SubscriberRecord
<1>3. /\ UNCHANGED <<transport, fleet, reading, service, groups>>
      /\ mqtt.inbox # <<>> /\ mqtt' = [mqtt EXCEPT !.inbox = Rest(mqtt.inbox)]
      /\ \/ ~reading[mqtt.inbox[1]].garbage /\ Added(mqtt.inbox[1])
         \/ UNCHANGED <<added, entry>>
  BY <1>2 DEF Handle, Turn, Rest, NotAdded, streamVars
<1> DEFINE r == mqtt.inbox[1]
<1>4. Rest(mqtt.inbox) \in Seq(Readings) /\ r \in Readings
  BY <1>2, <1>3, RestProperties
<1>5. /\ mqtt' \in SubscriberRecord /\ mqtt'.inbox = Rest(mqtt.inbox)
      /\ mqtt'.state = mqtt.state
  BY <1>1, <1>3, <1>4 DEF IngestTypes, SubscriberRecord
<1>6. transport = "mqtt" /\ service = "up" /\ groups = 3 /\ mqtt.state = "subscribed"
  BY <1>1, <1>3 DEF ServiceInv
<1>7. ASSUME NEW s \in Readings
      PROVE  /\ Cardinality(InInbox(s))' \in Nat
             /\ Cardinality(InInbox(s))' + (IF r = s THEN 1 ELSE 0) = Cardinality(InInbox(s))
  <2>1. InInbox(s)' = Positions(Rest(mqtt.inbox), s)
    BY <1>5 DEF InInbox
  <2>2. Cardinality(InInbox(s))' \in Nat
    BY <1>4, <2>1, PositionsAreFinite
  <2> QED
    BY <1>2, <1>3, <2>1, <2>2, PositionsRest DEF InInbox
<1>8. CASE UNCHANGED <<added, entry>>
  <2>1. \A s \in Readings : InEntry(s)' = InEntry(s)
    BY <1>8 DEF InEntry
  <2>2. ASSUME NEW s \in Readings  PROVE ReadingInv(s)'
    <3>1. Cardinality(InInbox(s)) \in Nat
      BY <1>1, CountsAreNaturals
    <3>2. Cardinality(InInbox(s))' <= Cardinality(InInbox(s))
      BY <1>7, <3>1
    <3> QED
      BY <1>1, <1>3, <1>7, <2>1, <3>2, ReadingLeftAlone DEF IngestInv
  <2>3. IngestTypes' /\ ServiceInv'
    BY <1>1, <1>3, <1>5, <1>6, <1>8 DEF IngestTypes, ServiceInv
  <2> QED
    BY <2>2, <2>3 DEF IngestInv
<1>9. CASE ~reading[r].garbage /\ Added(r)
  <2>1. /\ entry' \in Seq(Readings) /\ Len(entry') = added' /\ added' \in Nat
        /\ \A s \in Readings \ {r} : InEntry(s)' = InEntry(s)
    BY <1>1, <1>4, <1>9, AddedEffects
  <2>2. ASSUME NEW s \in Readings  PROVE ReadingInv(s)'
    <3>1. Cardinality(InInbox(s)) \in Nat /\ ReadingInv(s)
      BY <1>1, CountsAreNaturals DEF IngestInv
    <3>2. CASE s = r
      <4>1. Cardinality(InInbox(s))' + 1 <= Cardinality(InInbox(s))
        BY <1>7, <3>1, <3>2
      <4> QED
        BY <1>1, <1>3, <1>6, <1>7, <1>9, <3>1, <3>2, <4>1, ReadingStored
    <3>3. CASE s # r
      <4>1. Cardinality(InInbox(s))' <= Cardinality(InInbox(s))
        BY <1>7, <3>1, <3>3
      <4> QED
        BY <1>1, <1>3, <1>7, <2>1, <3>1, <3>3, <4>1, ReadingLeftAlone
    <3> QED
      BY <3>2, <3>3
  <2>3. IngestTypes' /\ ServiceInv'
    BY <1>1, <1>3, <1>5, <1>6, <2>1 DEF IngestTypes, ServiceInv
  <2> QED
    BY <2>2, <2>3 DEF IngestInv
<1> QED
  BY <1>3, <1>8, <1>9

LEMMA IngestInvStopService ==
    ASSUME IngestInv, StopService
    PROVE  IngestInv'
<1>1. IngestTypes /\ ServiceInv
  BY DEF IngestInv
<1>2. mqtt.inbox \in Seq(Readings)
  BY <1>1 DEF IngestTypes, SubscriberRecord
<1>3. /\ UNCHANGED <<transport, fleet, groups>> /\ service = "up" /\ service' = "down"
      /\ mqtt' = Subscriber("ended", 1) /\ groups = 3
  BY <1>1 DEF StopService, ServiceInv
<1>4. mqtt' \in SubscriberRecord /\ mqtt'.inbox = <<>> /\ mqtt'.state = "ended"
  BY <1>3 DEF Subscriber, SubscriberRecord
<1>5. \A s \in Readings : Cardinality(InInbox(s))' = 0
  BY <1>4, PositionsInEmpty DEF InInbox
<1>6. ASSUME NEW s \in Readings
      PROVE  /\ reading'[s] \in ReadingRecord
             /\ reading[s].at # "request" => reading'[s] = reading[s]
             /\ reading[s].at = "request" =>
                   /\ reading'[s].at = "done" /\ reading'[s].taken = reading[s].taken
                   /\ reading'[s].garbage = reading[s].garbage
                   /\ reading'[s].answer \in {"failed", "gave up"}
  <2>1. reading[s] \in ReadingRecord /\ ProgressInv(s)
    BY <1>1 DEF IngestTypes, IngestInv, ReadingInv
  <2>2. CASE reading[s].at # "request"
    BY <2>1, <2>2 DEF StopService
  <2>3. CASE reading[s].at = "request"
    <3>1. reading'[s] = [reading[s] EXCEPT !.at = "done",
              !.answer = IF reading[s].answer = "none" THEN "failed" ELSE reading[s].answer]
      BY <2>3 DEF StopService
    <3>2. reading[s].answer \in {"none", "gave up"}
      BY <2>1, <2>3 DEF ProgressInv
    <3> QED
      BY <2>1, <2>3, <3>1, <3>2 DEF ReadingRecord
  <2> QED
    BY <2>2, <2>3
<1>7. DOMAIN reading' = Readings /\ reading' \in [Readings -> ReadingRecord]
  BY <1>6 DEF StopService
<1>8. CASE NotAdded
  <2>1. UNCHANGED <<added, entry>>
    BY <1>8 DEF NotAdded, streamVars
  <2>2. \A s \in Readings : InEntry(s)' = InEntry(s)
    BY <2>1 DEF InEntry
  <2>3. ASSUME NEW s \in Readings  PROVE ReadingInv(s)'
    <3>1. /\ ProgressInv(s) /\ CopiesInv(s) /\ Passed(s) \in Nat
          /\ Cardinality(InEntry(s)) \in Nat /\ Cardinality(InInbox(s)) \in Nat
      BY <1>1, CountsAreNaturals, PassedIsNatural DEF IngestInv, ReadingInv
    <3>2. Passed(s)' >= Passed(s) /\ Passed(s)' \in Nat
      <4>1. CASE reading[s].at # "request"
        <5>1. Passed(s)' = Passed(s)
          BY <1>3, <1>6, <4>1 DEF Passed
        <5> QED
          BY <3>1, <5>1
      <4>2. CASE reading[s].at = "request"
        <5>1. transport # "mqtt"
          BY <3>1, <4>2 DEF ProgressInv
        <5>2. Passed(s) = 0 /\ Passed(s)' = 1
          BY <1>3, <1>6, <4>2, <5>1 DEF Passed
        <5> QED
          BY <5>2
      <4> QED
        BY <4>1, <4>2
    <3>3. (Cardinality(InEntry(s)) + Cardinality(InInbox(s)) <= Passed(s))'
      <4>1. Cardinality(InEntry(s)) + Cardinality(InInbox(s)) <= Passed(s)
        BY <3>1 DEF CopiesInv
      <4> QED
        BY <1>5, <2>2, <3>1, <3>2, <4>1
    <3>4. CASE reading[s].at # "request"
      <4>1. ProgressInv(s)'
        BY <1>3, <1>6, <3>1, <3>4 DEF ProgressInv
      <4>2. CopiesInv(s)'
        BY <1>6, <2>2, <3>1, <3>3, <3>4 DEF CopiesInv
      <4> QED
        BY <4>1, <4>2 DEF ReadingInv
    <3>5. CASE reading[s].at = "request"
      <4>1. ProgressInv(s)'
        BY <1>3, <1>6, <3>1, <3>5 DEF ProgressInv
      <4>2. CopiesInv(s)'
        BY <1>6, <2>2, <3>1, <3>3, <3>5 DEF CopiesInv
      <4> QED
        BY <4>1, <4>2 DEF ReadingInv
    <3> QED
      BY <3>4, <3>5
  <2>4. IngestTypes' /\ ServiceInv'
    BY <1>1, <1>3, <1>4, <1>7, <2>1 DEF IngestTypes, ServiceInv
  <2> QED
    BY <2>3, <2>4 DEF IngestInv
<1>9. CASE mqtt.inbox # <<>> /\ ~reading[Head(mqtt.inbox)].garbage /\ Added(Head(mqtt.inbox))
  <2> DEFINE r == mqtt.inbox[1]
  <2>1. r \in Readings /\ ~reading[r].garbage /\ Added(r)
    BY <1>2, <1>9, RestProperties
  <2>2. transport = "mqtt"
    BY <1>1, <1>9 DEF ServiceInv
  <2>3. \A s \in Readings : reading'[s] = reading[s] /\ reading[s].at # "request"
    BY <1>6, <2>2 DEF IngestInv, ReadingInv, ProgressInv
  <2>4. /\ entry' \in Seq(Readings) /\ Len(entry') = added' /\ added' \in Nat
        /\ \A s \in Readings \ {r} : InEntry(s)' = InEntry(s)
    BY <1>1, <2>1, AddedEffects
  <2>5. ASSUME NEW s \in Readings  PROVE ReadingInv(s)'
    <3>1. /\ Cardinality(InInbox(s)) \in Nat /\ ReadingInv(s)
          /\ Cardinality(InEntry(s)) \in Nat
      BY <1>1, CountsAreNaturals DEF IngestInv
    <3>2. CASE s = r
      <4>1. Cardinality(InInbox(s)) =
                Cardinality(Positions(Rest(mqtt.inbox), s)) + 1
        BY <1>2, <1>9, <3>2, PositionsRest DEF InInbox
      <4>2. Cardinality(Positions(Rest(mqtt.inbox), s)) \in Nat
        BY <1>2, <1>9, RestProperties, PositionsAreFinite
      <4>3. Cardinality(InInbox(s))' + 1 <= Cardinality(InInbox(s))
        BY <1>5, <4>1, <4>2
      <4>4. Cardinality(InInbox(s))' \in Nat
        BY <1>5
      <4> QED
        BY <1>1, <1>3, <2>1, <2>2, <2>3, <3>1, <3>2, <4>3, <4>4, ReadingStored
    <3>3. CASE s # r
      <4>1. /\ InEntry(s)' = InEntry(s) /\ reading'[s] = reading[s]
            /\ reading[s].at # "request"
        BY <2>3, <2>4, <3>3
      <4>2. ProgressInv(s)'
        BY <1>3, <3>1, <4>1 DEF ReadingInv, ProgressInv
      <4>3. Passed(s)' = Passed(s) /\ Passed(s) \in Nat
        BY <1>1, <1>3, <4>1, PassedIsNatural DEF Passed
      <4>4. Cardinality(InEntry(s)) + Cardinality(InInbox(s)) <= Passed(s)
        BY <3>1 DEF ReadingInv, CopiesInv
      <4>5. (Cardinality(InEntry(s)) + Cardinality(InInbox(s)) <= Passed(s))'
        BY <1>5, <3>1, <4>1, <4>3, <4>4
      <4>6. CopiesInv(s)'
        BY <3>1, <4>1, <4>5 DEF ReadingInv, CopiesInv
      <4> QED
        BY <4>2, <4>6 DEF ReadingInv
    <3> QED
      BY <3>2, <3>3
  <2>6. IngestTypes' /\ ServiceInv'
    BY <1>1, <1>3, <1>4, <1>7, <2>4 DEF IngestTypes, ServiceInv
  <2> QED
    BY <2>5, <2>6 DEF IngestInv
<1> QED
  BY <1>8, <1>9 DEF StopService

LEMMA IngestInvDisconnect ==
    ASSUME IngestInv, DisconnectPublisher
    PROVE  IngestInv'
<1>1. /\ UNCHANGED <<added, entry, transport, fleet, service, groups, mqtt>>
      /\ transport = "mqtt" /\ DOMAIN reading' = Readings
  BY DEF DisconnectPublisher, streamVars
<1>2. IngestTypes /\ ServiceInv
  BY DEF IngestInv
<1>3. ASSUME NEW s \in Readings
      PROVE  reading'[s] \in ReadingRecord /\ ReadingInv(s)'
  <2>1. reading[s] \in ReadingRecord /\ ReadingInv(s)
    BY <1>2 DEF IngestTypes, IngestInv
  <2>2. InEntry(s)' = InEntry(s) /\ InInbox(s)' = InInbox(s)
    BY <1>1 DEF InEntry, InInbox
  <2>3. CASE reading[s].at # "queued"
    <3>1. reading'[s] = reading[s]
      BY <2>3 DEF DisconnectPublisher
    <3> QED
      BY <1>1, <1>2, <2>1, <2>2, <3>1, ReadingLeftAlone, CountsAreNaturals
  <2>4. CASE reading[s].at = "queued"
    <3>1. reading'[s] = [reading[s] EXCEPT !.at = "done"]
      BY <2>4 DEF DisconnectPublisher
    <3>2. /\ reading'[s] \in ReadingRecord /\ reading'[s].at = "done"
          /\ reading'[s].taken = reading[s].taken /\ reading'[s].garbage = reading[s].garbage
          /\ reading'[s].answer = reading[s].answer
      BY <2>1, <3>1 DEF ReadingRecord
    <3>3. ProgressInv(s)'
      BY <1>1, <2>1, <3>2 DEF ReadingInv, ProgressInv
    <3>4. Passed(s)' = Passed(s)
      BY <1>1, <3>2 DEF Passed
    <3>5. CopiesInv(s)'
      BY <1>1, <2>1, <2>2, <3>2, <3>4 DEF ReadingInv, ProgressInv, CopiesInv
    <3> QED
      BY <3>2, <3>3, <3>5 DEF ReadingInv
  <2> QED
    BY <2>3, <2>4
<1>4. reading' \in [Readings -> ReadingRecord]
  BY <1>1, <1>3 DEF DisconnectPublisher
<1> QED
  BY <1>1, <1>2, <1>3, <1>4 DEF IngestInv, IngestTypes, ServiceInv

LEMMA IngestInvNext ==
    ASSUME IngestInv, [IngestNext]_ingestVars
    PROVE  IngestInv'
<1>1. ASSUME NextCycle \/ StopFleet \/ UNCHANGED ingestVars  PROVE IngestInv'
  <2>1. UNCHANGED <<added, entry, transport, service, groups, mqtt, reading>>
    BY <1>1 DEF NextCycle, StopFleet, ingestVars, ingestOwn, streamVars
  <2>2. fleet' \in [cycle : Nat, running : BOOLEAN, broken : BOOLEAN]
    <3>1. fleet \in [cycle : Nat, running : BOOLEAN, broken : BOOLEAN]
      BY DEF IngestInv, IngestTypes
    <3>2. CASE NextCycle
      BY <3>1, <3>2 DEF NextCycle
    <3>3. CASE StopFleet
      BY <3>1, <3>3 DEF StopFleet
    <3>4. CASE UNCHANGED ingestVars
      BY <3>1, <3>4 DEF ingestVars, ingestOwn
    <3> QED
      BY <1>1, <3>2, <3>3, <3>4
  <2>3. IngestTypes' /\ ServiceInv'
    BY <2>1, <2>2 DEF IngestInv, IngestTypes, ServiceInv
  <2>4. ASSUME NEW s \in Readings  PROVE ReadingInv(s)'
    <3>1. InEntry(s)' = InEntry(s) /\ InInbox(s)' = InInbox(s)
      BY <2>1 DEF InEntry, InInbox
    <3> QED
      BY <2>1, <3>1, ReadingLeftAlone, CountsAreNaturals DEF IngestInv
  <2> QED
    BY <2>3, <2>4 DEF IngestInv
<1> QED
  BY <1>1, IngestInvPublish, IngestInvProcess, IngestInvBrokerTakes, IngestInvDisconnect,
     IngestInvSubscriber, IngestInvHandle, IngestInvStopService
     DEF IngestNext, FleetStep, SubscriberStep

(***************************************************************************)
(* An accepted reading is in the stream under the ID it was answered with, *)
(* nothing is there more often than the broker took it, what does not      *)
(* parse is not there, and nothing is there before the consumer groups:    *)
(* for every fleet and transport, and wherever XADDs, acknowledgements,    *)
(* connections and the service (data-ingestion) fail.                      *)
(***************************************************************************)
THEOREM AcceptedAlwaysInStream ==
    IngestInit /\ [][IngestNext]_ingestVars => []AcceptedIsInStream
<1>1. IngestInv => AcceptedIsInStream
  <2> SUFFICES ASSUME IngestInv  PROVE AcceptedIsInStream
    OBVIOUS
  <2>1. entry # <<>> => groups = 3
    BY DEF IngestInv, ServiceInv
  <2>2. ASSUME NEW r \in Readings
        PROVE  /\ reading[r].answer = "accepted" => Copies(r) = {reading[r].id}
               /\ Cardinality(Copies(r)) <= IF transport = "mqtt" THEN reading[r].taken ELSE 1
               /\ reading[r].garbage => Copies(r) = {}
    <3>1. Copies(r) = InEntry(r)
      BY DEF Copies, InEntry, Positions
    <3>2. /\ Cardinality(InEntry(r)) \in Nat /\ Cardinality(InInbox(r)) \in Nat
          /\ Passed(r) \in Nat /\ CopiesInv(r)
      BY CountsAreNaturals, PassedIsNatural DEF IngestInv, ReadingInv
    <3>3. Cardinality(InEntry(r)) <= Passed(r)
      BY <3>2 DEF CopiesInv
    <3>4. Cardinality(InEntry(r)) <= IF transport = "mqtt" THEN reading[r].taken ELSE 1
      BY <3>2, <3>3 DEF Passed
    <3> QED
      BY <3>1, <3>2, <3>4 DEF CopiesInv
  <2> QED
    BY <2>1, <2>2 DEF AcceptedIsInStream
<1> QED
  BY <1>1, IngestInvInit, IngestInvNext, PTL

(***************************************************************************)
(* What becomes of a reading: it is never unsent again, keeps its answer,  *)
(* and is taken by the broker only when that takes it.                     *)
(***************************************************************************)
LEMMA ReadingsGoOn ==
    ASSUME IngestInv, [IngestNext]_ingestVars, NEW s \in Readings
    PROVE  /\ reading'[s].at = "unsent" => reading[s].at = "unsent"
           /\ reading[s].at = "unsent" /\ reading'[s].at # "unsent" => Cycle(s) = fleet.cycle
           /\ reading[s].answer # "none" => reading'[s].answer = reading[s].answer
           /\ reading'[s].taken # reading[s].taken =>
                 BrokerTakes(s) /\ reading'[s].taken = reading[s].taken + 1
           /\ transport' = transport
<1>1. reading \in [Readings -> ReadingRecord] /\ ReadingInv(s)
  BY DEF IngestInv, IngestTypes
<1>2. CASE reading'[s] = reading[s] /\ transport' = transport
  BY <1>2
<1>3. ASSUME NEW r \in Readings, r # s, NEW new, Update(r, new), transport' = transport
      PROVE  reading'[s] = reading[s] /\ transport' = transport
  BY <1>1, <1>3 DEF Update
<1>4. ASSUME NEW r \in Readings, r # s,
             Publish(r) \/ GiveUp(r) \/ Process(r) \/ BrokerTakes(r)
      PROVE  reading'[s] = reading[s] /\ transport' = transport
  BY <1>3, <1>4 DEF Publish, GiveUp, Process, OnError, Respond, BrokerTakes
<1>5. ASSUME Publish(s)
      PROVE  /\ reading[s].at = "unsent" /\ Cycle(s) = fleet.cycle
             /\ reading'[s].taken = reading[s].taken /\ transport' = transport
             /\ reading[s].answer = "none"
  <2>1. reading[s] \in ReadingRecord /\ reading[s].at = "unsent" /\ reading[s].answer = "none"
    BY <1>1, <1>5 DEF Publish, ReadingInv, ProgressInv
  <2>2. \/ \E g \in BOOLEAN, place \in {"queued", "request"} :
              reading'[s] = [reading[s] EXCEPT !.at = place, !.garbage = g]
        \/ reading'[s] = [reading[s] EXCEPT !.at = "done", !.answer = "failed"]
    BY <1>1, <1>5 DEF Publish, Update
  <2>3. reading'[s].taken = reading[s].taken
    BY <2>1, <2>2 DEF ReadingRecord
  <2> QED
    BY <1>5, <2>1, <2>3 DEF Publish
<1>6. ASSUME GiveUp(s)
      PROVE  /\ reading'[s].at = reading[s].at /\ reading[s].answer = "none"
             /\ reading'[s].taken = reading[s].taken /\ transport' = transport
  BY <1>1, <1>6 DEF GiveUp, Update, ReadingRecord
<1>7. ASSUME Process(s)
      PROVE  /\ reading'[s].at = "done" /\ reading[s].at = "request"
             /\ reading'[s].taken = reading[s].taken /\ transport' = transport
             /\ reading[s].answer # "none" => reading'[s].answer = reading[s].answer
  <2>1. added \in Nat
    BY DEF IngestInv, IngestTypes
  <2>2. PICK answer \in {"accepted", "rejected", "failed"}, id \in Nat : Respond(s, answer, id)
    BY <1>7, <2>1 DEF Process, OnError
  <2>3. PICK a \in {"accepted", "rejected", "failed", "gave up", "none"} :
                 /\ reading'[s] = [reading[s] EXCEPT !.at = "done", !.id = id, !.answer = a]
                 /\ reading[s].answer # "none" => a = reading[s].answer
    BY <1>1, <2>2 DEF Respond, Update, ReadingRecord
  <2>4. /\ reading'[s].at = "done" /\ reading'[s].taken = reading[s].taken
        /\ reading'[s].answer = a
    <3>1. reading[s] \in ReadingRecord
      BY <1>1
    <3>2. reading'[s] = [reading[s] EXCEPT !.at = "done", !.id = id, !.answer = a]
      BY <2>3
    <3> QED
      BY <3>1, <3>2 DEF ReadingRecord
  <2> QED
    BY <1>7, <2>3, <2>4 DEF Process
<1>8. ASSUME BrokerTakes(s)
      PROVE  /\ reading'[s].at \in {"queued", "done"} /\ reading[s].at = "queued"
             /\ reading'[s].taken = reading[s].taken + 1 /\ transport' = transport
             /\ reading'[s].answer = reading[s].answer
  <2>1. CASE Update(s, [reading[s] EXCEPT !.at = "done", !.taken = @ + 1])
    BY <1>1, <1>8, <2>1 DEF BrokerTakes, Update, ReadingRecord
  <2>2. CASE reading[s].taken = 0 /\ Update(s, [reading[s] EXCEPT !.taken = 1])
    <3>1. reading'[s] = [reading[s] EXCEPT !.taken = 1] /\ reading[s].at = "queued"
      BY <1>1, <1>8, <2>2 DEF BrokerTakes, Update
    <3>2. /\ reading'[s].at = reading[s].at /\ reading'[s].taken = 1
          /\ reading'[s].answer = reading[s].answer
      BY <1>1, <3>1 DEF ReadingRecord
    <3> QED
      BY <1>8, <2>2, <3>1, <3>2 DEF BrokerTakes
  <2> QED
    BY <1>8, <2>1, <2>2 DEF BrokerTakes
<1>9. ASSUME StopService \/ DisconnectPublisher
      PROVE  /\ reading'[s].at = "unsent" <=> reading[s].at = "unsent"
             /\ reading[s].answer # "none" => reading'[s].answer = reading[s].answer
             /\ reading'[s].taken = reading[s].taken /\ transport' = transport
  <2>1. CASE StopService
    <3>1. CASE reading[s].at # "request"
      <4>1. reading'[s] = reading[s] /\ transport' = transport
        BY <2>1, <3>1 DEF StopService
      <4> QED
        BY <4>1
    <3>2. CASE reading[s].at = "request"
      <4>1. PICK a \in {"accepted", "rejected", "failed", "gave up", "none"} :
                     /\ reading'[s] = [reading[s] EXCEPT !.at = "done", !.answer = a]
                     /\ reading[s].answer # "none" => a = reading[s].answer
        BY <1>1, <2>1, <3>2 DEF StopService, ReadingRecord
      <4>2. /\ reading'[s].at = "done" /\ reading'[s].taken = reading[s].taken
            /\ reading'[s].answer = a
        <5>1. reading[s] \in ReadingRecord
          BY <1>1
        <5>2. reading'[s] = [reading[s] EXCEPT !.at = "done", !.answer = a]
          BY <4>1
        <5> QED
          BY <5>1, <5>2 DEF ReadingRecord
      <4> QED
        BY <2>1, <3>2, <4>1, <4>2 DEF StopService
    <3> QED
      BY <3>1, <3>2
  <2>2. CASE DisconnectPublisher
    <3>1. CASE reading[s].at # "queued"
      <4>1. reading'[s] = reading[s] /\ transport' = transport
        BY <2>2, <3>1 DEF DisconnectPublisher
      <4> QED
        BY <4>1
    <3>2. CASE reading[s].at = "queued"
      <4>1. reading'[s] = [reading[s] EXCEPT !.at = "done"]
        BY <2>2, <3>2 DEF DisconnectPublisher
      <4>2. /\ reading'[s].at = "done" /\ reading'[s].taken = reading[s].taken
            /\ reading'[s].answer = reading[s].answer
        <5>1. reading[s] \in ReadingRecord
          BY <1>1
        <5> QED
          BY <4>1, <5>1 DEF ReadingRecord
      <4> QED
        BY <2>2, <3>2, <4>2 DEF DisconnectPublisher
    <3> QED
      BY <3>1, <3>2
  <2> QED
    BY <1>9, <2>1, <2>2
<1>10. ASSUME NextCycle \/ StopFleet \/ SubscriberStep \/ LoseConnection \/ Start
              \/ UNCHANGED ingestVars
       PROVE  reading'[s] = reading[s] /\ transport' = transport
  BY <1>10 DEF NextCycle, StopFleet, SubscriberStep, Connect, Wake, Handle, LoseConnection,
               Start, ingestVars, ingestOwn
<1>11. CASE \E r \in Readings : Publish(r) \/ GiveUp(r) \/ Process(r) \/ BrokerTakes(r)
  <2>1. PICK r \in Readings : Publish(r) \/ GiveUp(r) \/ Process(r) \/ BrokerTakes(r)
    BY <1>11
  <2>2. CASE r # s
    BY <1>2, <1>4, <2>1, <2>2
  <2>3. CASE r = s /\ (Publish(s) \/ GiveUp(s) \/ Process(s))
    BY <1>5, <1>6, <1>7, <2>3
  <2>4. CASE r = s /\ BrokerTakes(s)
    BY <1>8, <2>4
  <2> QED
    BY <2>1, <2>2, <2>3, <2>4
<1> QED
  BY <1>2, <1>9, <1>10, <1>11 DEF IngestNext, FleetStep

-----------------------------------------------------------------------------
Earlier(q, r) == q[1] = r[1] /\ Cycle(q) < Cycle(r)

Ahead(X, Y) == \A i \in X, j \in Y : i < j

\* Readings whose entries are where the order of sending puts them.
Dependable(q) == reading[q].taken <= 1 /\ reading[q].answer # "gave up"

FleetInv(r) ==
    /\ reading[r].at # "unsent" => Cycle(r) <= fleet.cycle
    /\ Cycle(r) < fleet.cycle => Returned(r)

OrderedInv(q, r) ==
    /\ Ahead(InEntry(q), InEntry(r))
    /\ Ahead(InInbox(q), InInbox(r))
    /\ InInbox(q) = {} \/ InEntry(r) = {}

OrderInv ==
    /\ \A r \in Readings : FleetInv(r)
    /\ \A q, r \in Readings : Earlier(q, r) =>
          /\ transport = "mqtt" /\ reading[r].taken > 0 => reading[q].taken > 0
          /\ Dependable(q) => OrderedInv(q, r)

LEMMA CyclesAreNaturals == \A r \in Readings : Cycle(r) \in Nat
BY IngestionAssumption DEF Readings, Cycle

LEMMA FleetInvNext ==
    ASSUME IngestInv, OrderInv, [IngestNext]_ingestVars, NEW r \in Readings
    PROVE  FleetInv(r)'
<1>1. FleetInv(r) /\ fleet.cycle \in Nat /\ Cycle(r) \in Nat
  BY CyclesAreNaturals DEF OrderInv, IngestInv, IngestTypes
<1>2. CASE NextCycle
  <2>1. fleet'.cycle = fleet.cycle + 1 /\ UNCHANGED <<reading, transport>>
    BY <1>2 DEF NextCycle, IngestInv, IngestTypes
  <2>2. Cycle(r) = fleet.cycle => Returned(r)
    BY <1>2 DEF NextCycle, CycleDone
  <2> QED
    BY <1>1, <2>1, <2>2 DEF FleetInv, Returned
<1>3. CASE ~NextCycle
  <2>1. fleet'.cycle = fleet.cycle
    BY <1>3 DEF IngestNext, FleetStep, SubscriberStep, StopFleet, Publish, GiveUp, BrokerTakes,
                DisconnectPublisher, Process, Connect, Wake, Handle, LoseConnection, Start,
                StopService, ingestVars, ingestOwn, IngestInv, IngestTypes
  <2>2. Returned(r) => Returned(r)'
    BY ReadingsGoOn DEF Returned
  <2> QED
    BY <1>1, <2>1, <2>2, ReadingsGoOn DEF FleetInv
<1> QED
  BY <1>2, <1>3

LEMMA TakenInOrder ==
    ASSUME IngestInv, OrderInv, [IngestNext]_ingestVars,
           NEW q \in Readings, NEW r \in Readings, Earlier(q, r)
    PROVE  (transport = "mqtt" /\ reading[r].taken > 0 => reading[q].taken > 0)'
<1>1. reading[q].taken \in 0..2 /\ reading[r].taken \in 0..2 /\ transport' = transport
  BY ReadingsGoOn DEF IngestInv, IngestTypes, ReadingRecord
<1>2. reading[q].taken > 0 => reading'[q].taken > 0
  BY <1>1, ReadingsGoOn
<1>3. CASE reading'[r].taken = reading[r].taken
  BY <1>1, <1>2, <1>3 DEF OrderInv
<1>4. CASE BrokerTakes(r)
  <2>1. reading[q].taken > 0
    BY <1>4 DEF BrokerTakes, EarlierTaken, Earlier
  <2> QED
    BY <1>2, <2>1
<1> QED
  BY <1>3, <1>4, ReadingsGoOn

LEMMA StillDependable ==
    ASSUME IngestInv, [IngestNext]_ingestVars, NEW q \in Readings, Dependable(q)'
    PROVE  Dependable(q)
<1>1. reading[q].taken \in 0..2
  BY DEF IngestInv, IngestTypes, ReadingRecord
<1>2. reading[q].taken <= 1
  <2>1. reading'[q].taken <= 1
    BY DEF Dependable
  <2>2. reading'[q].taken = reading[q].taken \/ reading'[q].taken = reading[q].taken + 1
    BY ReadingsGoOn
  <2> QED
    BY <1>1, <2>1, <2>2
<1>3. reading[q].answer # "gave up"
  BY ReadingsGoOn DEF Dependable
<1> QED
  BY <1>2, <1>3 DEF Dependable

LEMMA PositionsInRange ==
    ASSUME IngestTypes, NEW r
    PROVE  /\ \A i \in InEntry(r) : i \in Nat /\ i < added + 1
           /\ \A i \in InInbox(r) : i \in Nat /\ i < Len(mqtt.inbox) + 1
<1>1. Len(entry) = added /\ Len(entry) \in Nat /\ Len(mqtt.inbox) \in Nat
  BY DEF IngestTypes, SubscriberRecord
<1> QED
  BY <1>1 DEF InEntry, InInbox, Positions

\* Nothing has come of a reading that was never handed over.
LEMMA NothingPassed ==
    ASSUME IngestTypes, NEW r \in Readings, ReadingInv(r),
           reading[r].at = "unsent" \/ (transport = "mqtt" /\ reading[r].taken = 0)
    PROVE  InEntry(r) = {} /\ InInbox(r) = {}
<1>1. Passed(r) = 0
  BY DEF ReadingInv, ProgressInv, Passed
<1>2. Cardinality(InEntry(r)) + Cardinality(InInbox(r)) <= 0
  BY <1>1 DEF ReadingInv, CopiesInv
<1>3. Cardinality(InEntry(r)) = 0 /\ Cardinality(InInbox(r)) = 0
  BY <1>2, CountsAreNaturals
<1>4. IsFiniteSet(InInbox(r))
  BY PositionsAreFinite DEF IngestTypes, SubscriberRecord, InInbox
<1> QED
  BY <1>3, <1>4, CountsAreNaturals, FS_EmptySet

\* Steps by which nothing comes into the stream or the inbox.
LEMMA NothingComes ==
    ASSUME NEW q, NEW r, OrderedInv(q, r),
           \A x : InEntry(x)' = InEntry(x),
           \A x : InInbox(x)' \in {InInbox(x), {}}
    PROVE  OrderedInv(q, r)'
BY DEF OrderedInv, Ahead

LEMMA OrderedProcess ==
    ASSUME IngestInv, OrderInv, NEW x \in Readings, Process(x),
           NEW q \in Readings, NEW r \in Readings, Earlier(q, r),
           Dependable(q), Dependable(q)'
    PROVE  OrderedInv(q, r)'
<1>1. IngestTypes /\ ReadingInv(x) /\ ReadingInv(q) /\ ReadingInv(r) /\ ServiceInv
  BY DEF IngestInv
<1>2. OrderedInv(q, r)
  BY DEF OrderInv
<1>3. /\ reading[x].at = "request" /\ UNCHANGED <<transport, mqtt>>
      /\ Added(x) \/ NotAdded
  BY DEF Process
<1>4. transport # "mqtt"
  BY <1>1, <1>3 DEF ReadingInv, ProgressInv
<1>5. \A y : InInbox(y)' = InInbox(y)
  BY <1>3 DEF InInbox
<1>6. CASE NotAdded
  <2>1. \A y : InEntry(y)' = InEntry(y)
    BY <1>6 DEF NotAdded, InEntry
  <2> QED
    BY <1>2, <1>5, <2>1, NothingComes
<1>7. mqtt.inbox = <<>>
  BY <1>1, <1>4 DEF ServiceInv
<1>8. InInbox(q)' = {} /\ InInbox(r)' = {}
  BY <1>5, <1>7, PositionsInEmpty DEF InInbox
<1>9. CASE Added(x)
  <2>1. /\ InEntry(x)' = InEntry(x) \cup {added + 1}
        /\ \A s \in Readings \ {x} : InEntry(s)' = InEntry(s)
    BY <1>1, <1>9, AddedEffects
  <2>2. q # r /\ Cycle(q) < Cycle(r) /\ Cycle(q) \in Nat /\ Cycle(r) \in Nat
    BY CyclesAreNaturals DEF Earlier
  <2>3. CASE x = q
    <3>1. reading[q].answer = "none"
      <4>1. reading'[q].answer # "gave up"
        BY DEF Dependable
      <4>2. [IngestNext]_ingestVars
        BY DEF IngestNext
      <4>3. reading[q].answer \in {"none", "gave up"}
        BY <1>1, <1>3, <2>3 DEF ReadingInv, ProgressInv
      <4>4. reading[q].answer # "gave up"
        BY DEF Dependable
      <4> QED
        BY <4>3, <4>4
    <3>2. ~(Cycle(q) < fleet.cycle)
      BY <1>4, <3>1 DEF OrderInv, FleetInv, Returned
    <3>3. ~(Cycle(r) <= fleet.cycle)
      BY <1>1, <2>2, <3>2 DEF IngestTypes
    <3>4. reading[r].at = "unsent"
      BY <3>3 DEF OrderInv, FleetInv
    <3>5. InEntry(r) = {}
      BY <1>1, <3>4, NothingPassed
    <3>6. InEntry(r)' = {}
      BY <2>1, <2>2, <2>3, <3>5
    <3> QED
      BY <1>8, <3>6 DEF OrderedInv, Ahead
  <2>4. CASE x = r
    <3>1. \A i \in InEntry(q) : i < added + 1
      BY <1>1, PositionsInRange
    <3> QED
      BY <1>2, <1>8, <2>1, <2>2, <2>4, <3>1 DEF OrderedInv, Ahead
  <2>5. CASE x # q /\ x # r
    BY <1>2, <1>8, <2>1, <2>5 DEF OrderedInv, Ahead
  <2> QED
    BY <2>3, <2>4, <2>5
<1> QED
  BY <1>3, <1>6, <1>9

LEMMA OrderedBrokerTakes ==
    ASSUME IngestInv, OrderInv, NEW x \in Readings, BrokerTakes(x),
           NEW q \in Readings, NEW r \in Readings, Earlier(q, r),
           Dependable(q), Dependable(q)'
    PROVE  OrderedInv(q, r)'
<1>1. IngestTypes /\ ReadingInv(r) /\ ReadingInv(x)
  BY DEF IngestInv
<1>2. OrderedInv(q, r)
  BY DEF OrderInv
<1>3. UNCHANGED entry
  BY DEF BrokerTakes
<1>4. \A y : InEntry(y)' = InEntry(y)
  BY <1>3 DEF InEntry
<1>5. q # r
  BY CyclesAreNaturals DEF Earlier
<1>6. CASE mqtt' = mqtt
  <2>1. \A y : InInbox(y)' = InInbox(y)
    BY <1>6 DEF InInbox
  <2> QED
    BY <1>2, <1>4, <2>1, NothingComes
<1>7. CASE mqtt' = [mqtt EXCEPT !.inbox = Append(@, x)]
  <2>1. mqtt.inbox \in Seq(Readings) /\ mqtt'.inbox = Append(mqtt.inbox, x)
    BY <1>1, <1>7 DEF IngestTypes, SubscriberRecord
  <2>2. \A y : InInbox(y)' =
            IF x = y THEN InInbox(y) \cup {Len(mqtt.inbox) + 1} ELSE InInbox(y)
    <3> SUFFICES ASSUME NEW y
                 PROVE  InInbox(y)' =
                     IF x = y THEN InInbox(y) \cup {Len(mqtt.inbox) + 1} ELSE InInbox(y)
      OBVIOUS
    <3>1. InInbox(y)' = Positions(Append(mqtt.inbox, x), y)
      BY <2>1 DEF InInbox
    <3> QED
      <4>1. /\ x = y => Positions(Append(mqtt.inbox, x), y) =
                           Positions(mqtt.inbox, y) \cup {Len(mqtt.inbox) + 1}
            /\ x # y => Positions(Append(mqtt.inbox, x), y) = Positions(mqtt.inbox, y)
        BY <2>1, PositionsAppend
      <4> QED
        BY <3>1, <4>1 DEF InInbox
  <2>3. CASE x = q
    <3>1. transport = "mqtt" /\ reading[q].taken = 0
      <4>1. reading'[q].taken = reading[q].taken + 1 /\ reading[q].taken \in 0..2
        <5>1. [IngestNext]_ingestVars
          BY DEF IngestNext, FleetStep
        <5>2. reading'[q].taken # reading[q].taken
          <6>1. reading[q] \in ReadingRecord /\ reading[q].taken \in 0..2
            BY <1>1 DEF IngestTypes, ReadingRecord
          <6>2. CASE reading' = [reading EXCEPT ![q] =
                         [reading[q] EXCEPT !.at = "done", !.taken = reading[q].taken + 1]]
            <7>1. reading'[q].taken = reading[q].taken + 1
              BY <1>1, <6>1, <6>2 DEF IngestTypes, ReadingRecord
            <7> QED
              BY <6>1, <7>1
          <6>3. CASE reading[q].taken = 0 /\
                     reading' = [reading EXCEPT ![q] = [reading[q] EXCEPT !.taken = 1]]
            <7>1. reading'[q].taken = 1
              BY <1>1, <6>1, <6>3 DEF IngestTypes, ReadingRecord
            <7> QED
              BY <6>3, <7>1
          <6> QED
            BY <2>3, <6>2, <6>3 DEF BrokerTakes, Update
        <5> QED
          BY <1>1, <5>1, <5>2, ReadingsGoOn DEF IngestTypes, ReadingRecord
      <4>2. reading'[q].taken <= 1
        BY DEF Dependable
      <4>3. reading[q].at = "queued"
        BY <2>3 DEF BrokerTakes
      <4> QED
        BY <1>1, <2>3, <4>1, <4>2, <4>3 DEF ReadingInv, ProgressInv
    <3>2. reading[r].taken = 0
      <4>1. reading[r].taken \in 0..2
        BY <1>1 DEF IngestTypes, ReadingRecord
      <4> QED
        BY <3>1, <4>1 DEF OrderInv
    <3>3. InEntry(r) = {} /\ InInbox(r) = {}
      BY <1>1, <3>1, <3>2, NothingPassed
    <3>4. InEntry(r)' = {} /\ InInbox(r)' = {}
      BY <1>4, <1>5, <2>2, <2>3, <3>3
    <3> QED
      BY <3>4 DEF OrderedInv, Ahead
  <2>4. CASE x = r
    <3>1. \A i \in InInbox(q) : i < Len(mqtt.inbox) + 1
      BY <1>1, PositionsInRange
    <3>2. InInbox(q)' = InInbox(q) /\ InInbox(r)' = InInbox(r) \cup {Len(mqtt.inbox) + 1}
      BY <1>5, <2>2, <2>4
    <3> QED
      BY <1>2, <1>4, <3>1, <3>2 DEF OrderedInv, Ahead
  <2>5. CASE x # q /\ x # r
    <3>1. InInbox(q)' = InInbox(q) /\ InInbox(r)' = InInbox(r)
      BY <2>2, <2>5
    <3> QED
      BY <1>2, <1>4, <3>1 DEF OrderedInv, Ahead
  <2> QED
    BY <2>3, <2>4, <2>5
<1> QED
  BY <1>6, <1>7 DEF BrokerTakes

LEMMA OrderedHandle ==
    ASSUME IngestInv, OrderInv, Handle,
           NEW q \in Readings, NEW r \in Readings, Earlier(q, r), Dependable(q)
    PROVE  OrderedInv(q, r)'
<1>1. IngestTypes
  BY DEF IngestInv
<1>2. OrderedInv(q, r) /\ q # r
  BY CyclesAreNaturals DEF OrderInv, Earlier
<1>3. mqtt.inbox \in Seq(Readings) /\ Len(mqtt.inbox) \in Nat
  BY <1>1 DEF IngestTypes, SubscriberRecord
<1>4. /\ mqtt.inbox # <<>> /\ mqtt' = [mqtt EXCEPT !.inbox = Rest(mqtt.inbox)]
      /\ Added(mqtt.inbox[1]) \/ UNCHANGED <<added, entry>>
  BY <1>3 DEF Handle, Turn, Rest, NotAdded, streamVars
<1>5. PICK x \in Readings : x = mqtt.inbox[1] /\ 1 \in 1..Len(mqtt.inbox)
  BY <1>3, <1>4, RestProperties
<1>6. mqtt'.inbox = Rest(mqtt.inbox)
  BY <1>1, <1>4 DEF IngestTypes, SubscriberRecord
<1>7. ASSUME NEW y, NEW i \in InInbox(y)'
      PROVE  i \in Nat \ {0} /\ i + 1 \in InInbox(y)
  BY <1>3, <1>4, <1>6, <1>7, PositionsRest DEF InInbox
<1>8. Ahead(InInbox(q), InInbox(r))'
  <2> SUFFICES ASSUME NEW i \in InInbox(q)', NEW j \in InInbox(r)'
               PROVE  i < j
    BY DEF Ahead
  <2>1. /\ i \in Nat /\ i + 1 \in InInbox(q)
        /\ j \in Nat /\ j + 1 \in InInbox(r)
    BY <1>7
  <2>2. i + 1 < j + 1
    BY <1>2, <2>1 DEF OrderedInv, Ahead
  <2> QED
    BY <2>1, <2>2
<1>9. InInbox(q) = {} => InInbox(q)' = {}
  BY <1>7
<1>10. CASE UNCHANGED <<added, entry>>
  <2>1. InEntry(q)' = InEntry(q) /\ InEntry(r)' = InEntry(r)
    BY <1>10 DEF InEntry
  <2> QED
    BY <1>2, <1>8, <1>9, <2>1 DEF OrderedInv, Ahead
<1>11. CASE Added(x)
  <2>1. /\ InEntry(x)' = InEntry(x) \cup {added + 1}
        /\ \A s \in Readings \ {x} : InEntry(s)' = InEntry(s)
    BY <1>1, <1>5, <1>11, AddedEffects
  <2>2. 1 \in InInbox(x)
    BY <1>5 DEF InInbox, Positions
  <2>3. CASE x = q
    <3>1. InEntry(r) = {}
      BY <1>2, <2>2, <2>3 DEF OrderedInv
    <3>2. InEntry(r)' = {}
      BY <1>2, <2>1, <2>3, <3>1
    <3> QED
      BY <1>8, <3>2 DEF OrderedInv, Ahead
  <2>4. CASE x = r
    <3>1. InInbox(q)' = {}
      <4> SUFFICES ASSUME NEW i \in InInbox(q)'  PROVE FALSE
        OBVIOUS
      <4>1. i \in Nat /\ i + 1 \in InInbox(q)
        BY <1>7
      <4>2. i + 1 < 1
        BY <1>2, <2>2, <2>4, <4>1 DEF OrderedInv, Ahead
      <4> QED
        BY <4>1, <4>2
    <3>2. \A i \in InEntry(q) : i < added + 1
      BY <1>1, PositionsInRange
    <3>3. InEntry(q)' = InEntry(q) /\ InEntry(r)' = InEntry(r) \cup {added + 1}
      BY <1>2, <2>1, <2>4
    <3>4. Ahead(InEntry(q), InEntry(r))'
      BY <1>2, <3>2, <3>3 DEF OrderedInv, Ahead
    <3> QED
      BY <1>8, <3>1, <3>4 DEF OrderedInv
  <2>5. CASE x # q /\ x # r
    <3>1. InEntry(q)' = InEntry(q) /\ InEntry(r)' = InEntry(r)
      BY <2>1, <2>5
    <3> QED
      BY <1>2, <1>8, <1>9, <3>1 DEF OrderedInv, Ahead
  <2> QED
    BY <2>3, <2>4, <2>5
<1> QED
  BY <1>4, <1>5, <1>10, <1>11

LEMMA OrderedStopService ==
    ASSUME IngestInv, OrderInv, StopService,
           NEW q \in Readings, NEW r \in Readings, Earlier(q, r), Dependable(q)
    PROVE  OrderedInv(q, r)'
<1>1. IngestTypes
  BY DEF IngestInv
<1>2. OrderedInv(q, r) /\ q # r
  BY CyclesAreNaturals DEF OrderInv, Earlier
<1>3. mqtt'.inbox = <<>>
  BY DEF StopService, Subscriber
<1>4. \A y : InInbox(y)' = {}
  BY <1>3, PositionsInEmpty DEF InInbox
<1>5. CASE NotAdded
  <2>1. \A y : InEntry(y)' = InEntry(y)
    BY <1>5 DEF NotAdded, InEntry
  <2> QED
    BY <1>2, <1>4, <2>1, NothingComes
<1>6. CASE mqtt.inbox # <<>> /\ Added(Head(mqtt.inbox))
  <2>1. mqtt.inbox \in Seq(Readings)
    BY <1>1 DEF IngestTypes, SubscriberRecord
  <2>2. PICK x \in Readings : x = mqtt.inbox[1] /\ Added(x) /\ 1 \in 1..Len(mqtt.inbox)
    BY <1>6, <2>1, RestProperties
  <2>3. /\ InEntry(x)' = InEntry(x) \cup {added + 1}
        /\ \A s \in Readings \ {x} : InEntry(s)' = InEntry(s)
    BY <1>1, <2>2, AddedEffects
  <2>4. 1 \in InInbox(x)
    BY <2>2 DEF InInbox, Positions
  <2>5. Ahead(InEntry(q), InEntry(r))'
    <3>1. CASE x = q
      <4>1. InEntry(r) = {}
        BY <1>2, <2>4, <3>1 DEF OrderedInv
      <4>2. InEntry(r)' = {}
        BY <1>2, <2>3, <3>1, <4>1
      <4> QED
        BY <4>2 DEF Ahead
    <3>2. CASE x = r
      <4>1. \A i \in InEntry(q) : i < added + 1
        BY <1>1, PositionsInRange
      <4>2. InEntry(q)' = InEntry(q) /\ InEntry(r)' = InEntry(r) \cup {added + 1}
        BY <1>2, <2>3, <3>2
      <4> QED
        BY <1>2, <4>1, <4>2 DEF OrderedInv, Ahead
    <3>3. CASE x # q /\ x # r
      <4>1. InEntry(q)' = InEntry(q) /\ InEntry(r)' = InEntry(r)
        BY <2>3, <3>3
      <4> QED
        BY <1>2, <4>1 DEF OrderedInv, Ahead
    <3> QED
      BY <3>1, <3>2, <3>3
  <2> QED
    BY <1>4, <2>5 DEF OrderedInv, Ahead
<1> QED
  BY <1>5, <1>6 DEF StopService

LEMMA OrderedNext ==
    ASSUME IngestInv, OrderInv, [IngestNext]_ingestVars,
           NEW q \in Readings, NEW r \in Readings, Earlier(q, r), Dependable(q)'
    PROVE  OrderedInv(q, r)'
<1>1. Dependable(q) /\ OrderedInv(q, r)
  BY StillDependable DEF OrderInv
<1>2. CASE UNCHANGED <<entry, mqtt>>
  <2>1. \A y : InEntry(y)' = InEntry(y) /\ InInbox(y)' = InInbox(y)
    BY <1>2 DEF InEntry, InInbox
  <2> QED
    BY <1>1, <2>1, NothingComes
<1>3. CASE Connect \/ LoseConnection \/ Wake \/ Start
  <2>1. UNCHANGED entry /\ (mqtt' = mqtt \/ mqtt'.inbox = <<>>)
    BY <1>3 DEF Connect, LoseConnection, Wake, Start, Subscriber
  <2>2. CASE mqtt' = mqtt
    BY <1>2, <2>1, <2>2
  <2>3. CASE mqtt'.inbox = <<>>
    <3>1. \A y : InEntry(y)' = InEntry(y) /\ InInbox(y)' = {}
      BY <2>1, <2>3, PositionsInEmpty DEF InEntry, InInbox
    <3> QED
      BY <1>1, <3>1, NothingComes
  <2> QED
    BY <2>1, <2>2, <2>3
<1>4. CASE NextCycle \/ StopFleet \/ DisconnectPublisher \/ UNCHANGED ingestVars
  BY <1>2, <1>4 DEF NextCycle, StopFleet, DisconnectPublisher, ingestVars, ingestOwn
<1>5. ASSUME NEW x \in Readings, Publish(x) \/ GiveUp(x)
      PROVE  OrderedInv(q, r)'
  BY <1>2, <1>5 DEF Publish, GiveUp
<1> QED
  BY <1>1, <1>3, <1>4, <1>5, OrderedProcess, OrderedBrokerTakes, OrderedHandle,
     OrderedStopService DEF IngestNext, FleetStep, SubscriberStep

LEMMA OrderInvInit == IngestInit => OrderInv
<1> SUFFICES ASSUME IngestInit  PROVE OrderInv
  OBVIOUS
<1>1. /\ entry = <<>> /\ mqtt.inbox = <<>> /\ fleet.cycle = 1
      /\ \A r \in Readings : reading[r].at = "unsent" /\ reading[r].taken = 0
  BY DEF IngestInit, Subscriber, Unsent
<1>2. \A r \in Readings : InEntry(r) = {} /\ InInbox(r) = {}
  BY <1>1, PositionsInEmpty DEF InEntry, InInbox
<1>3. \A r \in Readings : ~(Cycle(r) < fleet.cycle)
  BY <1>1, IngestionAssumption DEF Readings, Cycle
<1> QED
  BY <1>1, <1>2, <1>3 DEF OrderInv, FleetInv, OrderedInv, Ahead

(***************************************************************************)
(* A device's readings enter the stream in the order it took them, but for *)
(* those a client gave up and those the broker took twice: whichever       *)
(* transport the simulator uses, and however the subscriber and the        *)
(* service are interrupted.                                                *)
(***************************************************************************)
THEOREM DeviceOrderAlwaysKept ==
    IngestInit /\ [][IngestNext]_ingestVars => []DeviceOrderIsKept
<1>1. IngestInv /\ OrderInv /\ [IngestNext]_ingestVars => OrderInv'
  <2> SUFFICES ASSUME IngestInv, OrderInv, [IngestNext]_ingestVars  PROVE OrderInv'
    OBVIOUS
  <2>1. \A r \in Readings : FleetInv(r)'
    BY FleetInvNext
  <2>2. ASSUME NEW q \in Readings, NEW r \in Readings, Earlier(q, r)
        PROVE  /\ (transport = "mqtt" /\ reading[r].taken > 0 => reading[q].taken > 0)'
               /\ (Dependable(q) => OrderedInv(q, r))'
    BY <2>2, TakenInOrder, OrderedNext
  <2> QED
    BY <2>1, <2>2 DEF OrderInv, Earlier
<1>2. OrderInv => DeviceOrderIsKept
  <2> SUFFICES ASSUME OrderInv, NEW q \in Readings, NEW r \in Readings,
                      q[1] = r[1], Cycle(q) < Cycle(r), Copies(q) # {},
                      reading[q].answer # "gave up", reading[q].taken <= 1
               PROVE  \E i \in Copies(q) : \A j \in Copies(r) : i < j
    BY DEF DeviceOrderIsKept
  <2>1. Earlier(q, r) /\ Dependable(q)
    BY DEF Earlier, Dependable
  <2>2. Ahead(InEntry(q), InEntry(r))
    BY <2>1 DEF OrderInv, OrderedInv
  <2>3. Copies(q) = InEntry(q) /\ Copies(r) = InEntry(r)
    BY DEF Copies, InEntry, Positions
  <2> QED
    BY <2>2, <2>3 DEF Ahead
<1> QED
  BY <1>1, <1>2, IngestInvInit, IngestInvNext, OrderInvInit, PTL

(***************************************************************************)
(* What the consumers may expect of the service: with all its transports,  *)
(* failures, timeouts and restarts it does nothing to the stream but add   *)
(* an entry that parses, one at a time.  StreamToPostgres, AnomalyDetector *)
(* and the dashboard take its place by StreamAdd, so that what is proved   *)
(* of them holds with the service upstream.                                *)
(***************************************************************************)
THEOREM IngestionOnlyAdds ==
    IngestInit /\ [][IngestNext]_ingestVars => StreamInit /\ [][StreamAdd(FALSE)]_streamVars
<1>1. IngestInit => StreamInit
  BY DEF IngestInit
<1>2. [IngestNext]_ingestVars => [StreamAdd(FALSE)]_streamVars
  <2> SUFFICES ASSUME [IngestNext]_ingestVars  PROVE StreamAdd(FALSE) \/ UNCHANGED streamVars
    OBVIOUS
  <2>1. ASSUME NEW r, Added(r) \/ NotAdded  PROVE StreamAdd(FALSE) \/ UNCHANGED streamVars
    BY <2>1 DEF Added, NotAdded
  <2>2. CASE FleetStep
    BY <2>2 DEF FleetStep, NextCycle, Publish, GiveUp, BrokerTakes
  <2>3. CASE StopFleet \/ DisconnectPublisher \/ LoseConnection \/ Start
    BY <2>3 DEF StopFleet, DisconnectPublisher, LoseConnection, Start
  <2>4. CASE \E r \in Readings : Process(r)
    BY <2>1, <2>4 DEF Process
  <2>5. CASE SubscriberStep
    <3>1. CASE Handle
      <4>1. PICK i \in 1..Len(mqtt.inbox) : Added(mqtt.inbox[i]) \/ NotAdded
        BY <3>1 DEF Handle
      <4> QED
        BY <2>1, <4>1
    <3> QED
      BY <2>5, <3>1 DEF SubscriberStep, Connect, Wake
  <2>6. CASE StopService
    <3>1. Added(Head(mqtt.inbox)) \/ NotAdded
      BY <2>6 DEF StopService
    <3> QED
      BY <2>1, <3>1
  <2>7. CASE UNCHANGED ingestVars
    BY <2>7 DEF ingestVars
  <2> QED
    BY <2>2, <2>3, <2>4, <2>5, <2>6, <2>7 DEF IngestNext
<1> QED
  BY <1>1, <1>2, PTL

-----------------------------------------------------------------------------

(***************************************************************************)
(* The dashboard.  While its page is open the stream goes on: who adds an  *)
(* entry, or has the stream evicted, changes nothing of the dashboard.     *)
(***************************************************************************)
StreamGoesOn ==
    /\ (\E bad \in BOOLEAN : StreamAdd(bad)) \/ StreamEvict
    /\ UNCHANGED dashboardOwn

DashboardOnStream ==
    /\ DashboardInit
    /\ StreamInit
    /\ [][DashboardNext \/ StreamGoesOn]_dashboardVars

(***************************************************************************)
(* What has been shown is in order and not beyond the cursor; a batch in   *)
(* hand continues it.                                                      *)
(***************************************************************************)
FeedInv ==
    /\ added \in Nat /\ trimmed \in 0..added
    /\ feed \in [at : {"closed", "tick", "send"}, cursor : Nat, batch : Seq(Nat)]
    /\ feed.cursor <= added
    /\ feed.at # "send" => feed.batch = <<>>
    /\ shown \in Seq(Nat)
    /\ ShownOnce
    /\ \A i, j \in 1..Len(feed.batch) : i < j => feed.batch[i] < feed.batch[j]
    /\ \A i \in 1..Len(shown) : shown[i] <= feed.cursor
    /\ \A j \in 1..Len(feed.batch) : feed.batch[j] <= feed.cursor
    /\ \A i \in 1..Len(shown), j \in 1..Len(feed.batch) : shown[i] < feed.batch[j]

(***************************************************************************)
(* One command has the loop, and its docker steps are the rest of what its *)
(* kind asks for.  With none left but the monitors', the answer so far is  *)
(* that of the last compose command, and nobody has run another since.     *)
(***************************************************************************)
StepsLeft(kind) ==
    IF kind = "up"
    THEN {<<Do("composed", "up"), Do("monitors", "up")>>, <<Do("monitors", "up")>>}
    ELSE IF kind = "down"
    THEN {<<Do("monitors", "down"), Do("composed", "down")>>, <<Do("composed", "down")>>}
    ELSE {<<Do("monitors", "down"), Do("composed", "down"), Do("composed", "up"), Do("monitors", "up")>>,
          <<Do("composed", "down"), Do("composed", "up"), Do("monitors", "up")>>,
          <<Do("composed", "up"), Do("monitors", "up")>>, <<Do("monitors", "up")>>}

Kinds == {"up", "down", "restart"}
DockerStep == [what : {"composed", "monitors"}, to : {"up", "down"}]
ButtonRecord == [at : {"none", "running", "done"}, kind : {"none"} \cup Kinds,
                 left : Seq(DockerStep), ok : BOOLEAN]

CommandInv ==
    /\ command \in [Commands -> ButtonRecord]
    /\ DOMAIN stack = {"composed", "monitors"}
    /\ \A q \in Commands :
          command[q].at = "running" =>
              /\ command[q].kind \in Kinds
              /\ command[q].left \in StepsLeft(command[q].kind)
              /\ command[q].left = <<Do("monitors", "up")>> =>
                     (command[q].ok => stack.composed = "up")
    /\ \A p, q \in Commands : command[p].at = "running" /\ command[q].at = "running" => p = q

LEMMA FeedInvInit == DashboardInit /\ StreamInit => FeedInv /\ CommandInv
<1> SUFFICES ASSUME DashboardInit, StreamInit  PROVE FeedInv /\ CommandInv
  OBVIOUS
<1>1. feed = [at |-> "closed", cursor |-> 0, batch |-> <<>>]
  BY DEF DashboardInit, Opened
<1>2. shown = <<>> /\ added = 0 /\ trimmed = 0 /\ 1..0 = {}
  BY DEF DashboardInit, StreamInit
<1>3. <<>> \in Seq(Nat) /\ Len(<<>>) = 0
  BY EmptySeq
<1>4. FeedInv
  BY <1>1, <1>2, <1>3 DEF FeedInv, ShownOnce
<1>5. CommandInv
  <2>1. <<>> \in Seq(DockerStep)
    BY EmptySeq
  <2>2. Idle \in ButtonRecord /\ Idle.at = "none"
    BY <2>1 DEF Idle, ButtonRecord
  <2>3. command = [q \in Commands |-> Idle] /\ DOMAIN stack = {"composed", "monitors"}
    BY DEF DashboardInit
  <2> QED
    BY <2>2, <2>3 DEF CommandInv
<1> QED
  BY <1>4, <1>5

LEMMA FeedOpens ==
    ASSUME FeedInv, Open
    PROVE  FeedInv' /\ feed'.cursor = 0
<1>1. /\ feed' = [at |-> "tick", cursor |-> 0, batch |-> <<>>] /\ shown' = <<>>
      /\ added' = added /\ trimmed' = trimmed /\ 1..0 = {}
  BY DEF Open, Opened, streamVars
<1>2. <<>> \in Seq(Nat) /\ Len(<<>>) = 0
  BY EmptySeq
<1> QED
  BY <1>1, <1>2 DEF FeedInv, ShownOnce

(***************************************************************************)
(* A read takes everything from the first entry that is neither shown nor  *)
(* trimmed nor too old, to the last.                                       *)
(***************************************************************************)
LEMMA FeedReads ==
    ASSUME FeedInv, ReadFeed
    PROVE  FeedInv' /\ \A i \in feed.cursor + 1..feed'.cursor : ~Skipped(i)
<1>1. /\ added \in Nat /\ trimmed \in Nat /\ trimmed <= added
      /\ feed.cursor \in Nat /\ feed.cursor <= added
      /\ feed.at = "tick" /\ feed.batch = <<>>
      /\ shown \in Seq(Nat) /\ ShownOnce
      /\ \A i \in 1..Len(shown) : shown[i] <= feed.cursor
      /\ UNCHANGED <<added, trimmed, shown>>
  BY DEF FeedInv, ReadFeed, streamVars
<1>2. FeedCount \in Nat \ {0}
  BY DashboardAssumption
<1>3. PICK first : first = Greatest(Oldest(added), feed.cursor + 1)
  OBVIOUS
<1>4. /\ first \in Nat \ {0} /\ first > feed.cursor
      /\ first <= added => added > trimmed
      /\ \A i \in Nat : i > trimmed /\ i > added - FeedCount /\ i > feed.cursor => i >= first
  BY <1>1, <1>2, <1>3 DEF Greatest, Oldest
<1>5. PICK n : n = Greatest(0, added - first + 1)
  OBVIOUS
<1>6. n \in Nat /\ (n > 0 => first + n - 1 = added) /\ (first <= added => n = added - first + 1)
  BY <1>1, <1>4, <1>5 DEF Greatest
<1>7. PICK batch : batch = [i \in 1..n |-> first + i - 1]
  OBVIOUS
<1>8. batch \in Seq(Nat) /\ Len(batch) = n /\ \A i \in 1..n : batch[i] = first + i - 1
  <2>1. batch \in [1..n -> Nat]
    BY <1>4, <1>6, <1>7
  <2> QED
    BY <1>6, <1>7, <2>1, IsASeq, SeqDef
<1>9. PICK cursor : cursor = CursorAfter(feed.cursor)
  OBVIOUS
<1>10. cursor \in Nat /\ cursor <= added /\ feed.cursor <= cursor /\ (n > 0 => cursor = added)
  BY <1>1, <1>4, <1>6, <1>9 DEF CursorAfter
<1>11. CASE feed' = [at |-> "send", cursor |-> cursor, batch |-> batch]
  <2>1. feed'.at = "send" /\ feed'.cursor = cursor /\ feed'.batch = batch
    BY <1>11
  <2>2. feed' \in [at : {"closed", "tick", "send"}, cursor : Nat, batch : Seq(Nat)]
    BY <1>8, <1>10, <1>11
  <2>3. \A i, j \in 1..n : i < j => batch[i] < batch[j]
    BY <1>4, <1>6, <1>8
  <2>4. \A j \in 1..n : batch[j] <= cursor
    BY <1>1, <1>4, <1>6, <1>8, <1>10
  <2>5. \A i \in 1..Len(shown), j \in 1..n : shown[i] < batch[j]
    <3> SUFFICES ASSUME NEW i \in 1..Len(shown), NEW j \in 1..n  PROVE shown[i] < batch[j]
      OBVIOUS
    <3>1. shown[i] \in Nat /\ shown[i] <= feed.cursor
      BY <1>1
    <3>2. batch[j] = first + j - 1
      BY <1>8
    <3> QED
      BY <1>1, <1>4, <1>6, <3>1, <3>2
  <2>6. \A i \in 1..Len(shown) : shown[i] <= cursor
    <3> SUFFICES ASSUME NEW i \in 1..Len(shown)  PROVE shown[i] <= cursor
      OBVIOUS
    <3>1. shown[i] \in Nat /\ shown[i] <= feed.cursor
      BY <1>1
    <3> QED
      BY <1>1, <1>10, <3>1
  <2>7. FeedInv'
    BY <1>1, <1>8, <1>10, <2>1, <2>2, <2>3, <2>4, <2>5, <2>6 DEF FeedInv, ShownOnce
  <2>8. ASSUME NEW i \in feed.cursor + 1..feed'.cursor, Skipped(i)  PROVE FALSE
    <3>1. i \in Nat /\ i > feed.cursor /\ i <= added
      BY <1>1, <1>10, <2>1, <2>8
    <3>2. i >= first
      BY <1>4, <2>8, <3>1 DEF Skipped
    <3>3. PICK j \in Nat : j = i - first + 1
      BY <1>4, <3>1, <3>2
    <3>4. j \in 1..n /\ batch[j] = i
      BY <1>1, <1>4, <1>6, <1>8, <3>1, <3>2, <3>3
    <3>5. \A k \in DOMAIN batch : batch[k] # i
      BY <2>1, <2>8 DEF Skipped
    <3> QED
      BY <1>7, <3>4, <3>5
  <2> QED
    BY <2>7, <2>8
<1>12. CASE feed' = [feed EXCEPT !.at = "closed"]
  <2>1. feed'.cursor = feed.cursor /\ feed'.batch = <<>> /\ feed'.at = "closed"
    BY <1>1, <1>12 DEF FeedInv
  <2>2. feed' \in [at : {"closed", "tick", "send"}, cursor : Nat, batch : Seq(Nat)]
    BY <1>12 DEF FeedInv
  <2>3. 1..0 = {} /\ Len(<<>>) = 0
    OBVIOUS
  <2>4. feed.cursor + 1..feed'.cursor = {}
    BY <1>1, <2>1
  <2> QED
    BY <1>1, <2>1, <2>2, <2>3, <2>4 DEF FeedInv, ShownOnce
<1> QED
  BY <1>3, <1>5, <1>7, <1>9, <1>11, <1>12 DEF ReadFeed

LEMMA FeedSends ==
    ASSUME FeedInv, SendFeed
    PROVE  FeedInv' /\ feed'.cursor = feed.cursor
<1>1. /\ added \in Nat /\ trimmed \in 0..added
      /\ feed \in [at : {"closed", "tick", "send"}, cursor : Nat, batch : Seq(Nat)]
      /\ feed.cursor <= added /\ UNCHANGED <<added, trimmed>>
      /\ shown \in Seq(Nat) /\ ShownOnce
  BY DEF FeedInv, SendFeed, streamVars
<1>2. 1..0 = {} /\ Len(<<>>) = 0 /\ <<>> \in Seq(Nat)
  BY EmptySeq
<1>3. PICK at \in {"tick", "closed"} : feed' = [feed EXCEPT !.at = at, !.batch = <<>>]
  BY DEF SendFeed
<1>4. /\ feed'.cursor = feed.cursor /\ feed'.batch = <<>>
      /\ feed' \in [at : {"closed", "tick", "send"}, cursor : Nat, batch : Seq(Nat)]
  BY <1>1, <1>2, <1>3
<1>5. CASE shown' = shown
  BY <1>1, <1>2, <1>4, <1>5 DEF FeedInv, ShownOnce
<1>6. CASE shown' = shown \o feed.batch
  <2>1. PICK batch \in Seq(Nat) : batch = feed.batch
    BY <1>1
  <2>2. PICK m \in Nat, n \in Nat : m = Len(shown) /\ n = Len(batch)
    BY <1>1, <2>1
  <2>3. /\ shown' \in Seq(Nat) /\ Len(shown') = m + n
        /\ \A i \in 1..m : shown'[i] = shown[i]
        /\ \A i \in m + 1..m + n : shown'[i] = batch[i - m]
    BY <1>1, <1>6, <2>1, <2>2, ConcatProperties
  <2>4. ASSUME NEW i \in 1..m + n  PROVE shown'[i] <= feed.cursor
    <3>1. CASE i \in 1..m
      BY <2>2, <2>3, <3>1 DEF FeedInv
    <3>2. CASE i \in m + 1..m + n
      <4>1. i - m \in 1..n
        BY <2>2, <3>2
      <4> QED
        BY <2>1, <2>2, <2>3, <3>2, <4>1 DEF FeedInv
    <3> QED
      BY <2>2, <3>1, <3>2
  <2>5. ASSUME NEW i \in 1..m + n, NEW j \in 1..m + n, i < j  PROVE shown'[i] < shown'[j]
    <3>1. CASE i \in 1..m /\ j \in 1..m
      BY <1>1, <2>2, <2>3, <2>5, <3>1 DEF ShownOnce
    <3>2. CASE i \in 1..m /\ j \in m + 1..m + n
      <4>1. j - m \in 1..n
        BY <2>2, <3>2
      <4> QED
        BY <2>1, <2>2, <2>3, <3>2, <4>1 DEF FeedInv
    <3>3. CASE i \in m + 1..m + n /\ j \in m + 1..m + n
      <4>1. i - m \in 1..n /\ j - m \in 1..n /\ i - m < j - m
        BY <2>2, <2>5, <3>3
      <4> QED
        BY <2>1, <2>2, <2>3, <3>3, <4>1 DEF FeedInv
    <3> QED
      BY <2>2, <2>5, <3>1, <3>2, <3>3
  <2> QED
    BY <1>1, <1>2, <1>4, <2>3, <2>4, <2>5 DEF FeedInv, ShownOnce
<1> QED
  BY <1>5, <1>6 DEF SendFeed

LEMMA FeedStays ==
    ASSUME FeedInv, UNCHANGED <<feed, shown>>,
           added' \in Nat, added <= added', trimmed' \in 0..added'
    PROVE  FeedInv'
  BY DEF FeedInv, ShownOnce

(***************************************************************************)
(* A feed shows each entry at most once and in order, and passes over none *)
(* that is still there and recent, for any length of the stream, any point *)
(* at which it is trimmed and any FeedCount.                               *)
(***************************************************************************)
THEOREM FeedAlwaysFaithful == DashboardOnStream => FeedIsFaithful
<1> DEFINE NoneSkipped == \A i \in feed.cursor + 1..feed'.cursor : ~Skipped(i)
<1>1. DashboardInit /\ StreamInit => FeedInv
  BY FeedInvInit
<1>2. FeedInv /\ [DashboardNext \/ StreamGoesOn]_dashboardVars => FeedInv' /\ NoneSkipped
  <2> SUFFICES ASSUME FeedInv, [DashboardNext \/ StreamGoesOn]_dashboardVars
               PROVE  FeedInv' /\ NoneSkipped
    OBVIOUS
  <2>1. added \in Nat /\ trimmed \in 0..added /\ feed.cursor \in Nat
    BY DEF FeedInv
  <2>2. feed'.cursor = feed.cursor \/ feed'.cursor = 0 => NoneSkipped
    <3>1. feed.cursor + 1..feed.cursor = {} /\ feed.cursor + 1..0 = {}
      BY <2>1
    <3> QED
      BY <3>1
  <2>3. CASE UNCHANGED <<feed, shown, added, trimmed>>
    BY <2>1, <2>2, <2>3, FeedStays
  <2>4. CASE StreamGoesOn
    <3>1. UNCHANGED <<feed, shown>>
      BY <2>4 DEF StreamGoesOn, dashboardOwn
    <3>2. CASE \E bad \in BOOLEAN : StreamAdd(bad)
      <4>1. added' = added + 1 /\ \E t \in trimmed..added : trimmed' = t
        BY <3>2 DEF StreamAdd
      <4> QED
        BY <2>1, <2>2, <3>1, <4>1, FeedStays
    <3>3. CASE StreamEvict
      <4>1. added' = added /\ trimmed' = added
        BY <3>3 DEF StreamEvict
      <4> QED
        BY <2>1, <2>2, <3>1, <4>1, FeedStays
    <3> QED
      BY <2>4, <3>2, <3>3 DEF StreamGoesOn
  <2>5. CASE Open
    BY <2>2, <2>5, FeedOpens
  <2>6. CASE ReadFeed
    BY <2>6, FeedReads
  <2>7. CASE SendFeed
    BY <2>2, <2>7, FeedSends
  <2>8. CASE \E q \in Commands : Press(q) \/ RunStep(q)
    BY <2>3, <2>8 DEF Press, RunStep, streamVars
  <2> QED
    BY <2>3, <2>4, <2>5, <2>6, <2>7, <2>8
       DEF DashboardNext, FeedStep, dashboardVars, dashboardOwn, streamVars
<1>3. FeedInv' => ShownOnce'
  BY DEF FeedInv
<1> QED
  BY <1>1, <1>2, <1>3, PTL DEF DashboardOnStream, FeedIsFaithful

(***************************************************************************)
(* The buttons.  Any number of requests, of any kinds, in any order.       *)
(***************************************************************************)
\* What a step is, and what is left after it.
LEMMA StepDone ==
    ASSUME NEW kind \in Kinds, NEW left \in StepsLeft(kind)
    PROVE  /\ Head(left).what \in {"composed", "monitors"}
           /\ left \in Seq(DockerStep) /\ Tail(left) \in Seq(DockerStep)
           /\ Len(left) # 1 => Tail(left) \in StepsLeft(kind)
           /\ Tail(left) = <<Do("monitors", "up")>> => Head(left) = Do("composed", "up")
           /\ Len(left) = 1 => \/ left = <<Do("monitors", "up")>> /\ kind # "down"
                               \/ left = <<Do("composed", "down")>> /\ kind = "down"
<1>1. PICK cu, cd, mu, md : /\ cu = Do("composed", "up") /\ cd = Do("composed", "down")
                            /\ mu = Do("monitors", "up") /\ md = Do("monitors", "down")
  OBVIOUS
<1>2. /\ cu.what = "composed" /\ cd.what = "composed" /\ cu.to = "up" /\ cd.to = "down"
      /\ mu.what = "monitors" /\ md.what = "monitors" /\ mu.to = "up" /\ md.to = "down"
  BY <1>1 DEF Do
<1>3. {cu, cd, mu, md} \subseteq DockerStep
  BY <1>1 DEF Do, DockerStep
<1>4. /\ <<md, cd, cu, mu>> \in Seq(DockerStep) /\ <<cd, cu, mu>> \in Seq(DockerStep)
      /\ <<cu, mu>> \in Seq(DockerStep) /\ <<md, cd>> \in Seq(DockerStep)
      /\ <<mu>> \in Seq(DockerStep) /\ <<cd>> \in Seq(DockerStep) /\ <<>> \in Seq(DockerStep)
  BY <1>3
<1>5. /\ StepsLeft("up") = {<<cu, mu>>, <<mu>>}
      /\ StepsLeft("down") = {<<md, cd>>, <<cd>>}
      /\ StepsLeft("restart") = {<<md, cd, cu, mu>>, <<cd, cu, mu>>, <<cu, mu>>, <<mu>>}
  BY <1>1 DEF StepsLeft
<1> SUFFICES /\ Head(left).what \in {"composed", "monitors"}
             /\ left \in Seq(DockerStep) /\ Tail(left) \in Seq(DockerStep)
             /\ Len(left) # 1 => Tail(left) \in StepsLeft(kind)
             /\ Tail(left) = <<mu>> => Head(left) = cu
             /\ Len(left) = 1 => \/ left = <<mu>> /\ kind # "down"
                                 \/ left = <<cd>> /\ kind = "down"
  BY <1>1
<1>6. CASE kind = "up"
  <2>1. CASE left = <<cu, mu>>
    BY <1>2, <1>5, <1>6, <1>4, <2>1
  <2>2. CASE left = <<mu>>
    BY <1>2, <1>5, <1>6, <1>4, <2>2
  <2> QED
    BY <1>5, <1>6, <2>1, <2>2
<1>7. CASE kind = "down"
  <2>1. CASE left = <<md, cd>>
    BY <1>2, <1>5, <1>7, <1>4, <2>1
  <2>2. CASE left = <<cd>>
    BY <1>2, <1>5, <1>7, <1>4, <2>2
  <2> QED
    BY <1>5, <1>7, <2>1, <2>2
<1>8. CASE kind = "restart"
  <2>1. CASE left = <<md, cd, cu, mu>>
    BY <1>2, <1>5, <1>4, <1>8, <2>1
  <2>2. CASE left = <<cd, cu, mu>>
    BY <1>2, <1>5, <1>4, <1>8, <2>2
  <2>3. CASE left = <<cu, mu>>
    BY <1>2, <1>5, <1>4, <1>8, <2>3
  <2>4. CASE left = <<mu>>
    BY <1>2, <1>5, <1>4, <1>8, <2>4
  <2> QED
    BY <1>5, <1>8, <2>1, <2>2, <2>3, <2>4
<1> QED
  BY <1>6, <1>7, <1>8 DEF Kinds

LEMMA CommandPressed ==
    ASSUME CommandInv, NEW q \in Commands, Press(q)
    PROVE  CommandInv' /\ \A p \in Commands : command[p].at # "running"
<1>1. \A p \in Commands : command[p].at # "running"
  BY DEF Press, LoopIsFree
<1>2. PICK kind \in Kinds :
         command' = [command EXCEPT ![q] =
             [at |-> "running", kind |-> kind, left |-> StepsOf(kind), ok |-> FALSE]]
  BY DEF Press, Kinds
<1>3. PICK left : left = StepsOf(kind)
  OBVIOUS
<1>4. left \in StepsLeft(kind) /\ left # <<Do("monitors", "up")>>
  BY <1>3 DEF StepsOf, StepsLeft, Do, Kinds
<1>5. PICK new : new = [at |-> "running", kind |-> kind, left |-> left, ok |-> FALSE]
  OBVIOUS
<1>6. new.kind = kind /\ new.left = left /\ new.ok = FALSE
  BY <1>5
<1>7. command' = [command EXCEPT ![q] = new] /\ stack' = stack
  BY <1>2, <1>3, <1>5 DEF Press
<1>8. /\ command'[q] = new /\ \A p \in Commands \ {q} : command'[p] = command[p]
  BY <1>7 DEF CommandInv
<1>9. /\ command' \in [Commands -> ButtonRecord] /\ DOMAIN stack' = {"composed", "monitors"}
      /\ \A p \in Commands : command'[p].at = "running" => p = q
  <2>1. left \in Seq(DockerStep)
    BY <1>4, StepDone
  <2>2. new \in ButtonRecord
    BY <1>5, <2>1 DEF ButtonRecord, Kinds
  <2> QED
    BY <1>1, <1>7, <1>8, <2>2 DEF CommandInv
<1> QED
  BY <1>1, <1>4, <1>6, <1>8, <1>9 DEF CommandInv

Truthful(q) ==
    command[q].at = "running" /\ command'[q].at = "done" /\ command'[q].ok
    => stack'.composed = IF command[q].kind = "down" THEN "down" ELSE "up"

StepTaken(it, ok) ==
    [it EXCEPT !.left = Tail(it.left),
               !.at = IF Len(it.left) = 1 THEN "done" ELSE it.at,
               !.ok = IF Head(it.left).what = "composed" THEN ok ELSE it.ok]

LEMMA CommandRuns ==
    ASSUME CommandInv, NEW q \in Commands, RunStep(q)
    PROVE  CommandInv' /\ \A p \in Commands : Truthful(p)
<1>1. PICK it \in ButtonRecord : it = command[q]
  BY DEF CommandInv
<1>2. /\ it.at = "running" /\ it.kind \in Kinds /\ it.left \in StepsLeft(it.kind)
      /\ it.left = <<Do("monitors", "up")>> => (it.ok => stack.composed = "up")
      /\ \A p \in Commands \ {q} : command[p].at # "running"
      /\ command \in [Commands -> ButtonRecord] /\ DOMAIN stack = {"composed", "monitors"}
  BY <1>1 DEF RunStep, CommandInv
<1>3. PICK step : step = Head(it.left)
  OBVIOUS
<1>4. PICK left : left = Tail(it.left)
  OBVIOUS
<1>5. /\ step.what \in {"composed", "monitors"}
      /\ Len(it.left) # 1 => left \in StepsLeft(it.kind)
      /\ left = <<Do("monitors", "up")>> => step = Do("composed", "up")
      /\ Len(it.left) = 1 => \/ it.left = <<Do("monitors", "up")>> /\ it.kind # "down"
                             \/ it.left = <<Do("composed", "down")>> /\ it.kind = "down"
  BY <1>2, <1>3, <1>4, StepDone
<1>6. PICK at \in {"running", "done"} : at = IF Len(it.left) = 1 THEN "done" ELSE "running"
  OBVIOUS
<1>7. PICK ok \in BOOLEAN :
         /\ IF ok THEN stack' = [stack EXCEPT ![step.what] = step.to]
            ELSE \E s : stack' = [stack EXCEPT ![step.what] = s]
         /\ command' = [command EXCEPT ![q] = StepTaken(it, ok)]
  <2>1. \/ /\ stack' = [stack EXCEPT ![step.what] = step.to]
           /\ command' = [command EXCEPT ![q] = StepTaken(it, TRUE)]
        \/ /\ \E s : stack' = [stack EXCEPT ![step.what] = s]
           /\ command' = [command EXCEPT ![q] = StepTaken(it, FALSE)]
    BY <1>1, <1>3 DEF RunStep, StepTaken
  <2>2. TRUE \in BOOLEAN /\ FALSE \in BOOLEAN
    OBVIOUS
  <2> QED
    BY <2>1, <2>2, Zenon
<1>8. PICK sofar \in BOOLEAN : sofar = IF step.what = "composed" THEN ok ELSE it.ok
  BY <1>1, <1>7 DEF ButtonRecord
<1>9. PICK new : new = [it EXCEPT !.left = left, !.at = at, !.ok = sofar]
  OBVIOUS
<1>10. left \in Seq(DockerStep)
  BY <1>2, <1>4, StepDone
<1>11. new \in ButtonRecord /\ new.at = at /\ new.kind = it.kind /\ new.left = left /\ (new.ok <=> sofar)
  BY <1>1, <1>9, <1>10 DEF ButtonRecord
<1>12. command' = [command EXCEPT ![q] = new]
  <2>1. new = StepTaken(it, ok)
    BY <1>1, <1>2, <1>3, <1>4, <1>6, <1>8, <1>9 DEF StepTaken
  <2> QED
    BY <1>7, <2>1
<1>13. /\ command' \in [Commands -> ButtonRecord] /\ command'[q] = new
       /\ \A p \in Commands \ {q} : command'[p] = command[p]
  BY <1>2, <1>11, <1>12
<1>14. /\ DOMAIN stack' = {"composed", "monitors"}
       /\ step.what = "composed" /\ ok => stack'.composed = step.to
       /\ step.what # "composed" => stack'.composed = stack.composed
  BY <1>2, <1>5, <1>7
<1>15. Do("composed", "up").what = "composed" /\ Do("composed", "up").to = "up"
       /\ Do("composed", "down").what = "composed" /\ Do("composed", "down").to = "down"
       /\ Do("monitors", "up").what = "monitors"
  BY DEF Do
<1>16. left = <<Do("monitors", "up")>> => (sofar => stack'.composed = "up")
  BY <1>5, <1>7, <1>8, <1>14, <1>15
<1>17. ASSUME Len(it.left) = 1, sofar
       PROVE  stack'.composed = IF it.kind = "down" THEN "down" ELSE "up"
  <2>1. CASE it.left = <<Do("monitors", "up")>> /\ it.kind # "down"
    <3>1. step = Do("monitors", "up")
      BY <1>3, <2>1
    <3> QED
      BY <1>2, <1>8, <1>14, <1>15, <1>17, <2>1, <3>1
  <2>2. CASE it.left = <<Do("composed", "down")>> /\ it.kind = "down"
    <3>1. step = Do("composed", "down")
      BY <1>3, <2>2
    <3> QED
      BY <1>7, <1>8, <1>14, <1>15, <1>17, <2>2, <3>1
  <2> QED
    BY <1>5, <1>17, <2>1, <2>2
<1>18. CommandInv'
  <2>1. \A p, r \in Commands : command'[p].at = "running" /\ command'[r].at = "running" => p = r
    <3>1. \A p \in Commands : command'[p].at = "running" => p = q
      BY <1>2, <1>13
    <3> QED
      BY <3>1
  <2>2. ASSUME NEW p \in Commands, command'[p].at = "running"
        PROVE  /\ command'[p].kind \in Kinds
               /\ command'[p].left \in StepsLeft(command'[p].kind)
               /\ command'[p].left = <<Do("monitors", "up")>> =>
                      (command'[p].ok => stack'.composed = "up")
    <3>1. p = q /\ command'[p] = new
      BY <1>2, <1>13, <2>2
    <3>2. Len(it.left) # 1
      BY <1>6, <1>11, <2>2, <3>1
    <3> QED
      BY <1>2, <1>5, <1>11, <1>16, <3>1, <3>2
  <2> QED
    BY <1>13, <1>14, <2>1, <2>2 DEF CommandInv
<1>19. ASSUME NEW p \in Commands  PROVE Truthful(p)
  <2>1. CASE p = q
    BY <1>1, <1>6, <1>11, <1>13, <1>17, <2>1 DEF Truthful
  <2>2. CASE p # q
    BY <1>2, <2>2 DEF Truthful
  <2> QED
    BY <2>1, <2>2
<1> QED
  BY <1>18, <1>19

(***************************************************************************)
(* A stack command that reports success has brought the services to what   *)
(* it asked, for any number of requests and any failures of docker.        *)
(***************************************************************************)
THEOREM StackAnswersAlwaysTrue == DashboardOnStream => StackAnswersAreTrue
<1> DEFINE AllTruthful == \A q \in Commands : Truthful(q)
<1>1. DashboardInit /\ StreamInit => CommandInv
  BY FeedInvInit
<1>2. CommandInv /\ [DashboardNext \/ StreamGoesOn]_dashboardVars => CommandInv' /\ AllTruthful
  <2> SUFFICES ASSUME CommandInv, [DashboardNext \/ StreamGoesOn]_dashboardVars
               PROVE  CommandInv' /\ AllTruthful
    OBVIOUS
  <2>1. CASE UNCHANGED <<command, stack>>
    BY <2>1 DEF CommandInv, Truthful
  <2>2. CASE \E q \in Commands : Press(q)
    <3>1. PICK q \in Commands : Press(q)
      BY <2>2
    <3> QED
      BY <3>1, CommandPressed DEF Truthful
  <2>3. CASE \E q \in Commands : RunStep(q)
    BY <2>3, CommandRuns
  <2> QED
    BY <2>1, <2>2, <2>3
       DEF DashboardNext, FeedStep, Open, ReadFeed, SendFeed, StreamGoesOn, dashboardVars,
           dashboardOwn
<1>3. AllTruthful <=> \A q \in Commands :
          command[q].at = "running" /\ command'[q].at = "done" /\ command'[q].ok
          => stack'.composed = IF command[q].kind = "down" THEN "down" ELSE "up"
  BY DEF Truthful
<1> QED
  BY <1>1, <1>2, <1>3, PTL DEF DashboardOnStream, StackAnswersAreTrue

=============================================================================
