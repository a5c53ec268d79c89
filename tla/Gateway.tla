------------------------------- MODULE Gateway -------------------------------
(***************************************************************************)
(* The API gateway (services/middleware): the layers a request crosses     *)
(* (error handler, authentication, rate limiter), the handler behind them, *)
(* which for most routes forwards it to another service, and the API keys  *)
(* that admins create and revoke.  Correlation IDs, the request log and    *)
(* the headers change nothing a property here is about.                    *)
(*                                                                         *)
(* Requests interleave at every await; each Redis command takes effect in  *)
(* one step and may fail before or after it has.  Redis is external, and   *)
(* so is Starlette, whose call_next the rate limiter calls twice.          *)
(***************************************************************************)
EXTENDS Integers, FiniteSets

CONSTANTS
    Requests,          \* requests that clients send
    ApiKeys,           \* keys that are ever created
    Credentials,       \* what a request shows: ApiKeys, and JWTs that are valid
    Client,            \* [Credentials -> user]: the subject, or a key's name
    EffectiveLimit,    \* [Credentials -> Nat]: the base limit times the role's
    MaxWindow,         \* bound of the model: windows 0..MaxWindow
    GatewayScenarios   \* sets of disruptions, one of which a behaviour has

GatewayDisruptions ==
    {"redis",      \* a command fails, before or after it has taken effect
     "upstream",   \* a handler raises
     "crash"}      \* the gateway dies and comes back

ASSUME GatewayAssumption ==
    /\ ApiKeys \subseteq Credentials
    /\ EffectiveLimit \in [Credentials -> Nat \ {0}]
    /\ DOMAIN Client = Credentials
    /\ MaxWindow \in Nat
    /\ \A s \in GatewayScenarios : s \subseteq GatewayDisruptions

VARIABLES
    key,        \* key[k]: "raw" and "index", those of its entries in Redis
    admin,      \* admin[k]: how far creating and revoking it has come
    hits,       \* hits[u][w]: the counter of user u and window w, 0 if absent
    expiring,   \* counters that have an expiry
    now,        \* the current window
    request,    \* request[r]: see Arrived
    gatewayFaults

gatewayVars == <<key, admin, hits, expiring, now, request, gatewayFaults>>

Users   == {Client[c] : c \in Credentials}
Windows == 0..MaxWindow

(***************************************************************************)
(* A request's place; what it showed; whether its key had been revoked     *)
(* when it came; its window and whether it was counted in time and let     *)
(* through; the runs of its handler, those that raised, and whether the    *)
(* last one is the except clause's; the answer.                            *)
(***************************************************************************)
Arrived(c, at, late) ==
    [at |-> at, cred |-> c, late |-> late, window |-> now, counted |-> FALSE,
     runs |-> 0, raised |-> 0, again |-> FALSE, answer |-> "none"]

Places  == {"none", "lookup", "count", "expire", "handler", "fallback", "hung", "done"}
Answers == {"none", "handled", "unauthorized", "limited", "error", "gone"}
Stages  == {"absent", "storing", "indexing", "issued", "failed", "unsure", "deleting", "revoked"}

\* What an action on request r does to it.
Goto(r, place)    == request' = [request EXCEPT ![r].at = place]
Finish(r, answer) == request' = [request EXCEPT ![r].at = "done", ![r].answer = answer]

Fails == "redis" \in gatewayFaults

(***************************************************************************)
(* create_api_key: two SETs, the key first, then the index by which it can *)
(* be revoked.  The caller learns the key from the answer only.            *)
(***************************************************************************)
CreateKey(k) ==
    /\ admin[k] = "absent"
    /\ admin' = [admin EXCEPT ![k] = "storing"]
    /\ UNCHANGED <<key, hits, expiring, now, request, gatewayFaults>>

Store(k, stage, entry, next) ==
    /\ admin[k] = stage
    /\ \/ /\ key' = [key EXCEPT ![k] = @ \cup {entry}]
          /\ admin' = [admin EXCEPT ![k] = next]
       \/ /\ Fails
          /\ key' \in {key, [key EXCEPT ![k] = @ \cup {entry}]}
          /\ admin' = [admin EXCEPT ![k] = "failed"]
    /\ UNCHANGED <<hits, expiring, now, request, gatewayFaults>>

StoreKey(k)   == Store(k, "storing", "raw", "indexing")
StoreIndex(k) == Store(k, "indexing", "index", "issued")

(***************************************************************************)
(* revoke_api_key: GET the index, 404 without it, else one DELETE of both. *)
(* An admin whose request failed asks again.  An attempt whose GET failed  *)
(* has changed nothing.                                                    *)
(***************************************************************************)
FindKey(k) ==
    /\ admin[k] \in {"issued", "unsure"}
    /\ admin' = [admin EXCEPT ![k] = IF "index" \in key[k] THEN "deleting" ELSE "revoked"]
    /\ UNCHANGED <<key, hits, expiring, now, request, gatewayFaults>>

\* Fault: a DELETE for each entry, of which the second may not be reached.
Remains_twoDeletes(k) == {key[k], key[k] \ {"index"}, {}}

\* What a failed DELETE may leave.
Remains(k) == {key[k], {}}

DeleteKey(k) ==
    /\ admin[k] = "deleting"
    /\ \/ /\ key' = [key EXCEPT ![k] = {}]
          /\ admin' = [admin EXCEPT ![k] = "revoked"]
       \/ /\ Fails
          /\ \E left \in Remains(k) : key' = [key EXCEPT ![k] = left]
          /\ admin' = [admin EXCEPT ![k] = "unsure"]
    /\ UNCHANGED <<hits, expiring, now, request, gatewayFaults>>

-----------------------------------------------------------------------------
(***************************************************************************)
(* A request.  AuthenticationMiddleware.dispatch checks a JWT without any  *)
(* await, so that one that is valid is at the counter at once, in the      *)
(* window the clock then shows; one that is not is any other credential.   *)
(* A key is known to clients once the answer to its creation is out.       *)
(***************************************************************************)
KnownKeys == {k \in ApiKeys : admin[k] \in {"issued", "unsure", "deleting", "revoked"}}

Arrive(r) ==
    /\ request[r].at = "none"
    /\ \E c \in KnownKeys \cup (Credentials \ ApiKeys) :
          request' = [request EXCEPT ![r] =
              IF c \in ApiKeys THEN Arrived(c, "lookup", admin[c] = "revoked")
                               ELSE Arrived(c, "count", FALSE)]
    /\ UNCHANGED <<key, admin, hits, expiring, now, gatewayFaults>>

\* _validate_api_key: a failing GET is answered like an unknown key.
Lookup(r) ==
    /\ request[r].at = "lookup"
    /\ \/ /\ "raw" \in key[request[r].cred]
          /\ request' = [request EXCEPT ![r].at = "count", ![r].window = now]
       \/ (Fails \/ "raw" \notin key[request[r].cred]) /\ Finish(r, "unauthorized")
    /\ UNCHANGED <<key, admin, hits, expiring, now, gatewayFaults>>

(***************************************************************************)
(* RateLimiterMiddleware.dispatch: INCR the counter of the window, EXPIRE  *)
(* it if this was the first, compare.  Either command failing leads to the *)
(* except clause, which lets the request through uncounted.                *)
(***************************************************************************)
User(r) == Client[request[r].cred]

Hit(r) == hits' = [hits EXCEPT ![User(r)][request[r].window] = @ + 1]

\* Fault: the counter as it was before the request.
Exceeds_countBefore(r, n) == n - 1 > EffectiveLimit[request[r].cred]

Exceeds(r, n) == n > EffectiveLimit[request[r].cred]

Judge(r, n) ==
    IF Exceeds(r, n) THEN Finish(r, "limited")
    ELSE request' = [request EXCEPT ![r].at = "handler", ![r].runs = @ + 1,
                                    ![r].counted = (request[r].window = now)]

Count(r) ==
    /\ request[r].at = "count"
    /\ LET n == hits[User(r)][request[r].window] + 1
       IN \/ /\ Hit(r)
             /\ IF n = 1 THEN Goto(r, "expire") ELSE Judge(r, n)
          \/ /\ Fails
             /\ hits' = hits \/ Hit(r)
             /\ Goto(r, "fallback")
    /\ UNCHANGED <<key, admin, expiring, now, gatewayFaults>>

Expire(r) ==
    LET counter == <<User(r), request[r].window>> IN
    /\ request[r].at = "expire"
    /\ \/ expiring' = expiring \cup {counter} /\ Judge(r, 1)
       \/ /\ Fails
          /\ expiring' \in {expiring, expiring \cup {counter}}
          /\ Goto(r, "fallback")
    /\ UNCHANGED <<key, admin, hits, now, gatewayFaults>>

\* A counter lives window + 1 seconds from its first hit.
Outlived(w) == w < now

Forget(u, w) ==
    /\ <<u, w>> \in expiring
    /\ Outlived(w)
    /\ expiring' = expiring \ {<<u, w>>}
    /\ hits' = [hits EXCEPT ![u][w] = 0]
    /\ UNCHANGED <<key, admin, now, request, gatewayFaults>>

(***************************************************************************)
(* The handler answers, or raises.  What call_next raises inside the try   *)
(* is taken for a Redis failure and the request is handed on once more;    *)
(* inside the except clause it reaches ErrorHandlerMiddleware.             *)
(***************************************************************************)
Answer(r) ==
    /\ request[r].at = "handler"
    /\ Finish(r, "handled")
    /\ UNCHANGED <<key, admin, hits, expiring, now, gatewayFaults>>

\* Fault: the except clause covers its own call too.
Retried_always(r) == TRUE

Retried(r) == ~request[r].again

Raise(r) ==
    /\ "upstream" \in gatewayFaults
    /\ request[r].at = "handler"
    /\ request[r].raised < 2    \* bound of the faulty variant
    /\ IF Retried(r)
       THEN request' = [request EXCEPT ![r].at = "fallback", ![r].raised = @ + 1]
       ELSE request' = [request EXCEPT ![r].at = "done", ![r].raised = @ + 1,
                                       ![r].answer = "error"]
    /\ UNCHANGED <<key, admin, hits, expiring, now, gatewayFaults>>

(***************************************************************************)
(* The except clause.  After a first call_next the body has been read: the *)
(* library then runs the handler again, raises, or waits for the client to *)
(* go away.                                                                *)
(***************************************************************************)
Fallback(r) ==
    /\ request[r].at = "fallback"
    /\ \/ request' = [request EXCEPT ![r].at = "handler", ![r].runs = @ + 1,
                                      ![r].again = TRUE]
       \/ /\ request[r].runs > 0
          /\ Goto(r, "hung") \/ Finish(r, "error")
    /\ UNCHANGED <<key, admin, hits, expiring, now, gatewayFaults>>

Leave(r) ==
    /\ request[r].at = "hung"
    /\ Finish(r, "gone")
    /\ UNCHANGED <<key, admin, hits, expiring, now, gatewayFaults>>

-----------------------------------------------------------------------------
NextWindow ==
    /\ now < MaxWindow
    /\ now' = now + 1
    /\ UNCHANGED <<key, admin, hits, expiring, request, gatewayFaults>>

\* The gateway keeps nothing but what is in Redis.
GatewayCrash ==
    /\ "crash" \in gatewayFaults
    /\ \/ \E r \in Requests : request[r].at \notin {"none", "done"}
       \/ \E k \in ApiKeys : admin[k] \in {"storing", "indexing", "deleting"}
    /\ request' = [r \in Requests |->
           IF request[r].at \in {"none", "done"} THEN request[r]
           ELSE [request[r] EXCEPT !.at = "done", !.answer = "gone"]]
    /\ admin' = [k \in ApiKeys |->
           CASE admin[k] \in {"storing", "indexing"} -> "failed"
             [] admin[k] = "deleting" -> "unsure"
             [] OTHER -> admin[k]]
    /\ UNCHANGED <<key, hits, expiring, now, gatewayFaults>>

GatewayInit ==
    /\ key = [k \in ApiKeys |-> {}]
    /\ admin = [k \in ApiKeys |-> "absent"]
    /\ hits = [u \in Users |-> [w \in Windows |-> 0]]
    /\ expiring = {}
    /\ now = 0
    /\ request = [r \in Requests |->
           [Arrived(CHOOSE c \in Credentials : TRUE, "none", FALSE) EXCEPT !.window = 0]]
    /\ gatewayFaults \in GatewayScenarios

Step(r) == Lookup(r) \/ Count(r) \/ Expire(r) \/ Answer(r) \/ Raise(r) \/ Fallback(r) \/ Leave(r)

KeysNext ==
    \E k \in ApiKeys : CreateKey(k) \/ StoreKey(k) \/ StoreIndex(k) \/ FindKey(k) \/ DeleteKey(k)

GatewayNext ==
    \/ KeysNext
    \/ \E r \in Requests : Arrive(r) \/ Step(r)
    \/ \E u \in Users, w \in Windows : Forget(u, w)
    \/ NextWindow
    \/ GatewayCrash

\* Handlers end: the proxy's client has a timeout, and so have those that wait.
GatewayProgress == \E r \in Requests : Step(r)

-----------------------------------------------------------------------------
GatewayTypeOK ==
    /\ key \in [ApiKeys -> SUBSET {"raw", "index"}]
    /\ admin \in [ApiKeys -> Stages]
    /\ hits \in [Users -> [Windows -> 0..Cardinality(Requests)]]
    /\ expiring \subseteq Users \X Windows
    /\ now \in Windows
    /\ \A r \in Requests : request[r].at \in Places /\ request[r].answer \in Answers

(***************************************************************************)
(* Of a client's requests that were counted in their window, with Redis    *)
(* answering, no more than the limit of the role reach a handler: however  *)
(* they interleave between INCR, EXPIRE and the comparison, across windows *)
(* and restarts, and while old counters expire.                            *)
(***************************************************************************)
LimitIsKept ==
    \A c \in Credentials, w \in Windows :
        Cardinality({r \in Requests : /\ request[r].counted
                                      /\ request[r].cred = c
                                      /\ request[r].window = w}) <= EffectiveLimit[c]

(***************************************************************************)
(* A handler runs at most twice for one request, a second time only after  *)
(* the first raised, and never for a request that was refused, nor for one *)
(* that came with a key after its revocation had been answered.            *)
(***************************************************************************)
ForwardsAreBounded ==
    \A r \in Requests :
        /\ request[r].runs <= 2
        /\ request[r].runs = 2 => request[r].raised > 0
        /\ request[r].answer \in {"unauthorized", "limited"} => request[r].runs = 0
        /\ request[r].late => request[r].runs = 0

(***************************************************************************)
(* A key that was handed out works and can be revoked until an admin sets  *)
(* out to do so; one reported revoked, or not found, works no more; and    *)
(* whatever failed in between, a key that can be revoked is one that       *)
(* exists.                                                                 *)
(***************************************************************************)
KeysAgree ==
    \A k \in ApiKeys :
        /\ admin[k] = "issued" => key[k] = {"raw", "index"}
        /\ admin[k] = "revoked" => key[k] = {}
        /\ "index" \in key[k] => "raw" \in key[k]

(***************************************************************************)
(* Every request is answered, unless its client leaves or the gateway dies *)
(* under it: also when Redis is out and when handlers raise.               *)
(***************************************************************************)
EveryRequestIsAnswered ==
    []<>(\A r \in Requests : request[r].at \in {"none", "done"})

=============================================================================
