---------------------------- MODULE VersionVector ----------------------------
(***************************************************************************)
(* coordination's version vectors.  A vector is a dict from node ids to    *)
(* counters in which a missing node counts as 0, so that two dicts with    *)
(* different keys may be the same vector.                                  *)
(*                                                                         *)
(* Nothing in the service uses the class yet.  The system below is the one *)
(* its docstrings describe: nodes that update a replicated value, publish  *)
(* their vector (copy() or to_dict()) and merge what others published,     *)
(* early or late, once or again.                                           *)
(***************************************************************************)
EXTENDS Integers

CONSTANTS
    Updaters,      \* the node ids
    MaxUpdates     \* each node updates at most so often (bound)

ASSUME VectorAssumption == MaxUpdates \in Nat

VARIABLES
    vector,      \* the VersionVector each node keeps
    published,   \* the copy it published last
    made,        \* the updates each node has made (history)
    heard,       \* the updates each node's vector stands for (history)
    announced    \* those its published copy stands for (history)

vectorVars == <<vector, published, made, heard, announced>>

\* _clock.get(node_id, 0)
Get(clock, n) == IF n \in DOMAIN clock THEN clock[n] ELSE 0

\* The dicts a vector may be.
Clocks == UNION {[N -> Nat] : N \in SUBSET Updaters}

NewVector == [n \in {} |-> 0]

Increment(clock, n) ==
    [m \in DOMAIN clock \cup {n} |-> Get(clock, m) + (IF m = n THEN 1 ELSE 0)]

Larger(i, j) == IF i >= j THEN i ELSE j

\* Fault: update() of the dict instead of the larger of the two counters.
Merge_overwrites(clock, other) ==
    [n \in DOMAIN clock \cup DOMAIN other |->
        IF n \in DOMAIN other THEN other[n] ELSE clock[n]]

Merge(clock, other) ==
    [n \in DOMAIN clock \cup DOMAIN other |->
        IF n \in DOMAIN other THEN Larger(Get(clock, n), other[n]) ELSE clock[n]]

\* The loop over all_nodes: no component smaller, at least one greater.
Dominates(clock, other) ==
    LET all == DOMAIN clock \cup DOMAIN other
    IN  /\ \A n \in all : Get(clock, n) >= Get(other, n)
        /\ \E n \in all : Get(clock, n) > Get(other, n)

\* __eq__
SameVector(clock, other) ==
    \A n \in DOMAIN clock \cup DOMAIN other : Get(clock, n) = Get(other, n)

ConcurrentWith(clock, other) ==
    /\ ~Dominates(clock, other)
    /\ ~Dominates(other, clock)
    /\ ~SameVector(clock, other)

-----------------------------------------------------------------------------
VectorInit ==
    /\ vector = [n \in Updaters |-> NewVector]
    /\ published = [n \in Updaters |-> NewVector]
    /\ made = [n \in Updaters |-> 0]
    /\ heard = [n \in Updaters |-> {}]
    /\ announced = [n \in Updaters |-> {}]

Update(n) ==
    /\ made[n] < MaxUpdates
    /\ vector' = [vector EXCEPT ![n] = Increment(@, n)]
    /\ made' = [made EXCEPT ![n] = @ + 1]
    /\ heard' = [heard EXCEPT ![n] = @ \cup {<<n, made[n] + 1>>}]
    /\ UNCHANGED <<published, announced>>

\* copy() and to_dict() detach what is published from what goes on changing.
Publish(n) ==
    /\ published' = [published EXCEPT ![n] = vector[n]]
    /\ announced' = [announced EXCEPT ![n] = heard[n]]
    /\ UNCHANGED <<vector, made, heard>>

Receive(n, m) ==
    /\ vector' = [vector EXCEPT ![n] = Merge(@, published[m])]
    /\ heard' = [heard EXCEPT ![n] = @ \cup announced[m]]
    /\ UNCHANGED <<published, made, announced>>

VectorNext ==
    \E n \in Updaters :
        \/ Update(n)
        \/ Publish(n)
        \/ \E m \in Updaters : Receive(n, m)

VectorSpec == VectorInit /\ [][VectorNext]_vectorVars

-----------------------------------------------------------------------------
(***************************************************************************)
(* What one vector says of another, against what their owners have heard:  *)
(* it dominates exactly if its owner knows everything the other knew and   *)
(* something else, they are equal exactly if both know the same, and       *)
(* concurrent exactly if each knows something the other does not ("whether *)
(* one causally precedes the other or the updates are concurrent").        *)
(***************************************************************************)
TellsTruth(c, known, d, other) ==
    /\ Dominates(c, d) <=> other \subseteq known /\ other # known
    /\ SameVector(c, d) <=> known = other
    /\ ConcurrentWith(c, d) <=> ~(known \subseteq other) /\ ~(other \subseteq known)

(***************************************************************************)
(* The vectors capture causality, between nodes and between a node and     *)
(* anything another one has published, however old.                        *)
(***************************************************************************)
OrderIsCausal ==
    \A n, m \in Updaters :
        /\ TellsTruth(vector[n], heard[n], vector[m], heard[m])
        /\ TellsTruth(vector[n], heard[n], published[m], announced[m])
        /\ TellsTruth(published[n], announced[n], published[m], announced[m])

=============================================================================
