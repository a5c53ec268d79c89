------------------------- MODULE Coordination_proofs -------------------------
(***************************************************************************)
(* Proofs about the parts of the coordination service other than leader    *)
(* election, each for any value of its constants: the version vectors, the *)
(* replicated configuration and the membership.                            *)
(***************************************************************************)
EXTENDS VersionVector, ConfigSync, Membership, SequenceTheorems, TLAPS

(***************************************************************************)
(* Version vectors: dominance is a strict partial order of which merge is  *)
(* the least upper bound, exactly one of the four relations holds between  *)
(* two vectors, and the order of the vectors is that of what their owners  *)
(* have heard.                                                             *)
(***************************************************************************)
\* Component by component; vectors outside the dicts' keys are 0.
AtMost(c, d) == \A n \in Updaters : Get(c, n) <= Get(d, n)

\* The updates a vector stands for.
History(c) == {u \in Updaters \X (Nat \ {0}) : u[2] <= Get(c, u[1])}

-----------------------------------------------------------------------------
LEMMA GetIsCount ==
    ASSUME NEW c \in Clocks, NEW n
    PROVE  /\ Get(c, n) \in Nat
           /\ n \notin DOMAIN c => Get(c, n) = 0
           /\ DOMAIN c \subseteq Updaters
BY DEF Clocks, Get

LEMMA DominatesPointwise ==
    ASSUME NEW c \in Clocks, NEW d \in Clocks
    PROVE  Dominates(c, d) <=> AtMost(d, c) /\ ~AtMost(c, d)
<1>1. \A n : Get(c, n) \in Nat /\ Get(d, n) \in Nat
  BY GetIsCount
<1>2. DOMAIN c \cup DOMAIN d \subseteq Updaters
  BY GetIsCount
<1>3. \A n : n \notin DOMAIN c \cup DOMAIN d => Get(c, n) = 0 /\ Get(d, n) = 0
  BY GetIsCount
<1>4. AtMost(d, c)
        <=> \A n \in DOMAIN c \cup DOMAIN d : Get(c, n) >= Get(d, n)
  BY <1>1, <1>2, <1>3 DEF AtMost
<1>5. ~AtMost(c, d)
        <=> \E n \in DOMAIN c \cup DOMAIN d : Get(c, n) > Get(d, n)
  BY <1>1, <1>2, <1>3 DEF AtMost
<1> QED
  BY <1>4, <1>5 DEF Dominates

LEMMA SamePointwise ==
    ASSUME NEW c \in Clocks, NEW d \in Clocks
    PROVE  SameVector(c, d) <=> AtMost(c, d) /\ AtMost(d, c)
<1>1. \A n : Get(c, n) \in Nat /\ Get(d, n) \in Nat
  BY GetIsCount
<1>2. DOMAIN c \cup DOMAIN d \subseteq Updaters
  BY GetIsCount
<1>3. \A n : n \notin DOMAIN c \cup DOMAIN d => Get(c, n) = 0 /\ Get(d, n) = 0
  BY GetIsCount
<1> QED
  BY <1>1, <1>2, <1>3 DEF AtMost, SameVector

LEMMA AtMostTransitive ==
    ASSUME NEW c \in Clocks, NEW d \in Clocks, NEW e \in Clocks,
           AtMost(c, d), AtMost(d, e)
    PROVE  AtMost(c, e)
<1> SUFFICES ASSUME NEW n \in Updaters  PROVE Get(c, n) <= Get(e, n)
  BY DEF AtMost
<1>1. Get(c, n) \in Nat /\ Get(d, n) \in Nat /\ Get(e, n) \in Nat
  BY GetIsCount
<1>2. Get(c, n) <= Get(d, n) /\ Get(d, n) <= Get(e, n)
  BY DEF AtMost
<1> QED
  BY <1>1, <1>2

-----------------------------------------------------------------------------
(***************************************************************************)
(* "Happened-after" is a strict partial order: dominates() never holds of  *)
(* a vector and itself, never both ways, and follows chains.               *)
(***************************************************************************)
THEOREM DominanceIsStrictOrder ==
    ASSUME NEW c \in Clocks, NEW d \in Clocks, NEW e \in Clocks
    PROVE  /\ ~Dominates(c, c)
           /\ ~(Dominates(c, d) /\ Dominates(d, c))
           /\ Dominates(c, d) /\ Dominates(d, e) => Dominates(c, e)
<1>1. ~Dominates(c, c)
  BY DominatesPointwise
<1>2. ~(Dominates(c, d) /\ Dominates(d, c))
  BY DominatesPointwise
<1>3. ASSUME Dominates(c, d), Dominates(d, e)  PROVE Dominates(c, e)
  <2>1. AtMost(d, c) /\ ~AtMost(c, d) /\ AtMost(e, d)
    BY <1>3, DominatesPointwise
  <2>2. AtMost(e, c)
    BY <2>1, AtMostTransitive
  <2>3. AtMost(c, e) => AtMost(c, d)
    BY <2>1, AtMostTransitive
  <2> QED
    BY <2>1, <2>2, <2>3, DominatesPointwise
<1> QED
  BY <1>1, <1>2, <1>3

(***************************************************************************)
(* Of two vectors one dominates the other, they are equal, or they are     *)
(* concurrent: one and only one of the four, whatever keys their dicts     *)
(* hold.  Concurrent_with() relies on __eq__ treating a missing node as 0. *)
(***************************************************************************)
THEOREM ExactlyOneRelation ==
    ASSUME NEW c \in Clocks, NEW d \in Clocks
    PROVE  /\ \/ Dominates(c, d) \/ Dominates(d, c)
              \/ SameVector(c, d) \/ ConcurrentWith(c, d)
           /\ SameVector(c, d) => ~Dominates(c, d) /\ ~Dominates(d, c)
           /\ ConcurrentWith(c, d) => ~AtMost(c, d) /\ ~AtMost(d, c)
BY DominatesPointwise, SamePointwise DEF ConcurrentWith

-----------------------------------------------------------------------------
LEMMA MergePointwise ==
    ASSUME NEW c \in Clocks, NEW d \in Clocks
    PROVE  /\ Merge(c, d) \in Clocks
           /\ \A n : Get(Merge(c, d), n) = Larger(Get(c, n), Get(d, n))
<1>1. \A n : Get(c, n) \in Nat /\ Get(d, n) \in Nat
  BY GetIsCount
<1>2. DOMAIN c \cup DOMAIN d \in SUBSET Updaters
  BY GetIsCount
<1>3. ASSUME NEW n \in DOMAIN c \cup DOMAIN d
      PROVE  /\ Merge(c, d)[n] = Larger(Get(c, n), Get(d, n))
             /\ Merge(c, d)[n] \in Nat
  BY <1>1 DEF Merge, Get, Larger
<1>4. Merge(c, d) \in [DOMAIN c \cup DOMAIN d -> Nat]
  BY <1>3 DEF Merge
<1>5. ASSUME NEW n  PROVE Get(Merge(c, d), n) = Larger(Get(c, n), Get(d, n))
  <2>1. CASE n \in DOMAIN c \cup DOMAIN d
    BY <2>1, <1>3, <1>4 DEF Get
  <2>2. CASE n \notin DOMAIN c \cup DOMAIN d
    BY <2>2, <1>4 DEF Get, Larger
  <2> QED
    BY <2>1, <2>2
<1> QED
  BY <1>2, <1>4, <1>5 DEF Clocks

(***************************************************************************)
(* merge() keeps all that both vectors stand for and adds nothing: the     *)
(* result is their least upper bound, so merging late, again or in another *)
(* order loses nothing.                                                    *)
(***************************************************************************)
THEOREM MergeIsLeastUpperBound ==
    ASSUME NEW c \in Clocks, NEW d \in Clocks, NEW e \in Clocks
    PROVE  /\ AtMost(c, Merge(c, d)) /\ AtMost(d, Merge(c, d))
           /\ AtMost(c, e) /\ AtMost(d, e) => AtMost(Merge(c, d), e)
           /\ SameVector(Merge(c, d), Merge(d, c))
<1>1. \A n : Get(c, n) \in Nat /\ Get(d, n) \in Nat /\ Get(e, n) \in Nat
  BY GetIsCount
<1>2. \A n : /\ Get(Merge(c, d), n) = Larger(Get(c, n), Get(d, n))
             /\ Get(Merge(d, c), n) = Larger(Get(d, n), Get(c, n))
  BY MergePointwise
<1>3. AtMost(c, Merge(c, d)) /\ AtMost(d, Merge(c, d))
  BY <1>1, <1>2 DEF AtMost, Larger
<1>4. AtMost(c, e) /\ AtMost(d, e) => AtMost(Merge(c, d), e)
  BY <1>1, <1>2 DEF AtMost, Larger
<1>5. SameVector(Merge(c, d), Merge(d, c))
  BY <1>1, <1>2 DEF SameVector, Larger
<1> QED
  BY <1>3, <1>4, <1>5

-----------------------------------------------------------------------------
LEMMA IncrementPointwise ==
    ASSUME NEW c \in Clocks, NEW n \in Updaters
    PROVE  /\ Increment(c, n) \in Clocks
           /\ Get(Increment(c, n), n) = Get(c, n) + 1
           /\ \A m : m # n => Get(Increment(c, n), m) = Get(c, m)
<1>1. \A m : Get(c, m) \in Nat
  BY GetIsCount
<1>2. DOMAIN c \cup {n} \in SUBSET Updaters
  BY GetIsCount
<1>3. Increment(c, n) \in [DOMAIN c \cup {n} -> Nat]
  BY <1>1 DEF Increment
<1>4. Get(Increment(c, n), n) = Get(c, n) + 1
  BY <1>1, <1>3 DEF Increment, Get
<1>5. \A m : m # n => Get(Increment(c, n), m) = Get(c, m)
  BY <1>1, <1>3 DEF Increment, Get
<1> QED
  BY <1>2, <1>3, <1>4, <1>5 DEF Clocks

LEMMA HistoryOrder ==
    ASSUME NEW c \in Clocks, NEW d \in Clocks
    PROVE  History(c) \subseteq History(d) <=> AtMost(c, d)
<1>1. \A n : Get(c, n) \in Nat /\ Get(d, n) \in Nat
  BY GetIsCount
<1>2. ASSUME AtMost(c, d)  PROVE History(c) \subseteq History(d)
  BY <1>1, <1>2 DEF History, AtMost
<1>3. ASSUME History(c) \subseteq History(d), NEW n \in Updaters
      PROVE  Get(c, n) <= Get(d, n)
  <2>1. CASE Get(c, n) = 0
    BY <2>1, <1>1
  <2>2. CASE Get(c, n) # 0
    <3>1. <<n, Get(c, n)>> \in History(c)
      BY <2>2, <1>1 DEF History
    <3>2. <<n, Get(c, n)>> \in History(d)
      BY <3>1, <1>3
    <3> QED
      BY <3>2 DEF History
  <2> QED
    BY <2>1, <2>2
<1> QED
  BY <1>2, <1>3 DEF AtMost

LEMMA HistoryOfIncrement ==
    ASSUME NEW c \in Clocks, NEW n \in Updaters
    PROVE  History(Increment(c, n)) = History(c) \cup {<<n, Get(c, n) + 1>>}
<1>1. \A m : Get(c, m) \in Nat
  BY GetIsCount
<1>2. ASSUME NEW m \in Updaters, NEW k \in Nat \ {0}
      PROVE  <<m, k>> \in History(Increment(c, n))
                <=> <<m, k>> \in History(c) \cup {<<n, Get(c, n) + 1>>}
  <2>1. CASE m = n
    BY <2>1, <1>1, IncrementPointwise DEF History
  <2>2. CASE m # n
    BY <2>2, <1>1, IncrementPointwise DEF History
  <2> QED
    BY <2>1, <2>2
<1>3. Get(c, n) + 1 \in Nat \ {0}
  BY <1>1
<1>4. /\ History(Increment(c, n)) \subseteq Updaters \X (Nat \ {0})
      /\ History(c) \cup {<<n, Get(c, n) + 1>>} \subseteq Updaters \X (Nat \ {0})
  BY <1>3 DEF History
<1> HIDE DEF History
<1> QED
  BY <1>2, <1>4

LEMMA HistoryOfMerge ==
    ASSUME NEW c \in Clocks, NEW d \in Clocks
    PROVE  History(Merge(c, d)) = History(c) \cup History(d)
<1>1. \A n : Get(c, n) \in Nat /\ Get(d, n) \in Nat
  BY GetIsCount
<1>2. \A n : Get(Merge(c, d), n) = Larger(Get(c, n), Get(d, n))
  BY MergePointwise
<1>3. \A n \in Updaters : \A k \in Nat \ {0} :
        k <= Get(Merge(c, d), n) <=> k <= Get(c, n) \/ k <= Get(d, n)
  BY <1>1, <1>2 DEF Larger
<1> QED
  BY <1>3 DEF History

-----------------------------------------------------------------------------
(***************************************************************************)
(* The inductive invariant: every vector stands for exactly the updates    *)
(* heard of, and a node's own counter is the number of updates it made, so *)
(* no two updates ever get the same name.                                  *)
(***************************************************************************)
VectorTypeOK ==
    /\ vector \in [Updaters -> Clocks]
    /\ published \in [Updaters -> Clocks]
    /\ made \in [Updaters -> Nat]
    /\ heard \in [Updaters -> SUBSET (Updaters \X (Nat \ {0}))]
    /\ announced \in [Updaters -> SUBSET (Updaters \X (Nat \ {0}))]

VectorInv ==
    /\ VectorTypeOK
    /\ \A n \in Updaters :
          /\ heard[n] = History(vector[n])
          /\ announced[n] = History(published[n])
          /\ made[n] = Get(vector[n], n)
          /\ \A m \in Updaters : Get(published[m], n) <= made[n]
          /\ \A m \in Updaters : Get(vector[m], n) <= made[n]

LEMMA EmptyVector ==
    /\ NewVector \in Clocks
    /\ \A n : Get(NewVector, n) = 0
    /\ History(NewVector) = {}
<1>1. NewVector \in Clocks
  BY DEF NewVector, Clocks
<1>2. \A n : Get(NewVector, n) = 0
  BY DEF NewVector, Get
<1>3. History(NewVector) = {}
  BY <1>2 DEF History
<1> QED
  BY <1>1, <1>2, <1>3

LEMMA VectorInvInit == VectorInit => VectorInv
BY EmptyVector DEF VectorInit, VectorInv, VectorTypeOK

LEMMA VectorInvUpdate ==
    ASSUME VectorInv, NEW n \in Updaters, Update(n)
    PROVE  VectorInv'
<1> DEFINE new == Increment(vector[n], n)
<1>1. /\ vector[n] \in Clocks
      /\ made[n] \in Nat
      /\ vector' = [vector EXCEPT ![n] = new]
      /\ made' = [made EXCEPT ![n] = made[n] + 1]
      /\ heard' = [heard EXCEPT ![n] = heard[n] \cup {<<n, made[n] + 1>>}]
      /\ published' = published /\ announced' = announced
  BY DEF VectorInv, VectorTypeOK, Update
<1>2. /\ new \in Clocks
      /\ Get(new, n) = made[n] + 1
      /\ \A m : m # n => Get(new, m) = Get(vector[n], m)
      /\ History(new) = heard[n] \cup {<<n, made[n] + 1>>}
  BY <1>1, IncrementPointwise, HistoryOfIncrement DEF VectorInv
<1> HIDE DEF new
<1>3. VectorTypeOK'
  BY <1>1, <1>2 DEF VectorInv, VectorTypeOK, History
<1>4. ASSUME NEW m \in Updaters
      PROVE  /\ heard'[m] = History(vector'[m])
             /\ announced'[m] = History(published'[m])
             /\ made'[m] = Get(vector'[m], m)
  BY <1>1, <1>2 DEF VectorInv, VectorTypeOK
<1>5. ASSUME NEW m \in Updaters, NEW o \in Updaters
      PROVE  /\ Get(published'[o], m) <= made'[m]
             /\ Get(vector'[o], m) <= made'[m]
  <2>1. /\ Get(published[o], m) \in Nat /\ Get(vector[o], m) \in Nat
        /\ made[m] \in Nat
    BY GetIsCount DEF VectorInv, VectorTypeOK
  <2> QED
    BY <1>1, <1>2, <2>1 DEF VectorInv, VectorTypeOK
<1> QED
  BY <1>3, <1>4, <1>5 DEF VectorInv

LEMMA VectorInvPublish ==
    ASSUME VectorInv, NEW n \in Updaters, Publish(n)
    PROVE  VectorInv'
BY DEF VectorInv, VectorTypeOK, Publish

LEMMA VectorInvReceive ==
    ASSUME VectorInv, NEW n \in Updaters, NEW m \in Updaters, Receive(n, m)
    PROVE  VectorInv'
<1> DEFINE new == Merge(vector[n], published[m])
<1>1. /\ vector[n] \in Clocks /\ published[m] \in Clocks
      /\ vector' = [vector EXCEPT ![n] = new]
      /\ heard' = [heard EXCEPT ![n] = heard[n] \cup announced[m]]
      /\ made' = made /\ published' = published /\ announced' = announced
  BY DEF VectorInv, VectorTypeOK, Receive
<1>2. /\ new \in Clocks
      /\ \A o : Get(new, o) = Larger(Get(vector[n], o), Get(published[m], o))
  BY <1>1, MergePointwise
<1>3. History(new) = heard[n] \cup announced[m]
  <2>1. heard[n] = History(vector[n]) /\ announced[m] = History(published[m])
    BY DEF VectorInv
  <2> QED
    BY <1>1, <2>1, HistoryOfMerge
<1> HIDE DEF new
<1>4. VectorTypeOK'
  BY <1>1, <1>2 DEF VectorInv, VectorTypeOK
<1>5. ASSUME NEW o \in Updaters
      PROVE  /\ Get(new, o) <= made[o]
             /\ o = n => Get(new, o) = made[o]
  <2>1. /\ Get(vector[n], o) \in Nat /\ Get(published[m], o) \in Nat
        /\ made[o] \in Nat
    BY GetIsCount DEF VectorInv, VectorTypeOK
  <2> QED
    BY <1>2, <2>1 DEF VectorInv, Larger
<1> QED
  BY <1>1, <1>2, <1>3, <1>4, <1>5 DEF VectorInv, VectorTypeOK

LEMMA TruthOfHistories ==
    ASSUME NEW c \in Clocks, NEW d \in Clocks
    PROVE  TellsTruth(c, History(c), d, History(d))
<1>1. /\ History(c) \subseteq History(d) <=> AtMost(c, d)
      /\ History(d) \subseteq History(c) <=> AtMost(d, c)
  BY HistoryOrder
<1>2. History(c) = History(d) <=> AtMost(c, d) /\ AtMost(d, c)
  BY <1>1
<1> QED
  BY <1>1, <1>2, DominatesPointwise, SamePointwise
     DEF TellsTruth, ConcurrentWith

(***************************************************************************)
(* The vectors capture causality, for any number of nodes and updates and  *)
(* any order of publishing and merging: "if two vectors are compared the   *)
(* relationship tells us whether one causally precedes the other".         *)
(***************************************************************************)
THEOREM VectorsAreCausal == VectorSpec => []OrderIsCausal
<1>1. VectorInit => VectorInv
  BY VectorInvInit
<1>2. VectorInv /\ [VectorNext]_vectorVars => VectorInv'
  <2> SUFFICES ASSUME VectorInv, [VectorNext]_vectorVars  PROVE VectorInv'
    OBVIOUS
  <2>1. ASSUME NEW n \in Updaters, Update(n)  PROVE VectorInv'
    BY <2>1, VectorInvUpdate
  <2>2. ASSUME NEW n \in Updaters, Publish(n)  PROVE VectorInv'
    BY <2>2, VectorInvPublish
  <2>3. ASSUME NEW n \in Updaters, NEW m \in Updaters, Receive(n, m)
        PROVE  VectorInv'
    BY <2>3, VectorInvReceive
  <2>4. CASE UNCHANGED vectorVars
    BY <2>4 DEF vectorVars, VectorInv, VectorTypeOK
  <2> QED
    BY <2>1, <2>2, <2>3, <2>4 DEF VectorNext
<1>3. VectorInv => OrderIsCausal
  BY TruthOfHistories DEF VectorInv, VectorTypeOK, OrderIsCausal
<1> QED
  BY <1>1, <1>2, <1>3, PTL DEF VectorSpec

-----------------------------------------------------------------------------
(***************************************************************************)
(* The replicated configuration.  No version is ahead of the counter; with *)
(* one write after the other the one under way has the counter's; and what *)
(* is read or sent while nodes do not start is as it was written.          *)
(***************************************************************************)
ConfigEntry == [value : Nat, version : Nat]
CallRecord  == [pc : CallPhases, node : Replicas \cup {NoCall.node}, version : Nat]

ConfigTypes ==
    /\ counter \in Nat /\ stored \in Nat /\ fetched \in [Replicas -> Nat]
    /\ cache \in [Replicas -> ConfigEntry]
    /\ inbox \in [Replicas -> Seq(ConfigEntry)]
    /\ sync \in [Replicas -> SyncPhases]
    /\ call \in [Calls -> CallRecord]

Known(e)   == e.version <= counter
Genuine(e) == "start" \notin configFaults => e.value = e.version
Fine(e)    == Known(e) /\ Genuine(e)

EntriesInv ==
    /\ \A n \in Replicas : Fine(cache[n]) /\ \A i \in 1..Len(inbox[n]) : Fine(inbox[n][i])
    /\ \A c \in Calls : call[c].version <= counter

WritersInv ==
    "overlap" \notin configFaults =>
        \A c \in Calls : call[c].pc # "idle" =>
            /\ call[c].version = counter
            /\ \A d \in Calls : call[d].pc # "idle" => d = c

PhasesInv ==
    "start" \notin configFaults => \A n \in Replicas : sync[n] \in {"listening", "dead"}

ConfigInv == ConfigTypes /\ EntriesInv /\ WritersInv /\ PhasesInv

LEMMA ConfigInvInit == ConfigInit => ConfigInv
<1> SUFFICES ASSUME ConfigInit  PROVE ConfigInv
  OBVIOUS
<1>1. <<>> \in Seq(ConfigEntry) /\ NoEntry \in ConfigEntry /\ NoCall \in CallRecord
  BY DEF NoEntry, ConfigEntry, NoCall, CallRecord, CallPhases
<1>2. ConfigTypes
  BY <1>1 DEF ConfigInit, ConfigTypes, SyncPhases
<1>3. EntriesInv
  <2>1. Len(<<>>) = 0 /\ Fine(NoEntry)
    BY DEF ConfigInit, Fine, Known, Genuine, NoEntry
  <2>2. NoCall.version = 0
    BY DEF NoCall
  <2>3. counter = 0 /\ \A c \in Calls : call[c] = NoCall
    BY DEF ConfigInit
  <2>4. \A n \in Replicas : cache[n] = NoEntry /\ inbox[n] = <<>>
    BY DEF ConfigInit
  <2>5. \A c \in Calls : call[c].version <= counter
    BY <2>2, <2>3
  <2>6. \A n \in Replicas : Fine(cache[n]) /\ \A i \in 1..Len(inbox[n]) : Fine(inbox[n][i])
    <3>1. 1..0 = {}
      OBVIOUS
    <3>2. \A n \in Replicas : 1..Len(inbox[n]) = {}
      BY <2>1, <2>4, <3>1
    <3> QED
      BY <2>1, <2>4, <3>2
  <2> QED
    BY <2>5, <2>6 DEF EntriesInv
<1>4. WritersInv /\ PhasesInv
  BY DEF ConfigInit, WritersInv, PhasesInv, NoCall
<1> QED
  BY <1>2, <1>3, <1>4 DEF ConfigInv

LEMMA ConfigInvStart ==
    ASSUME ConfigInv, UNCHANGED configFaults, NEW c \in Calls, NEW n \in Replicas,
           StartWrite(c, n)
    PROVE  ConfigInv'
<1>1. PICK v \in Nat : v = counter + 1 /\ counter' = v /\ counter \in Nat
  BY DEF StartWrite, BumpVersion, ConfigInv, ConfigTypes
<1>2. PICK new \in CallRecord : new = [pc |-> "set", node |-> n, version |-> v]
  BY <1>1 DEF CallRecord, CallPhases
<1>3. call' = [call EXCEPT ![c] = new] /\ call \in [Calls -> CallRecord]
  BY <1>1, <1>2 DEF StartWrite, ConfigInv, ConfigTypes
<1>4. UNCHANGED <<stored, cache, inbox, sync, fetched>>
  BY DEF StartWrite, syncVars
<1>5. ConfigTypes'
  BY <1>1, <1>3, <1>4 DEF ConfigInv, ConfigTypes
<1>6. \A e \in ConfigEntry : Fine(e) => Fine(e)'
  BY <1>1 DEF Fine, Known, Genuine, ConfigEntry
<1>7. EntriesInv'
  <2>1. \A d \in Calls : call'[d].version <= v
    BY <1>1, <1>2, <1>3 DEF ConfigInv, EntriesInv, CallRecord
  <2>2. \A m \in Replicas : cache[m] \in ConfigEntry
                            /\ \A i \in 1..Len(inbox[m]) : inbox[m][i] \in ConfigEntry
    BY ElementOfSeq DEF ConfigInv, ConfigTypes
  <2> QED
    BY <1>1, <1>4, <1>6, <2>1, <2>2 DEF ConfigInv, EntriesInv, Fine, Known, Genuine
<1>8. WritersInv'
  <2>1. "overlap" \notin configFaults => \A d \in Calls : call[d].pc = "idle"
    BY DEF StartWrite
  <2> QED
    BY <1>1, <1>2, <1>3, <2>1 DEF WritersInv
<1>9. PhasesInv'
  BY <1>4 DEF ConfigInv, PhasesInv
<1> QED
  BY <1>5, <1>7, <1>8, <1>9 DEF ConfigInv

\* A call goes on, or ends: nothing else about the writers changes.
LEMMA WriterGoesOn ==
    ASSUME ConfigInv, UNCHANGED <<counter, configFaults>>, NEW c \in Calls,
           call[c].pc # "idle",
           (\E phase \in CallPhases : CallTo(c, phase)) \/ EndCall(c)
    PROVE  /\ call' \in [Calls -> CallRecord]
           /\ \A d \in Calls : call'[d].version <= counter'
           /\ WritersInv'
<1>1. call \in [Calls -> CallRecord] /\ counter \in Nat
  BY DEF ConfigInv, ConfigTypes
<1>2. CASE EndCall(c)
  <2>1. NoCall \in CallRecord /\ NoCall.pc = "idle" /\ NoCall.version = 0
    BY DEF NoCall, CallRecord, CallPhases
  <2>2. call' = [call EXCEPT ![c] = NoCall]
    BY <1>2 DEF EndCall
  <2> QED
    BY <1>1, <2>1, <2>2 DEF ConfigInv, EntriesInv, WritersInv
<1>3. ASSUME NEW phase \in CallPhases, CallTo(c, phase)
      PROVE  /\ call' \in [Calls -> CallRecord]
             /\ \A d \in Calls : call'[d].version <= counter'
             /\ WritersInv'
  <2>1. PICK new : new = [call[c] EXCEPT !.pc = phase]
    OBVIOUS
  <2>2. new \in CallRecord /\ new.pc = phase /\ new.version = call[c].version
    BY <1>1, <2>1 DEF CallRecord
  <2>3. call' = [call EXCEPT ![c] = new]
    BY <1>1, <1>3, <2>1 DEF CallTo
  <2> QED
    BY <1>1, <2>2, <2>3 DEF ConfigInv, EntriesInv, WritersInv
<1> QED
  BY <1>2, <1>3

LEMMA ConfigInvWrite ==
    ASSUME ConfigInv, UNCHANGED configFaults, NEW c \in Calls,
           StoreValue(c) \/ CacheOwnWrite(c) \/ WriteFails(c)
    PROVE  ConfigInv'
<1>1. /\ UNCHANGED <<counter, inbox, sync>> /\ call[c].pc # "idle"
      /\ (\E phase \in CallPhases : CallTo(c, phase)) \/ EndCall(c)
  BY DEF StoreValue, CacheOwnWrite, WriteFails, redisVars, syncVars, CallPhases
<1>2. /\ call' \in [Calls -> CallRecord] /\ WritersInv'
      /\ \A d \in Calls : call'[d].version <= counter'
  BY <1>1, WriterGoesOn
<1>3. call[c].version \in Nat /\ call[c].version <= counter
  BY DEF ConfigInv, ConfigTypes, EntriesInv, CallRecord
<1>4. PICK own \in ConfigEntry :
          own = [value |-> call[c].version, version |-> call[c].version]
  BY <1>3 DEF ConfigEntry
<1>5. Fine(own)
  BY <1>3, <1>4 DEF Fine, Known, Genuine
<1>6. cache' = cache \/ cache' = [cache EXCEPT ![call[c].node] = own]
  BY <1>4 DEF StoreValue, CacheOwnWrite, WriteFails
<1>7. \A n \in Replicas : cache'[n] \in {cache[n], own}
  BY <1>6 DEF ConfigInv, ConfigTypes
<1>8. cache' \in [Replicas -> ConfigEntry]
  BY <1>6 DEF ConfigInv, ConfigTypes
<1>9. ConfigTypes' /\ PhasesInv'
  <2>1. stored' \in Nat /\ fetched' = fetched
    BY <1>3 DEF StoreValue, CacheOwnWrite, WriteFails, redisVars, syncVars, ConfigInv,
                ConfigTypes
  <2> QED
    BY <1>1, <1>2, <1>8, <2>1 DEF ConfigInv, ConfigTypes, PhasesInv
<1>10. EntriesInv'
  BY <1>1, <1>2, <1>5, <1>7 DEF ConfigInv, EntriesInv, Fine, Known, Genuine
<1> QED
  BY <1>2, <1>9, <1>10 DEF ConfigInv

LEMMA ConfigInvPublish ==
    ASSUME ConfigInv, UNCHANGED configFaults, NEW c \in Calls, PublishWrite(c)
    PROVE  ConfigInv'
<1>1. /\ UNCHANGED <<counter, stored, fetched, cache, sync>>
      /\ call[c].pc # "idle" /\ EndCall(c)
  BY DEF PublishWrite, redisVars
<1>2. /\ call' \in [Calls -> CallRecord] /\ WritersInv'
      /\ \A d \in Calls : call'[d].version <= counter'
  BY <1>1, WriterGoesOn
<1>3. call[c].version \in Nat /\ call[c].version <= counter
  BY DEF ConfigInv, ConfigTypes, EntriesInv, CallRecord
<1>4. PICK own \in ConfigEntry :
          own = [value |-> call[c].version, version |-> call[c].version]
  BY <1>3 DEF ConfigEntry
<1>5. Fine(own)
  BY <1>3, <1>4 DEF Fine, Known, Genuine
<1>6. inbox' = [n \in Replicas |-> IF sync[n] = "listening" THEN Append(inbox[n], own)
                                                            ELSE inbox[n]]
  BY <1>4 DEF PublishWrite
<1>7. ASSUME NEW n \in Replicas
      PROVE  /\ inbox'[n] \in Seq(ConfigEntry)
             /\ \A i \in 1..Len(inbox'[n]) : Fine(inbox'[n][i])
  <2>1. inbox[n] \in Seq(ConfigEntry) /\ \A i \in 1..Len(inbox[n]) : Fine(inbox[n][i])
    BY DEF ConfigInv, ConfigTypes, EntriesInv
  <2>2. CASE inbox'[n] = inbox[n]
    BY <2>1, <2>2
  <2>3. CASE inbox'[n] = Append(inbox[n], own)
    <3>1. \A i \in 1..Len(inbox'[n]) :
              inbox'[n][i] = own \/ (i \in 1..Len(inbox[n]) /\ inbox'[n][i] = inbox[n][i])
      BY <2>1, <2>3, AppendProperties
    <3> QED
      BY <1>5, <2>1, <2>3, <3>1, AppendProperties
  <2> QED
    BY <1>6, <2>2, <2>3
<1>8. ConfigTypes' /\ PhasesInv'
  BY <1>1, <1>2, <1>6, <1>7 DEF ConfigInv, ConfigTypes, PhasesInv
<1>9. EntriesInv'
  BY <1>1, <1>2, <1>7 DEF ConfigInv, EntriesInv, Fine, Known, Genuine
<1> QED
  BY <1>2, <1>8, <1>9 DEF ConfigInv

\* A step of a node that listens, or starts to: nothing happens to the writers.
LEMMA NodeGoesOn ==
    ASSUME ConfigInv, UNCHANGED <<configFaults, counter, stored, call>>, NEW n \in Replicas,
           NEW entry \in ConfigEntry, Fine(entry),
           cache' \in {cache, [cache EXCEPT ![n] = entry]},
           NEW phase \in SyncPhases,
           sync' \in {sync, [sync EXCEPT ![n] = phase]},
           "start" \notin configFaults => sync' = sync \/ phase \in {"listening", "dead"},
           NEW left \in {inbox[n], <<>>} \cup (IF inbox[n] = <<>> THEN {} ELSE {Tail(inbox[n])}),
           inbox' \in {inbox, [inbox EXCEPT ![n] = left]},
           fetched' \in [Replicas -> Nat]
    PROVE  ConfigInv'
<1>1. ConfigTypes /\ EntriesInv /\ WritersInv /\ PhasesInv
  BY DEF ConfigInv
<1>2. /\ left \in Seq(ConfigEntry)
      /\ \A i \in 1..Len(left) : Fine(left[i])
  <2>1. inbox[n] \in Seq(ConfigEntry) /\ \A i \in 1..Len(inbox[n]) : Fine(inbox[n][i])
    BY <1>1 DEF ConfigTypes, EntriesInv
  <2>2. CASE left = inbox[n]
    BY <2>1, <2>2
  <2>3. CASE left = <<>>
    BY <2>3, EmptySeq
  <2>4. CASE inbox[n] # <<>> /\ left = Tail(inbox[n])
    <3>1. /\ left \in Seq(ConfigEntry) /\ Len(left) = Len(inbox[n]) - 1
          /\ \A i \in 1..Len(left) : left[i] = inbox[n][i + 1]
      BY <2>1, <2>4, HeadTailProperties
    <3>2. \A i \in 1..Len(left) : i + 1 \in 1..Len(inbox[n])
      BY <2>1, <3>1
    <3> QED
      BY <2>1, <3>1, <3>2
  <2> QED
    BY <2>2, <2>3, <2>4
<1>3. cache' \in [Replicas -> ConfigEntry] /\ \A m \in Replicas : cache'[m] \in {cache[m], entry}
  BY <1>1 DEF ConfigTypes
<1>4. /\ inbox' \in [Replicas -> Seq(ConfigEntry)]
      /\ \A m \in Replicas : inbox'[m] = inbox[m] \/ inbox'[m] = left
  BY <1>1, <1>2 DEF ConfigTypes
<1>5. sync' \in [Replicas -> SyncPhases] /\ \A m \in Replicas : sync'[m] \in {sync[m], phase}
  BY <1>1 DEF ConfigTypes
<1>6. ConfigTypes'
  BY <1>1, <1>3, <1>4, <1>5 DEF ConfigTypes
<1>7. EntriesInv'
  <2>1. \A m \in Replicas : Fine(cache'[m]) /\ \A i \in 1..Len(inbox'[m]) : Fine(inbox'[m][i])
    BY <1>1, <1>2, <1>3, <1>4 DEF EntriesInv
  <2> QED
    BY <1>1, <2>1 DEF EntriesInv, Fine, Known, Genuine
<1>8. WritersInv'
  BY <1>1 DEF WritersInv
<1>9. PhasesInv'
  BY <1>1, <1>5 DEF PhasesInv
<1> QED
  BY <1>6, <1>7, <1>8, <1>9 DEF ConfigInv

LEMMA ConfigInvNode ==
    ASSUME ConfigInv, UNCHANGED configFaults, NEW n \in Replicas,
           \/ SyncStep(n) \/ InitialSyncFails(n) \/ LoopDies(n)
           \/ \E m \in Replicas : ExchangeEntry(m, n)
    PROVE  ConfigInv'
<1>1. ConfigTypes /\ EntriesInv /\ PhasesInv
  BY DEF ConfigInv
<1>2. NoEntry \in ConfigEntry /\ Fine(NoEntry)
  BY <1>1 DEF NoEntry, ConfigEntry, Fine, Known, Genuine, ConfigTypes
<1>3. {"get", "version", "subscribe", "listening", "dead"} = SyncPhases
  BY DEF SyncPhases
<1>4. CASE FetchValue(n)
  <2>1. PICK phase \in SyncPhases : sync' = [sync EXCEPT ![n] = phase]
    BY <1>3, <1>4 DEF FetchValue, SyncTo
  <2>2. "start" \in configFaults
    BY <1>1, <1>4 DEF PhasesInv, FetchValue
  <2>3. fetched' \in [Replicas -> Nat]
    BY <1>1, <1>4 DEF FetchValue, ConfigTypes
  <2> QED
    BY <1>2, <1>4, <2>1, <2>2, <2>3, NodeGoesOn DEF FetchValue, redisVars
<1>5. CASE FetchVersion(n)
  <2>1. "start" \in configFaults
    BY <1>1, <1>5 DEF PhasesInv, FetchVersion
  <2>2. PICK entry \in ConfigEntry : entry = [value |-> fetched[n], version |-> counter]
    BY <1>1 DEF ConfigEntry, ConfigTypes
  <2>3. Fine(entry)
    BY <1>1, <2>1, <2>2 DEF Fine, Known, Genuine, ConfigTypes
  <2>4. fetched' \in [Replicas -> Nat]
    BY <1>1, <1>5 DEF FetchVersion, ConfigTypes
  <2>5. sync' = [sync EXCEPT ![n] = "subscribe"] /\ cache' = [cache EXCEPT ![n] = entry]
    BY <1>5, <2>2 DEF FetchVersion, SyncTo
  <2> QED
    BY <1>3, <1>5, <2>1, <2>2, <2>3, <2>4, <2>5, NodeGoesOn DEF FetchVersion, redisVars
<1>6. CASE InitialSyncFails(n)
  <2>1. "start" \in configFaults
    BY <1>1, <1>6 DEF PhasesInv, InitialSyncFails
  <2>2. fetched' \in [Replicas -> Nat] /\ sync' = [sync EXCEPT ![n] = "subscribe"]
    BY <1>1, <1>6 DEF InitialSyncFails, ConfigTypes, SyncTo
  <2> QED
    BY <1>2, <1>3, <1>6, <2>1, <2>2, NodeGoesOn DEF InitialSyncFails, redisVars
<1>7. CASE Subscribe(n)
  <2>1. sync' = [sync EXCEPT ![n] = "listening"] /\ fetched' \in [Replicas -> Nat]
    BY <1>1, <1>7 DEF Subscribe, SyncTo, ConfigTypes
  <2> QED
    BY <1>2, <1>3, <1>7, <2>1, NodeGoesOn DEF Subscribe, redisVars
<1>8. CASE HandleMessage(n)
  <2>1. inbox[n] # <<>> /\ inbox[n] \in Seq(ConfigEntry)
    BY <1>1, <1>8 DEF HandleMessage, ConfigTypes
  <2>2. PICK entry \in ConfigEntry : entry = Head(inbox[n])
    BY <2>1, HeadTailProperties
  <2>3. Fine(entry)
    <3>1. entry = inbox[n][1] /\ 1 \in 1..Len(inbox[n])
      BY <2>1, <2>2, HeadTailProperties, EmptySeq, LenProperties
    <3> QED
      BY <1>1, <3>1 DEF EntriesInv
  <2>4. cache' \in {cache, [cache EXCEPT ![n] = entry]}
    BY <1>8, <2>2 DEF HandleMessage, SetLocal
  <2>5. inbox' = [inbox EXCEPT ![n] = Tail(inbox[n])]
    BY <1>8 DEF HandleMessage
  <2>6. sync' = sync /\ fetched' \in [Replicas -> Nat] /\ sync[n] \in SyncPhases
    BY <1>1, <1>8 DEF HandleMessage, ConfigTypes
  <2> QED
    BY <1>8, <2>1, <2>2, <2>3, <2>4, <2>5, <2>6, NodeGoesOn DEF HandleMessage, redisVars
<1>9. CASE LoopDies(n)
  <2>1. sync' = [sync EXCEPT ![n] = "dead"] /\ fetched' \in [Replicas -> Nat]
    BY <1>1, <1>9 DEF LoopDies, SyncTo, ConfigTypes
  <2>2. inbox' = [inbox EXCEPT ![n] = <<>>]
    BY <1>9 DEF LoopDies
  <2> QED
    BY <1>2, <1>3, <1>9, <2>1, <2>2, NodeGoesOn DEF LoopDies, redisVars
<1>10. CASE \E m \in Replicas : ExchangeEntry(m, n)
  <2>1. PICK m \in Replicas : ExchangeEntry(m, n)
    BY <1>10
  <2>2. PICK entry \in ConfigEntry : entry = cache[m] /\ Fine(entry)
    BY <1>1 DEF ConfigTypes, EntriesInv
  <2>3. cache' = [cache EXCEPT ![n] = entry]
    BY <2>1, <2>2 DEF ExchangeEntry, SetLocal
  <2>4. /\ UNCHANGED <<counter, stored, call, sync, inbox>> /\ fetched' \in [Replicas -> Nat]
        /\ sync[n] \in SyncPhases
    BY <1>1, <2>1 DEF ExchangeEntry, redisVars, syncVars, ConfigTypes
  <2> QED
    BY <2>2, <2>3, <2>4, NodeGoesOn
<1> QED
  BY <1>4, <1>5, <1>6, <1>7, <1>8, <1>9, <1>10 DEF SyncStep

LEMMA ConfigInvNext == ConfigInv /\ [ConfigNext]_configVars => ConfigInv'
<1> SUFFICES ASSUME ConfigInv, [ConfigNext]_configVars  PROVE ConfigInv'
  OBVIOUS
<1>1. CASE UNCHANGED configVars
  BY <1>1 DEF configVars, configDataVars, redisVars, syncVars, ConfigInv, ConfigTypes,
              EntriesInv, WritersInv, PhasesInv, Fine, Known, Genuine
<1>2. CASE Rest /\ UNCHANGED configFaults
  BY <1>2 DEF Rest, configDataVars, redisVars, syncVars, ConfigInv, ConfigTypes,
              EntriesInv, WritersInv, PhasesInv, Fine, Known, Genuine
<1>3. CASE ConfigNext
  BY <1>2, <1>3, ConfigInvStart, ConfigInvWrite, ConfigInvPublish, ConfigInvNode
     DEF ConfigNext, ConfigStep, CallStep
<1> QED
  BY <1>1, <1>3

(***************************************************************************)
(* A cached value has the version it was written with unless nodes start   *)
(* while there are writes, and no node's cache goes back to an older one   *)
(* where writes come one after the other, for any nodes and writes and     *)
(* whatever fails.                                                         *)
(***************************************************************************)
THEOREM CachesAlwaysSound ==
    ConfigInit /\ [][ConfigNext]_configVars => CachesAreSound
<1>1. ConfigInv => RunningEntriesAreGenuine
  BY DEF ConfigInv, EntriesInv, Fine, Genuine, RunningEntriesAreGenuine, EntriesAreGenuine
<1>2. ConfigInv /\ [ConfigNext]_configVars =>
          [\A n \in Replicas : "overlap" \notin configFaults =>
                                   cache'[n].version >= cache[n].version]_configVars
  <2> SUFFICES ASSUME ConfigInv, ConfigNext, "overlap" \notin configFaults, NEW n \in Replicas
               PROVE  cache'[n].version >= cache[n].version
    OBVIOUS
  <2>1. /\ cache \in [Replicas -> ConfigEntry] /\ cache[n].version \in Nat
        /\ cache[n].version <= counter /\ counter \in Nat
    BY DEF ConfigInv, ConfigTypes, EntriesInv, Fine, Known, ConfigEntry
  <2>2. CASE cache' = cache
    BY <2>1, <2>2
  <2>3. ASSUME NEW c \in Calls, CacheOwnWrite(c)  PROVE cache'[n].version >= cache[n].version
    <3>1. call[c].version = counter
      BY <2>3 DEF ConfigInv, WritersInv, CacheOwnWrite
    <3>2. cache' = [cache EXCEPT ![call[c].node] = [value |-> counter, version |-> counter]]
      BY <2>3, <3>1 DEF CacheOwnWrite
    <3>3. cache'[n] \in {cache[n], [value |-> counter, version |-> counter]}
      BY <2>1, <3>2
    <3> QED
      BY <2>1, <3>3
  <2>4. ASSUME NEW m \in Replicas, FetchVersion(m)  PROVE cache'[n].version >= cache[n].version
    <3>1. cache'[n] \in {cache[n], [value |-> fetched[m], version |-> counter]}
      BY <2>1, <2>4 DEF FetchVersion
    <3> QED
      BY <2>1, <3>1
  <2>5. ASSUME NEW m \in Replicas, NEW entry \in ConfigEntry,
               Newer(m, entry), SetLocal(m, entry)
        PROVE  cache'[n].version >= cache[n].version
    <3>1. CASE m = n
      <4>1. cache'[n] = entry /\ entry.version > cache[n].version
        BY <2>1, <2>5, <3>1 DEF Newer, SetLocal
      <4>2. entry.version \in Nat
        BY DEF ConfigEntry
      <4> QED
        BY <2>1, <4>1, <4>2
    <3>2. CASE m # n
      BY <2>1, <2>5, <3>2 DEF SetLocal
    <3> QED
      BY <3>1, <3>2
  <2>6. \/ cache' = cache
        \/ \E c \in Calls : CacheOwnWrite(c)
        \/ \E m \in Replicas : FetchVersion(m)
        \/ \E m \in Replicas : \E entry \in ConfigEntry : Newer(m, entry) /\ SetLocal(m, entry)
    <3>1. ASSUME NEW m \in Replicas, HandleMessage(m)
          PROVE  cache' = cache
                 \/ \E entry \in ConfigEntry : Newer(m, entry) /\ SetLocal(m, entry)
      <4>1. Head(inbox[m]) \in ConfigEntry
        BY <3>1, HeadTailProperties DEF HandleMessage, ConfigInv, ConfigTypes
      <4> QED
        BY <3>1, <4>1 DEF HandleMessage
    <3>2. ASSUME NEW m \in Replicas, NEW k \in Replicas, ExchangeEntry(k, m)
          PROVE  \E entry \in ConfigEntry : Newer(m, entry) /\ SetLocal(m, entry)
      BY <2>1, <3>2 DEF ExchangeEntry
    <3> QED
      BY <3>1, <3>2 DEF ConfigNext, ConfigStep, CallStep, SyncStep, StartWrite, StoreValue,
           PublishWrite, WriteFails, FetchValue, InitialSyncFails, Subscribe, LoopDies,
           Rest, configDataVars
  <2> QED
    BY <2>2, <2>3, <2>4, <2>5, <2>6
<1> QED
  BY <1>1, <1>2, ConfigInvInit, ConfigInvNext, PTL DEF CachesAreSound, CachesNeverGoBack

-----------------------------------------------------------------------------
(***************************************************************************)
(* The membership.  A running peer that the node knows is not gone and was *)
(* heard of in time; one that is ALIVE has been silent for no longer than  *)
(* the last check left it, and the time since.                             *)
(***************************************************************************)
MemberTypes ==
    /\ status \in [Peers -> Statuses]
    /\ silent \in [Peers -> Nat]
    /\ sinceCheck \in Nat
    /\ up \subseteq Peers

HeardInv ==
    "return" \notin memberFaults =>
        \A p \in up : /\ status[p] \notin Gone
                      /\ status[p] # "unknown" => silent[p] <= HeartbeatEvery

AliveInv == \A p \in Peers : status[p] = "alive" => silent[p] <= Timeout + sinceCheck

KnownInv == targets \subseteq {p \in Peers : status[p] # "unknown"}

MemberInv == MemberTypes /\ HeardInv /\ AliveInv /\ KnownInv

LEMMA Parameters ==
    /\ CheckEvery \in Nat \ {0} /\ Timeout \in Nat \ {0} /\ HeartbeatEvery \in Nat \ {0}
    /\ Oldest = 2 * Timeout + 1
BY MembershipAssumption DEF Oldest

LEMMA MemberInvInit == MemberInit => MemberInv
BY Parameters DEF MemberInit, MemberInv, MemberTypes, HeardInv, AliveInv, KnownInv, Statuses

\* The view changes for one peer, which is heard of or has left.
LEMMA OnePeerSeen ==
    ASSUME MemberInv, NEW p \in Peers, UNCHANGED <<sinceCheck, targets, memberFaults>>,
           NEW new \in Statuses, new # "unknown", NEW age \in {0, silent[p]},
           status' = [status EXCEPT ![p] = new], silent' = [silent EXCEPT ![p] = age],
           up' \subseteq Peers, new = "alive" => age = 0 \/ status[p] = "alive",
           "return" \notin memberFaults =>
               \A q \in up' : q \in up \/ q = p \/ status[q] = "unknown",
           "return" \notin memberFaults /\ p \in up' =>
               new \notin Gone /\ (age = 0 \/ (p \in up /\ status[p] # "unknown"))
    PROVE  MemberInv'
<1>1. MemberTypes /\ HeardInv /\ AliveInv /\ age \in Nat
  BY DEF MemberInv, MemberTypes
<1>2. MemberTypes'
  BY <1>1 DEF MemberTypes
<1>3. HeardInv'
  <2> SUFFICES ASSUME "return" \notin memberFaults, NEW q \in up'
               PROVE  /\ status'[q] \notin Gone
                      /\ status'[q] # "unknown" => silent'[q] <= HeartbeatEvery
    BY DEF HeardInv
  <2>1. CASE q = p
    BY <1>1, <2>1, Parameters DEF MemberTypes, HeardInv
  <2>2. CASE q # p
    <3>1. status'[q] = status[q] /\ silent'[q] = silent[q]
      BY <1>1, <2>2 DEF MemberTypes
    <3>2. q \in up \/ status[q] = "unknown"
      BY <2>2
    <3> QED
      BY <1>1, <3>1, <3>2 DEF HeardInv, Gone
  <2> QED
    BY <2>1, <2>2
<1>4. AliveInv'
  <2> SUFFICES ASSUME NEW q \in Peers, status'[q] = "alive"
               PROVE  silent'[q] <= Timeout + sinceCheck
    BY DEF AliveInv
  <2>1. CASE q = p
    BY <1>1, <2>1, Parameters DEF MemberTypes, AliveInv
  <2>2. CASE q # p
    BY <1>1, <2>2 DEF MemberTypes, AliveInv
  <2> QED
    BY <2>1, <2>2
<1>5. KnownInv'
  BY <1>1 DEF MemberInv, MemberTypes, KnownInv
<1> QED
  BY <1>2, <1>3, <1>4, <1>5 DEF MemberInv

LEMMA MemberInvHeard ==
    ASSUME MemberInv, UNCHANGED memberFaults, NEW p \in Peers,
           JoinCluster(p) \/ LeaveCluster(p) \/ Heartbeat(p) \/ HandlePing(p)
    PROVE  MemberInv'
<1>1. status[p] \in Statuses /\ silent[p] \in Nat /\ MemberTypes
  BY DEF MemberInv, MemberTypes
<1>2. up \subseteq Peers /\ {"alive", "leaving"} \subseteq Statuses
  BY <1>1 DEF Statuses, MemberTypes
<1>3. ASSUME UNCHANGED <<status, silent, sinceCheck, targets, up>>  PROVE MemberInv'
  BY <1>3 DEF MemberInv, MemberTypes, HeardInv, AliveInv, KnownInv
<1>4. ASSUME UpdateHeartbeat(p), status[p] # "unknown", UNCHANGED <<sinceCheck, targets, up>>
      PROVE  MemberInv'
  <2>1. PICK new \in Statuses : new = IF status[p] = "suspect" THEN "alive" ELSE status[p]
    BY <1>1, <1>2
  <2>2. status' = [status EXCEPT ![p] = new] /\ silent' = [silent EXCEPT ![p] = 0]
    BY <1>4, <2>1 DEF UpdateHeartbeat
  <2>3. "return" \notin memberFaults /\ p \in up' => new \notin Gone
    BY <1>4, <2>1 DEF MemberInv, HeardInv, Gone
  <2> QED
    BY <1>2, <1>4, <2>1, <2>2, <2>3, OnePeerSeen
<1>5. ASSUME AddNode(p), UNCHANGED <<sinceCheck, targets>>, up' \in {up, up \union {p}}
      PROVE  MemberInv'
  <2>1. status' = [status EXCEPT ![p] = "alive"] /\ silent' = [silent EXCEPT ![p] = 0]
    BY <1>5 DEF AddNode
  <2>2. "alive" \notin Gone /\ \A q \in up' : q \in up \/ q = p
    BY <1>5 DEF Gone
  <2> QED
    BY <1>2, <1>5, <2>1, <2>2, OnePeerSeen
<1>6. CASE JoinCluster(p)
  BY <1>5, <1>6 DEF JoinCluster
<1>7. CASE LeaveCluster(p)
  <2>1. /\ status' = [status EXCEPT ![p] = "leaving"] /\ silent' = [silent EXCEPT ![p] = silent[p]]
        /\ UNCHANGED <<sinceCheck, targets>> /\ up' = up \ {p}
    BY <1>1, <1>7 DEF LeaveCluster, MemberTypes
  <2>2. p \notin up' /\ \A q \in up' : q \in up
    BY <2>1
  <2> QED
    BY <1>2, <2>1, <2>2, OnePeerSeen
<1>8. CASE Heartbeat(p)
  BY <1>4, <1>5, <1>8 DEF Heartbeat
<1>9. CASE HandlePing(p)
  BY <1>3, <1>4, <1>9 DEF HandlePing, viewVars
<1> QED
  BY <1>6, <1>7, <1>8, <1>9

LEMMA MemberInvSuspect ==
    ASSUME MemberInv, UNCHANGED <<sinceCheck, up, memberFaults>>,
           targets' \subseteq targets,
           NEW ps, \A p \in ps \cap Peers : status[p] # "unknown", MarkSuspect(ps)
    PROVE  MemberInv'
<1>1. /\ silent' = silent
      /\ status' \in [Peers -> Statuses]
  BY DEF MarkSuspect, MemberInv, MemberTypes, Statuses
<1>2. \A p \in Peers :
          \/ status'[p] = status[p]
          \/ status'[p] = "suspect" /\ status[p] \notin Gone /\ status[p] # "unknown"
  BY DEF MarkSuspect
<1>3. MemberTypes' /\ HeardInv'
  BY <1>1, <1>2 DEF MemberInv, MemberTypes, HeardInv, Gone
<1>4. AliveInv' /\ KnownInv'
  BY <1>1, <1>2 DEF MemberInv, AliveInv, KnownInv
<1> QED
  BY <1>3, <1>4 DEF MemberInv

LEMMA MemberInvCheck ==
    ASSUME HeartbeatEvery <= 2 * Timeout, MemberInv, UNCHANGED memberFaults, CheckTimeouts
    PROVE  MemberInv'
<1>1. /\ UNCHANGED <<silent, targets, up>> /\ sinceCheck' = 0
      /\ status' \in [Peers -> Statuses]
  BY DEF CheckTimeouts, MemberInv, MemberTypes, Statuses
<1>2. ASSUME NEW p \in Peers
      PROVE  /\ status'[p] = "alive" => status[p] = "alive" /\ silent[p] <= Timeout
             /\ status'[p] = "unknown" => status[p] = "unknown"
             /\ status'[p] # status[p] => status[p] \in {"alive", "suspect"}
             /\ status'[p] # status[p] => status'[p] = "suspect" \/ silent[p] > 2 * Timeout
  <2>1. status'[p] = IF p \in Expired THEN "dead"
                     ELSE IF p \in Overdue THEN "suspect" ELSE status[p]
    BY DEF CheckTimeouts
  <2>2. silent[p] \in Nat
    BY DEF MemberInv, MemberTypes
  <2> QED
    BY <2>1, <2>2, Parameters DEF Expired, Overdue, Watched
<1>3. MemberTypes'
  BY <1>1 DEF MemberInv, MemberTypes
<1>4. AliveInv'
  BY <1>1, <1>2, Parameters DEF AliveInv
<1>5. KnownInv'
  BY <1>1, <1>2 DEF MemberInv, KnownInv
<1>6. HeardInv'
  <2> SUFFICES ASSUME "return" \notin memberFaults, NEW p \in up
               PROVE  /\ status'[p] \notin Gone
                      /\ status'[p] # "unknown" => silent[p] <= HeartbeatEvery
    BY <1>1 DEF HeardInv
  <2>1. /\ status[p] \notin Gone /\ silent[p] \in Nat /\ p \in Peers
        /\ status[p] # "unknown" => silent[p] <= HeartbeatEvery
    BY DEF MemberInv, MemberTypes, HeardInv
  <2>2. CASE status'[p] = status[p]
    BY <2>1, <2>2
  <2>3. CASE status'[p] # status[p]
    BY <1>2, <2>1, <2>3, Parameters DEF Gone
  <2> QED
    BY <2>2, <2>3
<1> QED
  BY <1>3, <1>4, <1>5, <1>6 DEF MemberInv

LEMMA MemberInvTime ==
    ASSUME MemberInv, UNCHANGED memberFaults, TimePasses
    PROVE  MemberInv'
<1>1. /\ UNCHANGED <<status, targets, up>> /\ sinceCheck' = sinceCheck + 1
      /\ sinceCheck \in Nat
      /\ \A p \in up : status[p] # "unknown" => silent[p] < HeartbeatEvery
  BY DEF TimePasses, MemberInv, MemberTypes
<1>2. ASSUME NEW p \in Peers
      PROVE  /\ silent[p] \in Nat /\ silent'[p] \in Nat
             /\ silent'[p] <= silent[p] + 1
  BY DEF TimePasses, MemberInv, MemberTypes
<1>3. MemberTypes'
  <2>1. silent' \in [Peers -> Nat]
    BY <1>2 DEF TimePasses
  <2> QED
    BY <1>1, <2>1 DEF MemberInv, MemberTypes
<1>4. HeardInv'
  <2>1. up \subseteq Peers
    BY DEF MemberInv, MemberTypes
  <2> QED
    BY <1>1, <1>2, <2>1, Parameters DEF MemberInv, HeardInv
<1>5. AliveInv' /\ KnownInv'
  BY <1>1, <1>2, Parameters DEF MemberInv, AliveInv, KnownInv
<1> QED
  BY <1>3, <1>4, <1>5 DEF MemberInv

LEMMA MemberInvNext ==
    ASSUME HeartbeatEvery <= 2 * Timeout, MemberInv, [MemberNext]_memberVars
    PROVE  MemberInv'
<1>1. CASE UNCHANGED memberVars
  BY <1>1 DEF memberVars, memberDataVars, viewVars, MemberInv, MemberTypes, HeardInv,
              AliveInv, KnownInv
<1>2. ASSUME NEW p \in Peers, UNCHANGED memberFaults,
             PingSent(p) \/ PeerStarts(p) \/ SendHeartbeat(p) \/ SendPing(p) \/ PeerCrashes(p)
      PROVE  MemberInv'
  <2>1. UNCHANGED viewVars /\ UNCHANGED sinceCheck /\ targets' \subseteq targets
    BY <1>2 DEF PingSent, PeerStarts, SendHeartbeat, SendPing, PeerCrashes
  <2>2. \A q \in up' : q \in up \/ status[q] = "unknown" \/ "return" \in memberFaults
    BY <1>2 DEF PingSent, PeerStarts, SendHeartbeat, SendPing, PeerCrashes
  <2>3. up' \subseteq Peers
    BY <1>2 DEF MemberInv, MemberTypes, PingSent, PeerStarts, SendHeartbeat, SendPing,
                PeerCrashes
  <2>4. HeardInv'
    BY <1>2, <2>1, <2>2 DEF viewVars, MemberInv, HeardInv, Gone
  <2> QED
    BY <2>1, <2>3, <2>4 DEF viewVars, MemberInv, MemberTypes, AliveInv, KnownInv
<1>3. ASSUME NEW p \in Peers, UNCHANGED memberFaults, PingFails(p)  PROVE MemberInv'
  <2>1. /\ MarkSuspect({p}) /\ targets' \subseteq targets /\ UNCHANGED <<sinceCheck, up>>
        /\ status[p] # "unknown"
    BY <1>3 DEF PingFails, MemberInv, KnownInv
  <2> QED
    BY <1>3, <2>1, MemberInvSuspect
<1>4. CASE BlindRound /\ UNCHANGED memberFaults
  <2>1. PICK ts \in SUBSET AlivePeers : MarkSuspect(ts)
    BY <1>4 DEF BlindRound
  <2>2. UNCHANGED <<sinceCheck, targets, up>>
    BY <1>4 DEF BlindRound
  <2>3. \A p \in ts : status[p] # "unknown"
    BY DEF AlivePeers
  <2> QED
    BY <1>4, <2>1, <2>2, <2>3, MemberInvSuspect
<1>5. CASE StartRound /\ UNCHANGED memberFaults
  <2>1. UNCHANGED <<viewVars, sinceCheck, up>> /\ targets' \subseteq AlivePeers
    BY <1>5 DEF StartRound
  <2> QED
    BY <1>5, <2>1 DEF viewVars, MemberInv, MemberTypes, HeardInv, AliveInv, KnownInv, AlivePeers
<1> QED
  BY <1>1, <1>2, <1>3, <1>4, <1>5, MemberInvHeard, MemberInvCheck, MemberInvTime
     DEF MemberNext, MemberStep

(***************************************************************************)
(* A running peer that is heard of before the checker's second threshold   *)
(* is never declared dead, for any peers and any gossip between them.      *)
(***************************************************************************)
THEOREM DeathsAlwaysTrue ==
    ASSUME HeartbeatEvery <= 2 * Timeout
    PROVE  MemberInit /\ [][MemberNext]_memberVars => []NoFalseDeath
<1>1. MemberInit => MemberInv
  BY MemberInvInit
<1>2. MemberInv /\ [MemberNext]_memberVars => MemberInv'
  BY MemberInvNext
<1>3. MemberInv => NoFalseDeath
  BY DEF MemberInv, HeardInv, NoFalseDeath, Gone
<1> QED
  BY <1>1, <1>2, <1>3, PTL

(***************************************************************************)
(* With checks at least as frequent as the first threshold, nobody is      *)
(* declared dead without having been under suspicion; and only JoinCluster *)
(* brings back a peer that left or was declared dead.                      *)
(***************************************************************************)
THEOREM MovesAlwaysLegal ==
    ASSUME HeartbeatEvery <= 2 * Timeout, CheckEvery <= Timeout
    PROVE  MemberInit /\ [][MemberNext]_memberVars => StatusMovesAreLegal
<1>1. MemberInit => MemberInv
  BY MemberInvInit
<1>2. MemberInv /\ [MemberNext]_memberVars => MemberInv'
  BY MemberInvNext
<1>3. MemberInv /\ [MemberNext]_memberVars =>
          [\A p \in Peers : status[p] = "alive" => status'[p] # "dead"]_memberVars
  <2> SUFFICES ASSUME MemberInv, MemberNext, NEW p \in Peers, status[p] = "alive"
               PROVE  status'[p] # "dead"
    OBVIOUS
  <2>1. /\ status \in [Peers -> Statuses] /\ silent[p] \in Nat /\ sinceCheck \in Nat
        /\ silent[p] <= Timeout + sinceCheck
    BY DEF MemberInv, MemberTypes, AliveInv
  <2>2. CASE CheckTimeouts
    <3>1. p \notin Expired
      BY <2>1, <2>2, Parameters DEF CheckTimeouts, Expired
    <3> QED
      BY <2>1, <2>2, <3>1 DEF CheckTimeouts
  <2>3. ASSUME NEW ps, MarkSuspect(ps)  PROVE status'[p] # "dead"
    BY <2>3 DEF MarkSuspect
  <2>4. ASSUME NEW q \in Peers,
               \/ JoinCluster(q) \/ LeaveCluster(q) \/ Heartbeat(q) \/ HandlePing(q)
        PROVE  status'[p] # "dead"
    BY <2>1, <2>4 DEF JoinCluster, LeaveCluster, Heartbeat, HandlePing, AddNode,
                      UpdateHeartbeat, viewVars
  <2> QED
    BY <2>2, <2>3, <2>4 DEF MemberNext, MemberStep, PingSent, PingFails, PeerStarts,
       SendHeartbeat, SendPing, PeerCrashes, StartRound, BlindRound, TimePasses, viewVars
<1>4. MemberInv /\ [MemberNext]_memberVars =>
          [\A p \in Peers : status[p] \in Gone =>
               status'[p] = status[p] \/ JoinCluster(p) \/ LeaveCluster(p)]_memberVars
  <2> SUFFICES ASSUME MemberInv, MemberNext, NEW p \in Peers, status[p] \in Gone
               PROVE  status'[p] = status[p] \/ JoinCluster(p) \/ LeaveCluster(p)
    OBVIOUS
  <2>1. status \in [Peers -> Statuses]
    BY DEF MemberInv, MemberTypes
  <2>2. CASE CheckTimeouts
    BY <2>2 DEF CheckTimeouts, Expired, Overdue, Watched, Gone
  <2>3. ASSUME NEW ps, MarkSuspect(ps)  PROVE status'[p] = status[p]
    BY <2>3 DEF MarkSuspect
  <2>4. ASSUME NEW q \in Peers, q # p,
               \/ JoinCluster(q) \/ LeaveCluster(q) \/ Heartbeat(q) \/ HandlePing(q)
        PROVE  status'[p] = status[p]
    BY <2>1, <2>4 DEF JoinCluster, LeaveCluster, Heartbeat, HandlePing, AddNode,
                      UpdateHeartbeat, viewVars
  <2>5. ASSUME Heartbeat(p) \/ HandlePing(p)  PROVE status'[p] = status[p]
    BY <2>1, <2>5 DEF Heartbeat, HandlePing, UpdateHeartbeat, Gone, viewVars
  <2> QED
    BY <2>2, <2>3, <2>4, <2>5 DEF MemberNext, MemberStep, PingSent, PingFails, PeerStarts,
       SendHeartbeat, SendPing, PeerCrashes, StartRound, BlindRound, TimePasses, viewVars
<1> QED
  BY <1>1, <1>2, <1>3, <1>4, PTL DEF StatusMovesAreLegal, GoneStaysGone, SuspectedFirst

=============================================================================
