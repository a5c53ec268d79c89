----------------------- MODULE LeaderElection_proofs -----------------------
(***************************************************************************)
(* Proofs about LeaderElection, for any number of nodes and any timing     *)
(* that is Timely: attempts and releases may fail, nodes may crash or shut *)
(* down in an orderly way while their loop has a command under way.        *)
(***************************************************************************)
EXTENDS LeaderElection, TLAPS

-----------------------------------------------------------------------------
(***************************************************************************)
(* The inductive invariant.  A node claims the lock that acts as leader,   *)
(* owns the lock or is about to renew or to delete it; a node that has     *)
(* deleted it does not, though its loop may still set it once.             *)
(***************************************************************************)
Claims(n) ==
    \/ stop[n] = "no" /\ (is_leader[n] \/ owner = n \/ loop[n] \in {"renew", "won"})
    \/ stop[n] = "get" /\ (owner = n \/ loop[n] = "renew")
    \/ stop[n] = "del"

(***************************************************************************)
(* Slack(n) is how much later the next SET EX of node n, or the end of its *)
(* belief, may come: what is left of the attempt under way, and a period   *)
(* for every failure that may still come.  StopSlack(n) is that of its     *)
(* DELETE.  A lock that is claimed outlives the one that is due, so it     *)
(* never expires between a GET and what follows from it.                   *)
(***************************************************************************)
Spare(f) == (MaxFailures - f) * Period

AttemptSlack(n) ==
    IF loop[n] = "wait" THEN Interval + 3 * MaxDelay - since[n]
    ELSE IF loop[n] = "get" THEN 2 * MaxDelay - since[n]
    ELSE IF loop[n] \in {"renew", "lost"} THEN MaxDelay - since[n]
    ELSE Period - since[n]

Slack(n) == AttemptSlack(n) + Spare(IF loop[n] = "won" THEN 0 ELSE failures[n])

StopSlack(n) == (IF stop[n] = "get" THEN 2 * MaxDelay ELSE MaxDelay) - stopSince[n]

Renews(n) == \/ stop[n] = "no"
             \/ owner = n /\ loop[n] # "ended"
             \/ stop[n] = "get" /\ loop[n] = "renew"

Due(n) == IF Renews(n) THEN Slack(n) ELSE StopSlack(n)

\* Nothing is overdue, and a process that is gone does and believes nothing.
TimerInv ==
    \A n \in Nodes :
        /\ stop[n] \in {"done", "crashed"} => loop[n] = "ended" /\ ~is_leader[n]
        /\ loop[n] = "ended" => stop[n] # "no"
        /\ loop[n] # "ended" => since[n] <= LoopDeadline(n)
        /\ loop[n] = "lost" => owner # n

ClaimInv ==
    /\ \A m, n \in Nodes : Claims(m) /\ Claims(n) => m = n
    /\ \A n \in Nodes : Claims(n) => left > Due(n)

\* Where no node shuts down, whoever believes to lead holds the lock.
NoShutdown == "shutdown" \notin electFaults

BeliefInv ==
    NoShutdown => \A n \in Nodes :
        /\ stop[n] \in {"no", "crashed"}
        /\ is_leader[n] \/ loop[n] \in {"renew", "won"} => owner = n

IInv == ElectTypeOK /\ TimerInv /\ ClaimInv /\ BeliefInv

-----------------------------------------------------------------------------
LEMMA SpareFacts ==
    ASSUME Timely, NEW f \in 0..MaxFailures
    PROVE  /\ Spare(f) \in Nat
           /\ Spare(f) <= Spare(0)
           /\ f < MaxFailures => Spare(f + 1) = Spare(f) - Period
           /\ f < MaxFailures => Spare(f) >= Period
           /\ Spare(0) + Period < Ttl
<1>1. Period \in Nat
  BY ElectionAssumption DEF Period
<1>2. MaxFailures - f \in Nat /\ f \in Nat /\ MaxFailures \in Nat
  BY ElectionAssumption
<1>3. \A a, b \in Nat : a * b \in Nat
  OBVIOUS
<1>4. \A a, b, c \in Int : (a - b) * c = a * c - b * c
  OBVIOUS
<1>5. \A a, c \in Int : (a + 1) * c = a * c + c
  OBVIOUS
<1>6. Spare(f) = MaxFailures * Period - f * Period
  BY <1>1, <1>2, <1>4 DEF Spare
<1>7. Spare(0) = MaxFailures * Period
  BY <1>1, <1>2 DEF Spare
<1>8. Spare(f + 1) = MaxFailures * Period - (f * Period + Period)
  BY <1>1, <1>2, <1>4, <1>5 DEF Spare
<1>9. (MaxFailures + 1) * Period = MaxFailures * Period + Period
  BY <1>1, <1>2, <1>5
<1>10. Spare(f) \in Nat
  BY <1>1, <1>2, <1>3 DEF Spare
<1>11. f * Period \in Nat /\ MaxFailures * Period \in Nat
  BY <1>1, <1>2, <1>3
<1>12. f < MaxFailures => Spare(f + 1) \in Nat
  <2>1. f < MaxFailures => MaxFailures - (f + 1) \in Nat
    BY <1>2
  <2> QED
    BY <2>1, <1>1, <1>3 DEF Spare
<1> QED
  BY <1>1, <1>6, <1>7, <1>8, <1>9, <1>10, <1>11, <1>12, ElectionAssumption
  DEF Timely

\* All that the bounds of time come to for one node.
LEMMA SlackFacts ==
    ASSUME Timely, ElectTypeOK, TimerInv, NEW n \in Nodes
    PROVE  /\ Slack(n) \in Int /\ StopSlack(n) \in Nat
           /\ StopSlack(n) <= 2 * MaxDelay /\ 2 * MaxDelay < Ttl
           /\ Slack(n) < Ttl
           /\ loop[n] # "ended" => Slack(n) >= Spare(failures[n])
           /\ Spare(failures[n]) \in Nat
           /\ Due(n) \in Nat /\ Due(n) < Ttl
<1> USE ElectionAssumption DEF ElectTypeOK, LoopPhases, StopPhases
<1>1. /\ Spare(failures[n]) \in Nat /\ Spare(0) \in Nat
      /\ Spare(failures[n]) <= Spare(0)
      /\ Spare(0) + Period < Ttl
  BY SpareFacts
<1>2. Period = Interval + 4 * MaxDelay
  BY DEF Period
<1>3. loop[n] # "ended" => since[n] <= LoopDeadline(n)
  BY DEF TimerInv
<1>4. Slack(n) \in Int /\ Slack(n) < Ttl
  BY <1>1, <1>2 DEF Slack, AttemptSlack
<1>5. loop[n] # "ended" => Slack(n) >= Spare(failures[n])
  BY <1>1, <1>2, <1>3 DEF Slack, AttemptSlack, LoopDeadline
<1>6. StopSlack(n) \in Nat /\ StopSlack(n) <= 2 * MaxDelay /\ 2 * MaxDelay < Ttl
  BY <1>1, <1>2 DEF StopSlack
<1>7. Renews(n) => loop[n] # "ended"
  BY DEF Renews, TimerInv
<1> QED
  BY <1>1, <1>4, <1>5, <1>6, <1>7 DEF Due

LEMMA InitEstablishesIInv == ElectInit => IInv
<1> SUFFICES ASSUME ElectInit PROVE IInv
  OBVIOUS
<1>1. ElectTypeOK
  BY ElectionAssumption DEF ElectInit, ElectTypeOK, LoopPhases, StopPhases
<1>2. TimerInv
  BY ElectionAssumption DEF ElectInit, TimerInv, LoopDeadline
<1>3. \A n \in Nodes : ~ Claims(n)
  BY ElectionAssumption DEF ElectInit, Claims
<1>4. BeliefInv
  BY DEF ElectInit, BeliefInv
<1> QED
  BY <1>1, <1>2, <1>3, <1>4 DEF IInv, ClaimInv

-----------------------------------------------------------------------------
(***************************************************************************)
(* A step of one node, and what it leaves alone of the others.             *)
(***************************************************************************)
NodeStep(n) ==
    LoopStep(n) \/ AttemptFails(n) \/ Shutdown(n) \/ StopStep(n) \/ ReleaseFails(n) \/ Crash(n)

LEMMA NextIsTickOrNodeStep ==
    ASSUME [ElectNext]_electVars
    PROVE  /\ Tick \/ (\E n \in Nodes : NodeStep(n)) \/ UNCHANGED electVars
           /\ UNCHANGED electFaults
BY DEF ElectNext, ElectStep, NodeStep, electVars

LEMMA OthersStay ==
    ASSUME ElectTypeOK, NEW n \in Nodes, NodeStep(n), NEW m \in Nodes \ {n}
    PROVE  /\ loop'[m] = loop[m] /\ since'[m] = since[m]
           /\ failures'[m] = failures[m]
           /\ is_leader'[m] = is_leader[m]
           /\ stop'[m] = stop[m] /\ stopSince'[m] = stopSince[m]
BY DEF ElectTypeOK, NodeStep, LoopStep, StopStep, TrySet, GetLock, Renew, AttemptSucceeds,
       AttemptFails, AttemptEnds, Shutdown, ReleaseGet, ReleaseDelete, ReleaseReturns,
       ReleaseFails, Crash, Exit, LoopTo, StopTo, stopVars, loopVars, lockVars

\* How the lock moves: it is taken when free, set by a renewal, or deleted.
LEMMA LockMoves ==
    ASSUME NEW n \in Nodes, NodeStep(n)
    PROVE  \/ owner' = owner /\ left' = left /\ ~ Renew(n)
                /\ ~ (TrySet(n) /\ owner = Free) /\ ~ ReleaseDelete(n)
           \/ owner = Free /\ owner' = n /\ left' = Ttl /\ TrySet(n)
           \/ owner' = n /\ left' = Ttl /\ Renew(n)
           \/ owner' = Free /\ left' = 0 /\ ReleaseDelete(n)
<1>1. CASE TrySet(n)
  BY <1>1 DEF TrySet, SetLock, LoopTo, lockVars, Renew, ReleaseDelete, stopVars, StopTo
<1>2. CASE Renew(n)
  BY <1>2 DEF Renew, SetLock
<1>3. CASE ReleaseDelete(n)
  BY <1>3 DEF ReleaseDelete
<1>4. CASE ~ TrySet(n) /\ ~ Renew(n) /\ ~ ReleaseDelete(n)
  BY <1>4 DEF NodeStep, LoopStep, StopStep, GetLock, AttemptSucceeds, AttemptFails, Shutdown,
              ReleaseGet, ReleaseReturns, ReleaseFails, Crash, lockVars
<1> QED
  BY <1>1, <1>2, <1>3, <1>4

LEMMA TypeOKPreserved == ASSUME ElectTypeOK, [ElectNext]_electVars PROVE ElectTypeOK'
<1>0. electFaults' \in ElectScenarios
  BY DEF ElectTypeOK, ElectNext, electVars
<1> USE <1>0, ElectionAssumption DEF ElectTypeOK, LoopPhases, StopPhases, LoopTo, StopTo
<1>1. ASSUME NEW n \in Nodes, TrySet(n) PROVE ElectTypeOK'
  BY <1>1 DEF TrySet, SetLock, lockVars, stopVars
<1>2. ASSUME NEW n \in Nodes, GetLock(n) PROVE ElectTypeOK'
  BY <1>2 DEF GetLock, lockVars, stopVars
<1>3. ASSUME NEW n \in Nodes, Renew(n) PROVE ElectTypeOK'
  BY <1>3 DEF Renew, SetLock, stopVars
<1>4. ASSUME NEW n \in Nodes, AttemptSucceeds(n) PROVE ElectTypeOK'
  BY <1>4 DEF AttemptSucceeds, AttemptEnds, lockVars, stopVars
<1>5. ASSUME NEW n \in Nodes, AttemptFails(n) PROVE ElectTypeOK'
  BY <1>5 DEF AttemptFails, AttemptEnds, lockVars, stopVars
<1>6. ASSUME NEW n \in Nodes, NEW how \in {"done", "crashed"}, Exit(n, how), UNCHANGED lockVars
      PROVE  ElectTypeOK'
  BY <1>6 DEF Exit, lockVars
<1>11. ASSUME NEW n \in Nodes, Crash(n) \/ ReleaseFails(n) \/ ReleaseReturns(n) PROVE ElectTypeOK'
  BY <1>6, <1>11 DEF Crash, ReleaseFails, ReleaseReturns
<1>7. ASSUME NEW n \in Nodes, Shutdown(n) PROVE ElectTypeOK'
  <2>1. CASE ~ is_leader[n]
    BY <1>6, <1>7, <2>1 DEF Shutdown
  <2>2. CASE is_leader[n]
    <3>1. loop' \in [Nodes -> LoopPhases] /\ since' \in [Nodes -> 0 .. Interval + MaxDelay]
      BY <1>7, <2>2 DEF Shutdown
    <3>2. StopTo(n, "get") /\ UNCHANGED <<owner, left, failures, is_leader>>
      BY <1>7, <2>2 DEF Shutdown, lockVars
    <3>3. stop' \in [Nodes -> StopPhases] /\ stopSince' \in [Nodes -> 0..MaxDelay]
      BY <3>2
    <3> QED
      BY <3>1, <3>2, <3>3
  <2> QED
    BY <1>7, <2>1, <2>2 DEF Shutdown
<1>8. ASSUME NEW n \in Nodes, ReleaseGet(n) \/ ReleaseDelete(n) PROVE ElectTypeOK'
  BY <1>8 DEF ReleaseGet, ReleaseDelete, lockVars, loopVars
<1>9. ASSUME Tick PROVE ElectTypeOK'
  <2>1. \A n \in Nodes : loop[n] # "ended" => since[n] + 1 \in 0 .. Interval + MaxDelay
    BY <1>9 DEF Tick, NothingIsDue, LoopDeadline
  <2>2. since' \in [Nodes -> 0 .. Interval + MaxDelay]
    BY <1>9, <2>1 DEF Tick
  <2>3. \A n \in Nodes : stop[n] \in {"get", "del", "reply"} => stopSince[n] + 1 \in 0..MaxDelay
    BY <1>9 DEF Tick, NothingIsDue
  <2>4. stopSince' \in [Nodes -> 0..MaxDelay]
    BY <1>9, <2>3 DEF Tick
  <2>5. owner' \in Nodes \cup {Free} /\ left' \in 0..Ttl /\ (owner' = Free <=> left' = 0)
    BY <1>9 DEF Tick
  <2> QED
    BY <1>9, <2>2, <2>4, <2>5 DEF Tick
<1>10. ASSUME UNCHANGED electVars PROVE ElectTypeOK'
  BY <1>10 DEF electVars, electDataVars, lockVars, loopVars, stopVars
<1> QED
  BY <1>1, <1>2, <1>3, <1>4, <1>5, <1>6, <1>7, <1>8, <1>9, <1>10, <1>11, NextIsTickOrNodeStep
  DEF NodeStep, LoopStep, StopStep

LEMMA TimerInvPreserved ==
    ASSUME ElectTypeOK, TimerInv, [ElectNext]_electVars PROVE TimerInv'
<1> USE ElectionAssumption DEF ElectTypeOK, LoopPhases, StopPhases
<1>1. ASSUME NEW n \in Nodes, NodeStep(n) PROVE TimerInv'
  <2> DEFINE Fine(m) == /\ stop[m] \in {"done", "crashed"} => loop[m] = "ended" /\ ~is_leader[m]
                        /\ loop[m] = "ended" => stop[m] # "no"
                        /\ loop[m] # "ended" => since[m] <= LoopDeadline(m)
                        /\ loop[m] = "lost" => owner # m
  <2>1. \A m \in Nodes : Fine(m)
    BY DEF TimerInv
  <2>2. 0 <= LoopDeadline(n)' /\ 0 <= Interval + MaxDelay
    BY DEF LoopDeadline
  <2>3. ASSUME LoopStep(n) PROVE Fine(n)'
    <3>1. stop'[n] = stop[n] /\ since'[n] = 0 /\ (stop[n] = "no" => loop'[n] # "ended")
      BY <2>3 DEF LoopStep, TrySet, GetLock, Renew, AttemptSucceeds, AttemptEnds, LoopTo, stopVars
    <3>2. stop[n] \notin {"done", "crashed"} /\ (loop'[n] = "lost" => owner' # n)
      BY <2>1, <2>3 DEF LoopStep, TrySet, GetLock, Renew, AttemptSucceeds, AttemptEnds, LoopTo, lockVars
    <3> QED
      BY <2>2, <3>1, <3>2
  <2>4. ASSUME AttemptFails(n) PROVE Fine(n)'
    <3>1. /\ stop'[n] = stop[n] /\ since'[n] = 0 /\ (stop[n] = "no" => loop'[n] # "ended")
          /\ loop'[n] # "lost"
      BY <2>4 DEF AttemptFails, AttemptEnds, LoopTo, stopVars
    <3>2. stop[n] \notin {"done", "crashed"}
      BY <2>1, <2>4 DEF AttemptFails
    <3> QED
      BY <2>2, <3>1, <3>2
  <2>5. ASSUME Shutdown(n) \/ ReleaseGet(n) PROVE Fine(n)'
    <3>1. CASE Shutdown(n) /\ ~ is_leader[n]
      BY <3>1 DEF Shutdown, Exit, StopTo, LoopTo
    <3>2. CASE (Shutdown(n) /\ is_leader[n]) \/ ReleaseGet(n)
      <4>1. /\ stop'[n] \in {"get", "del", "reply"} /\ owner' = owner
            /\ LoopTo(n, "ended") \/ UNCHANGED <<loop, since>>
        BY <3>2 DEF Shutdown, ReleaseGet, StopTo, lockVars, loopVars
      <4> QED
        BY <2>1, <4>1 DEF LoopTo, LoopDeadline
    <3> QED
      BY <2>5, <3>1, <3>2 DEF Shutdown
  <2>6. ASSUME ReleaseDelete(n) PROVE Fine(n)'
    BY <2>1, <2>6 DEF ReleaseDelete, StopTo, loopVars, LoopDeadline
  <2>7. ASSUME ReleaseReturns(n) \/ ReleaseFails(n) \/ Crash(n) PROVE Fine(n)'
    BY <2>7 DEF ReleaseReturns, ReleaseFails, Crash, Exit, StopTo, LoopTo
  <2>8. Fine(n)'
    BY <1>1, <2>3, <2>4, <2>5, <2>6, <2>7 DEF NodeStep, StopStep
  <2>9. ASSUME NEW m \in Nodes \ {n} PROVE Fine(m)'
    <3>1. owner' \in {owner, n, Free} /\ owner \in Nodes \cup {Free} /\ n # m /\ m # Free
      BY <1>1, LockMoves
    <3> QED
      BY <1>1, <2>1, <3>1, OthersStay DEF LoopDeadline
  <2> QED
    BY <2>8, <2>9 DEF TimerInv
<1>2. ASSUME Tick PROVE TimerInv'
  <2>1. \A n \in Nodes : loop[n] # "ended" => since'[n] <= LoopDeadline(n)'
    BY <1>2 DEF Tick, NothingIsDue, LoopDeadline
  <2>2. owner' \in {owner, Free}
    BY <1>2 DEF Tick
  <2> QED
    BY <1>2, <2>1, <2>2 DEF Tick, TimerInv
<1>3. ASSUME UNCHANGED electVars PROVE TimerInv'
  BY <1>3 DEF electVars, electDataVars, lockVars, loopVars, stopVars, TimerInv, LoopDeadline
<1> QED
  BY <1>1, <1>2, <1>3, NextIsTickOrNodeStep

-----------------------------------------------------------------------------
(***************************************************************************)
(* Who claims the lock, after a step of n.                                 *)
(***************************************************************************)
LEMMA OthersClaims ==
    ASSUME ElectTypeOK, NEW n \in Nodes, NodeStep(n), NEW m \in Nodes \ {n}
    PROVE  /\ Claims(m)' => Claims(m)
           /\ owner' = owner => Due(m)' = Due(m)
<1>1. /\ loop'[m] = loop[m] /\ since'[m] = since[m] /\ failures'[m] = failures[m]
      /\ is_leader'[m] = is_leader[m]
      /\ stop'[m] = stop[m] /\ stopSince'[m] = stopSince[m]
  BY OthersStay
<1>2. owner' = m => owner = m
  <2>1. owner' \in {owner, n, Free} /\ n # m /\ m # Free
    BY LockMoves, ElectionAssumption
  <2> QED
    BY <2>1
<1>3. Claims(m)' => Claims(m)
  BY <1>1, <1>2 DEF Claims
<1>4. owner' = owner => Due(m)' = Due(m)
  BY <1>1 DEF Due, Renews, Slack, AttemptSlack, StopSlack
<1> QED
  BY <1>3, <1>4

LEMMA OwnClaim ==
    ASSUME ElectTypeOK, TimerInv, NEW n \in Nodes, NodeStep(n), Claims(n)'
    PROVE  /\ stop[n] \in {"no", "get", "del"} /\ stop'[n] \in {"no", "get", "del"}
           /\ Claims(n) \/ (TrySet(n) /\ owner = Free)
<1> USE ElectionAssumption DEF ElectTypeOK, Claims
<1>1. CASE LoopStep(n)
  <2>1. stop' = stop
    BY <1>1 DEF LoopStep, TrySet, GetLock, Renew, AttemptSucceeds, stopVars
  <2>2. CASE TrySet(n)
    BY <2>1, <2>2 DEF TrySet, SetLock, LoopTo, lockVars
  <2>3. CASE GetLock(n)
    BY <2>1, <2>3 DEF GetLock, LoopTo, lockVars
  <2>4. CASE Renew(n)
    BY <2>1, <2>4 DEF Renew, LoopTo
  <2>5. CASE AttemptSucceeds(n)
    BY <2>1, <2>5 DEF AttemptSucceeds, AttemptEnds, LoopTo, lockVars
  <2> QED
    BY <1>1, <2>2, <2>3, <2>4, <2>5 DEF LoopStep
<1>2. CASE AttemptFails(n)
  BY <1>2 DEF AttemptFails, AttemptEnds, LoopTo, lockVars, stopVars
<1>3. CASE Shutdown(n)
  <2>1. CASE ~ is_leader[n]
    BY <1>3, <2>1 DEF Shutdown, Exit, StopTo
  <2>2. CASE is_leader[n]
    <3>1. stop[n] = "no" /\ stop'[n] = "get"
      BY <1>3, <2>2 DEF Shutdown, StopTo
    <3> QED
      BY <2>2, <3>1
  <2> QED
    BY <2>1, <2>2
<1>4. CASE StopStep(n)
  BY <1>4 DEF StopStep, ReleaseGet, ReleaseDelete, ReleaseReturns, Exit, StopTo, lockVars, loopVars
<1>5. CASE ReleaseFails(n) \/ Crash(n)
  BY <1>5 DEF ReleaseFails, Crash, Exit, StopTo
<1> QED
  BY <1>1, <1>2, <1>3, <1>4, <1>5 DEF NodeStep

\* The bounds of time hold after a step as before it.
LEMMA DueFitsNext ==
    ASSUME Timely, NEW n \in Nodes
    PROVE  (ElectTypeOK /\ TimerInv => Due(n) \in Nat /\ Due(n) < Ttl)'
<1> DEFINE Fits == ElectTypeOK /\ TimerInv => Due(n) \in Nat /\ Due(n) < Ttl
<1>1. Fits
  BY SlackFacts
<1> HIDE DEF Fits
<1>2. Fits'
  BY <1>1, PTL
<1> QED
  BY <1>2 DEF Fits

\* While the lock stays as it is, no step puts off what is due at the node
\* beyond the time that the lock has left.
LEMMA OwnDue ==
    ASSUME Timely, IInv, NEW n \in Nodes, NodeStep(n), Claims(n)',
           owner' = owner, left' = left, ~ (TrySet(n) /\ owner = Free),
           ~ Renew(n), ~ ReleaseDelete(n)
    PROVE  left' > Due(n)'
<1> USE ElectionAssumption DEF ElectTypeOK, LoopPhases, StopPhases
<1>1. ElectTypeOK /\ TimerInv
  BY DEF IInv
<1>2. /\ Spare(failures[n]) \in Nat /\ Spare(0) \in Nat
      /\ Spare(failures[n]) <= Spare(0)
      /\ failures[n] < MaxFailures =>
            /\ Spare(failures[n] + 1) = Spare(failures[n]) - Period
            /\ Spare(failures[n]) >= Period
  BY <1>1, SpareFacts
<1>3. Period = Interval + 4 * MaxDelay
  BY DEF Period
<1>4. /\ loop[n] # "ended" => since[n] <= LoopDeadline(n)
      /\ loop[n] = "lost" => owner # n
      /\ loop[n] = "ended" => stop[n] # "no"
  BY <1>1 DEF TimerInv
<1>5. /\ Claims(n) /\ left > Due(n)
      /\ stop[n] \in {"no", "get", "del"} /\ stop'[n] \in {"no", "get", "del"}
  BY <1>1, OwnClaim DEF IInv, ClaimInv
<1>6. /\ Slack(n) \in Int /\ StopSlack(n) \in Nat /\ StopSlack(n) <= 2 * MaxDelay
      /\ loop[n] # "ended" => Slack(n) >= Spare(failures[n])
      /\ left \in Nat
  BY <1>1, SlackFacts
<1>7. ASSUME TrySet(n) \/ GetLock(n)  PROVE left' > Due(n)'
  <2>1. /\ stop' = stop /\ stopSince' = stopSince /\ failures' = failures
        /\ is_leader' = is_leader
    BY <1>7 DEF TrySet, GetLock, stopVars
  <2>2. /\ \/ loop[n] = "wait" /\ loop'[n] = "get"
           \/ loop[n] = "get" /\ loop'[n] = "renew"
           \/ loop[n] = "get" /\ loop'[n] = "lost" /\ owner # n
        /\ since'[n] = 0
    <3>1. CASE TrySet(n)
      BY <1>1, <3>1 DEF TrySet, LoopTo
    <3>2. CASE GetLock(n)
      BY <1>1, <3>2 DEF GetLock, LoopTo
    <3> QED
      BY <1>7, <3>1, <3>2
  <2>3. Slack(n)' <= Slack(n)
    BY <1>1, <1>2, <1>4, <2>1, <2>2 DEF Slack, AttemptSlack, LoopDeadline
  <2>4. Slack(n)' \in Int
    BY <1>1, <1>2, <2>1, <2>2 DEF Slack, AttemptSlack
  <2>5. StopSlack(n)' = StopSlack(n)
    BY <2>1 DEF StopSlack
  <2>6. Renews(n)' <=> Renews(n)
    BY <1>5, <2>1, <2>2 DEF Renews, Claims
  <2> QED
    BY <1>5, <1>6, <2>3, <2>4, <2>5, <2>6 DEF Due
<1>8. ASSUME AttemptSucceeds(n) \/ AttemptFails(n)  PROVE left' > Due(n)'
  <2>1. stop' = stop /\ stopSince' = stopSince /\ loop[n] # "ended"
    BY <1>8 DEF AttemptSucceeds, AttemptFails, stopVars
  <2>2. since'[n] = 0 /\ loop'[n] = IF stop[n] = "no" THEN "wait" ELSE "ended"
    BY <1>1, <1>8 DEF AttemptSucceeds, AttemptFails, AttemptEnds, LoopTo
  <2>3. CASE stop[n] = "no"
    <3>1. Due(n) = Slack(n) /\ Due(n)' = Slack(n)'
      BY <2>1, <2>3 DEF Due, Renews
    <3>2. CASE AttemptSucceeds(n)
      <4>1. loop[n] = "won" /\ failures'[n] = 0
        BY <1>1, <1>4, <2>1, <2>2, <2>3, <3>2 DEF AttemptSucceeds, Claims
      <4>2. Slack(n)' <= Slack(n) /\ Slack(n)' \in Int
        BY <1>1, <1>2, <1>3, <1>4, <2>2, <2>3, <4>1 DEF Slack, AttemptSlack, LoopDeadline
      <4> QED
        BY <1>5, <1>6, <3>1, <4>2
    <3>3. CASE AttemptFails(n)
      <4>1. failures[n] < MaxFailures /\ failures'[n] = failures[n] + 1
        BY <1>1, <3>3 DEF AttemptFails
      <4>2. Slack(n)' = Interval + 3 * MaxDelay + Spare(failures[n]) - Period
        BY <1>1, <1>2, <1>3, <2>2, <2>3, <4>1 DEF Slack, AttemptSlack
      <4> QED
        BY <1>2, <1>3, <1>5, <1>6, <2>1, <3>1, <4>2
    <3> QED
      BY <1>8, <3>2, <3>3
  <2>4. CASE stop[n] # "no"
    <3>1. Due(n)' = StopSlack(n) /\ StopSlack(n)' = StopSlack(n)
      BY <2>1, <2>2, <2>4 DEF Due, Renews, StopSlack
    <3>2. CASE ~ Renews(n)
      BY <1>5, <3>1, <3>2 DEF Due
    <3>3. CASE Renews(n)
      <4>1. owner = n /\ left > Slack(n)
        BY <1>5, <2>1, <2>2, <2>4, <3>3 DEF Due, Renews, Claims
      <4>2. CASE AttemptSucceeds(n)
        <5>1. loop[n] = "won"
          BY <1>4, <4>1, <4>2 DEF AttemptSucceeds
        <5>2. Slack(n) >= 2 * MaxDelay
          BY <1>1, <1>2, <1>3, <1>4, <5>1 DEF Slack, AttemptSlack, LoopDeadline
        <5> QED
          BY <1>6, <3>1, <4>1, <5>2
      <4>3. CASE AttemptFails(n)
        <5>1. failures[n] < MaxFailures
          BY <4>3 DEF AttemptFails
        <5> QED
          BY <1>2, <1>3, <1>6, <2>1, <3>1, <4>1, <5>1
      <4> QED
        BY <1>8, <4>2, <4>3
    <3> QED
      BY <3>2, <3>3
  <2> QED
    BY <2>3, <2>4
<1>9. ASSUME Shutdown(n)  PROVE left' > Due(n)'
  <2>1. is_leader[n]
    BY <1>1, <1>5, <1>9 DEF Shutdown, Exit, StopTo
  <2>2. /\ stop[n] = "no" /\ stop'[n] = "get" /\ stopSince'[n] = 0 /\ failures' = failures
        /\ left > Slack(n)
    BY <1>1, <1>5, <1>9, <2>1 DEF Shutdown, StopTo, Due, Renews
  <2>3. CASE loop[n] = "wait" /\ since[n] < Interval
    <3>1. loop'[n] = "ended"
      BY <1>1, <1>9, <2>1, <2>3 DEF Shutdown, LoopTo
    <3>2. Due(n)' = 2 * MaxDelay
      BY <2>2, <3>1 DEF Due, Renews, StopSlack
    <3>3. Slack(n) >= 2 * MaxDelay
      BY <1>1, <1>2, <2>3 DEF Slack, AttemptSlack
    <3> QED
      BY <1>6, <2>2, <3>2, <3>3
  <2>4. CASE ~ (loop[n] = "wait" /\ since[n] < Interval)
    <3>1. loop'[n] = loop[n] /\ since'[n] = since[n] /\ loop[n] # "ended"
      BY <1>4, <1>9, <2>1, <2>2, <2>4 DEF Shutdown
    <3>2. Renews(n)' /\ Slack(n)' = Slack(n)
      BY <2>2, <3>1 DEF Claims, Renews, Slack, AttemptSlack
    <3> QED
      BY <2>2, <3>2 DEF Due
  <2> QED
    BY <2>3, <2>4
<1>10. ASSUME ReleaseGet(n)  PROVE left' > Due(n)'
  <2>1. /\ stop[n] = "get" /\ owner = n /\ stop'[n] = "del" /\ stopSince'[n] = 0
        /\ loop' = loop /\ since' = since /\ failures' = failures
    BY <1>1, <1>5, <1>10 DEF ReleaseGet, StopTo, loopVars
  <2>2. CASE loop[n] = "ended"
    <3>1. Due(n)' = MaxDelay /\ Due(n) = 2 * MaxDelay - stopSince[n]
      BY <2>1, <2>2 DEF Due, Renews, StopSlack
    <3> QED
      BY <1>1, <1>5, <1>6, <3>1
  <2>3. CASE loop[n] # "ended"
    <3>1. Due(n)' = Slack(n)' /\ Due(n) = Slack(n) /\ Slack(n)' = Slack(n)
      BY <2>1, <2>3 DEF Due, Renews, Slack, AttemptSlack
    <3> QED
      BY <1>5, <3>1
  <2> QED
    BY <2>2, <2>3
<1>11. ASSUME ReleaseReturns(n) \/ ReleaseFails(n) \/ Crash(n)  PROVE FALSE
  BY <1>1, <1>5, <1>11 DEF ReleaseReturns, ReleaseFails, Crash, Exit, StopTo
<1> QED
  BY <1>7, <1>8, <1>9, <1>10, <1>11 DEF NodeStep, LoopStep, StopStep

LEMMA NodeStepPreservesClaims ==
    ASSUME Timely, IInv, ElectTypeOK', TimerInv', NEW n \in Nodes, NodeStep(n)
    PROVE  ClaimInv'
<1>1. ElectTypeOK /\ TimerInv /\ ClaimInv
  BY DEF IInv
<1>2. \A m \in Nodes : Claims(m) => owner # Free
  <2> SUFFICES ASSUME NEW m \in Nodes, Claims(m)  PROVE owner # Free
    OBVIOUS
  <2>1. Due(m) \in Nat /\ left > Due(m)
    BY <1>1, SlackFacts DEF ClaimInv
  <2> QED
    BY <1>1, <2>1 DEF ElectTypeOK
<1>3. \A m \in Nodes \ {n} : Claims(m)' => Claims(m)
  BY <1>1, OthersClaims
<1>4. Claims(n)' => Claims(n) \/ owner = Free
  BY <1>1, OwnClaim
<1>5. \A m, k \in Nodes : Claims(m)' /\ Claims(k)' => m = k
  <2>1. \A m \in Nodes \ {n} : Claims(m)' => ~ Claims(n)'
    BY <1>1, <1>2, <1>3, <1>4 DEF ClaimInv
  <2>2. \A m, k \in Nodes \ {n} : Claims(m)' /\ Claims(k)' => m = k
    BY <1>1, <1>3 DEF ClaimInv
  <2> QED
    BY <2>1, <2>2
<1>6. \A m \in Nodes : Due(m)' \in Nat /\ Due(m)' < Ttl
  BY DueFitsNext
<1>7. ASSUME NEW m \in Nodes, Claims(m)'  PROVE left' > Due(m)'
  <2>1. CASE left' = Ttl
    BY <1>6, <2>1, ElectionAssumption
  <2>2. CASE ReleaseDelete(n)
    <3>1. Claims(n) /\ stop'[n] = "reply"
      BY <1>1, <2>2 DEF ReleaseDelete, StopTo, Claims, ElectTypeOK
    <3>2. m # n
      BY <1>7, <3>1 DEF Claims
    <3> QED
      BY <1>1, <1>3, <1>7, <3>1, <3>2 DEF ClaimInv
  <2>3. CASE /\ owner' = owner /\ left' = left /\ ~ Renew(n)
             /\ ~ (TrySet(n) /\ owner = Free) /\ ~ ReleaseDelete(n)
    <3>1. CASE m = n
      BY <1>7, <2>3, <3>1, OwnDue
    <3>2. CASE m # n
      <4>1. Claims(m) /\ Due(m)' = Due(m)
        BY <1>1, <1>7, <2>3, <3>2, OthersClaims
      <4> QED
        BY <1>1, <2>3, <4>1 DEF ClaimInv
    <3> QED
      BY <3>1, <3>2
  <2> QED
    BY <2>1, <2>2, <2>3, LockMoves
<1> QED
  BY <1>5, <1>7 DEF ClaimInv

\* Time runs for the lock and for what is due at the node that claims it.
LEMMA TickPreservesClaims ==
    ASSUME Timely, IInv, Tick
    PROVE  /\ ClaimInv'
           /\ \A n \in Nodes : Claims(n) => owner' = owner
<1> USE ElectionAssumption DEF ElectTypeOK, LoopPhases, StopPhases
<1>1. ElectTypeOK /\ TimerInv /\ ClaimInv
  BY DEF IInv
<1>2. loop' = loop /\ stop' = stop /\ is_leader' = is_leader /\ failures' = failures
  BY DEF Tick
<1>3. owner' \in {owner, Free} /\ Free \notin Nodes
  BY DEF Tick
<1>4. \A n \in Nodes : Claims(n)' => Claims(n)
  BY <1>2, <1>3 DEF Claims
<1>5. ASSUME NEW n \in Nodes, Claims(n)
      PROVE  Due(n) >= 1 /\ left > Due(n) /\ owner' = owner /\ left' = left - 1
  <2>1. left > Due(n)
    BY <1>1, <1>5 DEF ClaimInv
  <2>2. /\ Spare(failures[n]) \in Nat /\ Spare(0) \in Nat
        /\ Period = Interval + 4 * MaxDelay
    BY <1>1, SpareFacts DEF Period
  <2>3. ASSUME Renews(n)  PROVE Due(n) >= 1
    <3>1. loop[n] # "ended"
      BY <1>1, <2>3 DEF Renews, TimerInv
    <3>2. since[n] < LoopDeadline(n)
      BY <3>1 DEF Tick, NothingIsDue
    <3>3. Slack(n) >= 1
      BY <1>1, <2>2, <3>1, <3>2 DEF Slack, AttemptSlack, LoopDeadline
    <3> QED
      BY <2>3, <3>3 DEF Due
  <2>4. ASSUME ~ Renews(n)  PROVE Due(n) >= 1
    <3>1. stop[n] \in {"get", "del"}
      BY <1>5, <2>4 DEF Renews, Claims
    <3>2. stopSince[n] < MaxDelay
      BY <3>1 DEF Tick, NothingIsDue
    <3>3. StopSlack(n) >= 1
      BY <1>1, <3>2 DEF StopSlack
    <3> QED
      BY <2>4, <3>3 DEF Due
  <2>5. Due(n) >= 1 /\ Due(n) \in Nat
    BY <1>1, <2>3, <2>4, SlackFacts
  <2> QED
    BY <1>1, <2>1, <2>5 DEF Tick
<1>6. ASSUME NEW n \in Nodes, Claims(n)  PROVE Due(n)' = Due(n) - 1
  <2>1. Renews(n)' <=> Renews(n)
    BY <1>2, <1>5, <1>6 DEF Renews
  <2>2. Spare(failures[n]) \in Nat /\ Spare(0) \in Nat /\ Period \in Nat
    BY <1>1, SpareFacts DEF Period
  <2>3. CASE Renews(n)
    <3>1. loop[n] # "ended"
      BY <1>1, <2>3 DEF Renews, TimerInv
    <3>2. since'[n] = since[n] + 1
      BY <3>1 DEF Tick
    <3>3. Slack(n)' = Slack(n) - 1
      BY <1>1, <1>2, <2>2, <3>2 DEF Slack, AttemptSlack
    <3> QED
      BY <2>1, <2>3, <3>3 DEF Due
  <2>4. CASE ~ Renews(n)
    <3>1. stop[n] \in {"get", "del"}
      BY <1>6, <2>4 DEF Renews, Claims
    <3>2. stopSince'[n] = stopSince[n] + 1
      BY <3>1 DEF Tick
    <3>3. StopSlack(n)' = StopSlack(n) - 1
      BY <1>1, <1>2, <3>2 DEF StopSlack
    <3> QED
      BY <2>1, <2>4, <3>3 DEF Due
  <2> QED
    BY <2>3, <2>4
<1>7. ASSUME NEW n \in Nodes, Claims(n)'  PROVE left' > Due(n)'
  <2>1. Claims(n) /\ Due(n) \in Nat /\ left \in Nat
    BY <1>1, <1>4, <1>7, SlackFacts
  <2> QED
    BY <1>5, <1>6, <2>1
<1>8. \A m, n \in Nodes : Claims(m)' /\ Claims(n)' => m = n
  BY <1>1, <1>4 DEF ClaimInv
<1> QED
  BY <1>5, <1>7, <1>8 DEF ClaimInv

-----------------------------------------------------------------------------
(***************************************************************************)
(* Without shutdowns the owner of the lock and who claims it are the same. *)
(***************************************************************************)
LEMMA BeliefInvPreserved ==
    ASSUME Timely, IInv, [ElectNext]_electVars  PROVE BeliefInv'
<1>1. ElectTypeOK /\ TimerInv /\ ClaimInv /\ UNCHANGED electFaults
  BY NextIsTickOrNodeStep DEF IInv
<1> SUFFICES ASSUME NoShutdown
             PROVE  \A n \in Nodes :
                       /\ stop'[n] \in {"no", "crashed"}
                       /\ is_leader'[n] \/ loop'[n] \in {"renew", "won"} => owner' = n
  BY <1>1 DEF BeliefInv, NoShutdown
<1>2. \A n \in Nodes : /\ stop[n] \in {"no", "crashed"}
                       /\ is_leader[n] \/ loop[n] \in {"renew", "won"} => owner = n
  BY DEF IInv, BeliefInv
<1>3. \A n \in Nodes : is_leader[n] \/ loop[n] \in {"renew", "won"} => Claims(n)
  BY <1>1, <1>2 DEF Claims, TimerInv
<1>4. ASSUME NEW n \in Nodes, NodeStep(n)
      PROVE  \A m \in Nodes :
                /\ stop'[m] \in {"no", "crashed"}
                /\ is_leader'[m] \/ loop'[m] \in {"renew", "won"} => owner' = m
  <2>1. ~ Shutdown(n) /\ ~ StopStep(n) /\ ~ ReleaseFails(n)
    BY <1>2 DEF NoShutdown, Shutdown, StopStep, ReleaseGet, ReleaseDelete, ReleaseReturns, ReleaseFails
  <2>2. /\ stop'[n] \in {"no", "crashed"}
        /\ is_leader'[n] \/ loop'[n] \in {"renew", "won"} => owner' = n
    <3>1. CASE TrySet(n)
      BY <1>1, <1>2, <3>1 DEF TrySet, SetLock, LoopTo, lockVars, stopVars, ElectTypeOK
    <3>2. CASE GetLock(n)
      BY <1>1, <1>2, <3>2 DEF GetLock, LoopTo, lockVars, stopVars, ElectTypeOK
    <3>3. CASE Renew(n)
      BY <1>1, <1>2, <3>3 DEF Renew, SetLock, stopVars
    <3>4. CASE AttemptSucceeds(n)
      BY <1>1, <1>2, <3>4 DEF AttemptSucceeds, AttemptEnds, LoopTo, lockVars, stopVars, ElectTypeOK
    <3>5. CASE AttemptFails(n)
      BY <1>1, <1>2, <3>5 DEF AttemptFails, AttemptEnds, LoopTo, lockVars, stopVars, ElectTypeOK
    <3>6. CASE Crash(n)
      BY <1>1, <3>6 DEF Crash, Exit, LoopTo, StopTo, ElectTypeOK
    <3> QED
      BY <1>4, <2>1, <3>1, <3>2, <3>3, <3>4, <3>5, <3>6 DEF NodeStep, LoopStep
  <2>3. ASSUME NEW m \in Nodes \ {n}
        PROVE  /\ stop'[m] \in {"no", "crashed"}
               /\ is_leader'[m] \/ loop'[m] \in {"renew", "won"} => owner' = m
    <3>1. /\ stop'[m] = stop[m] /\ is_leader'[m] = is_leader[m] /\ loop'[m] = loop[m]
      BY <1>1, <1>4, OthersStay
    <3>2. SUFFICES ASSUME is_leader[m] \/ loop[m] \in {"renew", "won"}
                   PROVE  owner' = m
      BY <1>2, <3>1
    <3>3. owner = m /\ Claims(m)
      BY <1>2, <1>3, <3>2
    <3>4. ~ Renew(n)
      BY <1>2, <3>3 DEF Renew
    <3>5. owner # Free
      BY <3>3, ElectionAssumption
    <3> QED
      BY <1>4, <2>1, <3>3, <3>4, <3>5, LockMoves DEF StopStep
  <2> QED
    BY <2>2, <2>3
<1>5. ASSUME Tick
      PROVE  \A n \in Nodes :
                /\ stop'[n] \in {"no", "crashed"}
                /\ is_leader'[n] \/ loop'[n] \in {"renew", "won"} => owner' = n
  BY <1>2, <1>3, <1>5, TickPreservesClaims DEF Tick
<1>6. CASE UNCHANGED electVars
  BY <1>2, <1>6 DEF electVars, electDataVars, lockVars, loopVars, stopVars
<1> QED
  BY <1>4, <1>5, <1>6, NextIsTickOrNodeStep

LEMMA IInvPreserved == ASSUME Timely, IInv, [ElectNext]_electVars PROVE IInv'
<1>1. ElectTypeOK' /\ TimerInv' /\ BeliefInv'
  BY TypeOKPreserved, TimerInvPreserved, BeliefInvPreserved DEF IInv
<1>2. ASSUME UNCHANGED electVars PROVE ClaimInv'
  BY <1>2 DEF IInv, ClaimInv, Claims, Due, Renews, Slack, AttemptSlack, StopSlack,
              electVars, electDataVars, lockVars, loopVars, stopVars
<1>3. ClaimInv'
  BY <1>1, <1>2, NextIsTickOrNodeStep, NodeStepPreservesClaims, TickPreservesClaims
<1> QED
  BY <1>1, <1>3 DEF IInv

(***************************************************************************)
(* Every reachable state satisfies the inductive invariant.                *)
(***************************************************************************)
THEOREM Invariance == ASSUME Timely PROVE ElectSpec => []IInv
<1>1. IInv /\ [ElectNext]_electVars => IInv'
  BY IInvPreserved
<1> QED
  BY InitEstablishesIInv, <1>1, PTL DEF ElectSpec

(***************************************************************************)
(* The variables of the lock, the loops and the shutdowns keep their types *)
(* (all of leader_election.py).                                            *)
(***************************************************************************)
THEOREM TypeCorrect == ASSUME Timely PROVE ElectSpec => []ElectTypeOK
<1>1. IInv => ElectTypeOK
  BY DEF IInv
<1> QED
  BY Invariance, <1>1, PTL

(***************************************************************************)
(* With commands on time, no two nodes act as leader at once: however many *)
(* attempts fail within the bound, whoever crashes, and though a node that *)
(* shuts down deletes the lock (release()) and may set it again over that  *)
(* of another.                                                             *)
(***************************************************************************)
THEOREM LeaderIsUnique == ASSUME Timely PROVE ElectSpec => []OneLeader
<1>1. IInv => OneLeader
  BY DEF IInv, ClaimInv, Claims, OneLeader, Leads
<1> QED
  BY Invariance, <1>1, PTL

(***************************************************************************)
(* And where no node shuts down, one whose is_leader is true holds the     *)
(* lock.                                                                   *)
(***************************************************************************)
THEOREM BelieversHoldTheLock ==
    ASSUME Timely PROVE ElectSpec /\ NoShutdown => []LeaderHoldsLock
<1>1. IInv /\ NoShutdown => LeaderHoldsLock
  BY DEF IInv, BeliefInv, LeaderHoldsLock
<1>2. NoShutdown /\ [ElectNext]_electVars => NoShutdown'
  BY DEF NoShutdown, ElectNext, electVars
<1> QED
  BY Invariance, <1>1, <1>2, PTL DEF ElectSpec

(***************************************************************************)
(* The unconditional SET EX of try_acquire never overwrites the lock of    *)
(* another node, unless nodes shut down: the lock changes hands only       *)
(* through being free.                                                     *)
(***************************************************************************)
THEOREM LockIsNeverStolen == ASSUME Timely PROVE ElectSpec => NeverSteals
<1> DEFINE Kept == owner # Free /\ owner' # Free /\ "shutdown" \notin electFaults
                      => owner' = owner
<1>1. ASSUME IInv, [ElectNext]_electVars, NoShutdown, owner # Free, owner' # Free
      PROVE  owner' = owner
  <2>1. ASSUME NEW n \in Nodes, NodeStep(n) PROVE owner' = owner
    <3>1. Renew(n) => owner = n
      BY <1>1 DEF IInv, BeliefInv, Renew
    <3> QED
      BY <1>1, <2>1, <3>1, LockMoves
  <2>2. Tick => owner' = owner
    BY <1>1 DEF Tick
  <2>3. UNCHANGED electVars => owner' = owner
    BY DEF electVars, electDataVars, lockVars
  <2> QED
    BY <1>1, <2>1, <2>2, <2>3, NextIsTickOrNodeStep
<1>2. IInv /\ [ElectNext]_electVars => [Kept]_electVars
  BY <1>1 DEF NoShutdown
<1> QED
  BY Invariance, <1>2, PTL DEF ElectSpec, NeverSteals

=============================================================================
