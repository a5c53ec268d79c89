------------------------ MODULE DeviceManager_proofs ------------------------
(***************************************************************************)
(* What the transactions of device-manager guarantee for any number of     *)
(* calls, devices, versions and requests, overlapping or not, with crashes *)
(* between any two steps and Redis failing.                                *)
(***************************************************************************)
EXTENDS DeviceManager, FiniteSetTheorems, TLAPS

\* A PUT may name any status; one that makes a device "registered" again is
\* what ApprovalIsWhole leaves out.  No other theorem depends on it.
NoReset == "registered" \notin PutStatuses

Enrolled(d) == device[d] # "absent" /\ (NoReset => device[d] # "registered")

(***************************************************************************)
(* The inductive invariant: the tables, ...                                *)
(***************************************************************************)
TableTypeOK ==
    /\ DOMAIN device = Devices
    /\ request \in [Slots -> [device : Devices \cup {NoOne},
                              status : {"none", "pending", "approved"}]]
    /\ catalog \in [Versions -> {0, 1}]
    /\ rollout \in [RolloutIds -> [of : Versions \cup {NoOne},
                                  record : {"none", "kept", "expired"}]]
    /\ DOMAIN call = Calls

\* Requests are about devices that exist, approved ones about enrolled devices.
RequestInv ==
    \A r \in Slots : request[r].status # "none" =>
        /\ request[r].device \in Devices
        /\ device[request[r].device] # "absent"
        /\ request[r].status = "approved" => Enrolled(request[r].device)

\* Rollouts whose record has been stored, expired ones among them.
Recorded == {i \in RolloutIds : rollout[i].record # "none"}

RolloutInv ==
    /\ announced \subseteq Recorded
    /\ \A i \in Recorded : rollout[i].of \in Versions /\ catalog[rollout[i].of] = 1

\* ... and what each call has read: it still holds when the call acts on it.
CallGrounded(c) ==
    LET k == call[c]
    IN  /\ Resume(c, "update", "write") => k.of \in Devices /\ k.with \in PutStatuses
        /\ Resume(c, "delete", "write") => k.of \in Devices
        /\ k.op = "request" /\ k.at \in {"check", "insert"} =>
               k.of \in Devices /\ device[k.of] # "absent"
        /\ k.op = "approve" /\ k.at \in {"lock", "commit"} =>
               k.of \in Slots /\ request[k.of].status # "none"
        /\ Resume(c, "approve", "commit") /\ k.with = "provisioned" =>
               Enrolled(request[k.of].device)
        /\ Resume(c, "rollout", "store") => k.of \in Versions /\ catalog[k.of] = 1
        /\ Resume(c, "rollout", "announce") => k.of \in Recorded
        /\ k.at = "announce_left" => k.op = "update"

DeviceInv ==
    /\ TableTypeOK /\ RequestInv /\ RolloutInv
    /\ \A c \in Calls : CallGrounded(c)

-----------------------------------------------------------------------------
LEMMA InitEstablishesDeviceInv == DeviceInit => DeviceInv
BY DEF DeviceInit, DeviceInv, TableTypeOK, RequestInv, RolloutInv, Recorded, NoRollout,
       CallGrounded, Resume, Idle, Unused, NoOne

(***************************************************************************)
(* The tables only move on: a row stays, a device leaves "registered" for  *)
(* good, requests keep their device, rollouts and versions stay recorded.  *)
(***************************************************************************)
TablesMoveOn ==
    /\ \A d \in Devices : device[d] # "absent" => device'[d] # "absent"
    /\ \A d \in Devices : Enrolled(d) => Enrolled(d)'
    /\ \A r \in Slots : request[r].status # "none" =>
           request'[r].status # "none" /\ request'[r].device = request[r].device
    /\ \A v \in Versions : catalog[v] = 1 => catalog'[v] = 1
    /\ Recorded \subseteq Recorded'

\* The calls that do not take this step keep the ground they stand on.
LEMMA OthersStayGrounded ==
    ASSUME DeviceInv, TablesMoveOn,
           NEW c \in Calls, CallGrounded(c), call'[c] = call[c]
    PROVE  CallGrounded(c)'
BY DEF DeviceInv, TableTypeOK, RequestInv, CallGrounded, Resume, TablesMoveOn, Enrolled

LEMMA OneCallMoves ==
    ASSUME DeviceInv, TablesMoveOn, NEW c \in Calls,
           DOMAIN call' = Calls,
           \A other \in Calls \ {c} : call'[other] = call[other],
           CallGrounded(c)'
    PROVE  \A k \in Calls : CallGrounded(k)'
<1> SUFFICES ASSUME NEW k \in Calls, k # c PROVE CallGrounded(k)'
  OBVIOUS
<1> QED
  BY OthersStayGrounded DEF DeviceInv

\* A step that writes no table needs ground for its own call only.
LEMMA ReadingIsSafe ==
    ASSUME DeviceInv, NEW c \in Calls, UNCHANGED tables,
           announced' \subseteq Recorded, DOMAIN call' = Calls,
           \A other \in Calls \ {c} : call'[other] = call[other],
           CallGrounded(c)'
    PROVE  DeviceInv'
<1>1. TablesMoveOn
  BY DEF TablesMoveOn, Enrolled, Recorded, tables
<1>2. \A k \in Calls : CallGrounded(k)'
  BY <1>1, OneCallMoves
<1>3. TableTypeOK' /\ RequestInv' /\ RolloutInv'
  BY DEF DeviceInv, TableTypeOK, RequestInv, RolloutInv, Recorded, Enrolled, tables
<1> QED
  BY <1>2, <1>3 DEF DeviceInv

-----------------------------------------------------------------------------
(***************************************************************************)
(* The steps that read, and the last step of a call.                       *)
(***************************************************************************)
LEMMA ReadsPreserveDeviceInv ==
    ASSUME DeviceInv, NEW c \in Calls,
           \/ \E d \in Devices :
                 \/ \E s \in PutStatuses : ReadForUpdate(c, d, s)
                 \/ ReadForDelete(c, d) \/ ReadForRequest(c, d)
           \/ \E r \in Slots : ReadForApproval(c, r)
           \/ \E v \in Versions : ReadCatalog(c, v) \/ ReadForRollout(c, v)
           \/ RefreshUpdate(c) \/ CheckPending(c) \/ LockForApproval(c)
           \/ Announce(c)
    PROVE  DeviceInv'
<1> USE DEF Continue, Finish, Resume, tables
<1>1. DOMAIN call = Calls /\ announced \subseteq Recorded
  BY DEF DeviceInv, TableTypeOK, RolloutInv
<1>2. ASSUME NEW d \in Devices, NEW s \in PutStatuses, ReadForUpdate(c, d, s)
      PROVE  DeviceInv'
  <2>1. CallGrounded(c)'
    BY <1>1, <1>2 DEF ReadForUpdate, CallGrounded
  <2> QED
    BY <1>1, <1>2, <2>1, ReadingIsSafe DEF ReadForUpdate
<1>3. ASSUME NEW d \in Devices, ReadForDelete(c, d) PROVE DeviceInv'
  <2>1. CallGrounded(c)'
    BY <1>1, <1>3 DEF ReadForDelete, CallGrounded
  <2> QED
    BY <1>1, <1>3, <2>1, ReadingIsSafe DEF ReadForDelete
<1>4. ASSUME NEW d \in Devices, ReadForRequest(c, d) PROVE DeviceInv'
  <2>1. CallGrounded(c)'
    BY <1>1, <1>4 DEF ReadForRequest, CallGrounded
  <2> QED
    BY <1>1, <1>4, <2>1, ReadingIsSafe DEF ReadForRequest
<1>5. ASSUME NEW r \in Slots, ReadForApproval(c, r) PROVE DeviceInv'
  <2>1. CallGrounded(c)'
    BY <1>1, <1>5 DEF ReadForApproval, CallGrounded
  <2> QED
    BY <1>1, <1>5, <2>1, ReadingIsSafe DEF ReadForApproval
<1>6. ASSUME NEW v \in Versions, ReadCatalog(c, v) PROVE DeviceInv'
  <2>1. CallGrounded(c)'
    BY <1>1, <1>6 DEF ReadCatalog, CallGrounded
  <2> QED
    BY <1>1, <1>6, <2>1, ReadingIsSafe DEF ReadCatalog
<1>7. ASSUME NEW v \in Versions, ReadForRollout(c, v) PROVE DeviceInv'
  <2>1. catalog[v] = 1
    BY <1>7 DEF ReadForRollout, DeviceInv, TableTypeOK
  <2>2. CallGrounded(c)'
    BY <1>1, <1>7, <2>1 DEF ReadForRollout, CallGrounded
  <2> QED
    BY <1>1, <1>7, <2>2, ReadingIsSafe DEF ReadForRollout
<1>8. CASE RefreshUpdate(c)
  <2>1. CallGrounded(c)'
    BY <1>1, <1>8 DEF RefreshUpdate, CallGrounded
  <2> QED
    BY <1>1, <1>8, <2>1, ReadingIsSafe DEF RefreshUpdate
<1>9. CASE CheckPending(c)
  <2>1. CallGrounded(c)'
    BY <1>1, <1>9 DEF CheckPending, CallGrounded, Idle, DeviceInv
  <2>2. /\ UNCHANGED tables /\ announced' \subseteq Recorded /\ DOMAIN call' = Calls
        /\ \A other \in Calls \ {c} : call'[other] = call[other]
    BY <1>1, <1>9 DEF CheckPending
  <2> QED
    BY <2>1, <2>2, ReadingIsSafe
<1>10. CASE LockForApproval(c)
  <2>1. CallGrounded(c)
    BY DEF DeviceInv
  <2>2. call[c].of \in Slots /\ request[call[c].of].status # "none"
    BY <1>10, <2>1 DEF LockForApproval, CallGrounded
  <2>3. device[request[call[c].of].device] = "provisioned"
            => Enrolled(request[call[c].of].device)
    BY DEF Enrolled
  <2>4. UNCHANGED tables /\ call' = [call EXCEPT ![c] =
            [op |-> "approve", at |-> "commit", of |-> call[c].of,
             with |-> device[request[call[c].of].device]]]
    BY <1>10 DEF LockForApproval
  <2>5. CallGrounded(c)'
    BY <1>1, <2>2, <2>3, <2>4 DEF CallGrounded, Enrolled
  <2> QED
    BY <1>1, <1>10, <2>5, ReadingIsSafe DEF LockForApproval
<1>11. CASE Announce(c)
  <2>1. call[c].op = "rollout" => call[c].of \in Recorded
    BY <1>11 DEF Announce, DeviceInv, CallGrounded
  <2>2. announced' \subseteq Recorded
    BY <1>1, <1>11, <2>1 DEF Announce, Announcing
  <2>3. CallGrounded(c)'
    BY <1>1, <1>11 DEF Announce, CallGrounded, Idle, NoOne
  <2> QED
    BY <1>1, <1>11, <2>2, <2>3, ReadingIsSafe DEF Announce
<1> QED
  BY <1>2, <1>3, <1>4, <1>5, <1>6, <1>7, <1>8, <1>9, <1>10, <1>11

-----------------------------------------------------------------------------
(***************************************************************************)
(* The steps that write.                                                   *)
(***************************************************************************)
LEMMA DeviceWritesPreserveDeviceInv ==
    ASSUME DeviceInv, NEW c \in Calls,
           (\E d \in Devices : CreateDevice(c, d)) \/ WriteUpdate(c) \/ WriteDelete(c)
    PROVE  DeviceInv'
<1> USE DEF Continue, Resume
<1>1. CallGrounded(c) /\ DOMAIN call = Calls /\ DOMAIN device = Devices
  BY DEF DeviceInv, TableTypeOK
<1>2. /\ UNCHANGED <<request, catalog, rollout, announced>>
      /\ DOMAIN device' = Devices /\ DOMAIN call' = Calls
      /\ \A other \in Calls \ {c} : call'[other] = call[other]
      /\ call'[c].at \in {"announce", "refresh"} /\ call'[c].op # "rollout"
  BY <1>1 DEF CreateDevice, WriteUpdate, WriteDelete
<1>3. \A d \in Devices :
          \/ device'[d] = device[d]
          \/ device[d] = "absent" /\ device'[d] = "registered"
          \/ device'[d] # "absent" /\ (NoReset => device'[d] # "registered")
  BY <1>1, DeviceAssumption
  DEF CreateDevice, WriteUpdate, WriteDelete, CallGrounded, NoReset, Statuses
<1>4. TablesMoveOn
  BY <1>2, <1>3 DEF TablesMoveOn, Enrolled, Recorded
<1>5. CallGrounded(c)'
  BY <1>2 DEF CallGrounded
<1>6. \A k \in Calls : CallGrounded(k)'
  BY <1>2, <1>4, <1>5, OneCallMoves
<1>7. TableTypeOK' /\ RolloutInv'
  BY <1>2 DEF DeviceInv, TableTypeOK, RolloutInv, Recorded
<1>8. RequestInv'
  BY <1>2, <1>4 DEF DeviceInv, RequestInv, TablesMoveOn, Enrolled
<1> QED
  BY <1>6, <1>7, <1>8 DEF DeviceInv

LEMMA RequestWritesPreserveDeviceInv ==
    ASSUME DeviceInv, NEW c \in Calls, InsertRequest(c) PROVE DeviceInv'
<1> USE DEF Continue, Resume
<1> DEFINE d == call[c].of
<1>1. d \in Devices /\ device[d] # "absent" /\ DOMAIN call = Calls
  BY DEF InsertRequest, DeviceInv, CallGrounded, TableTypeOK
<1>2. PICK r \in Slots :
          /\ request[r] = Unused
          /\ request' = [request EXCEPT ![r] = [device |-> d, status |-> "pending"]]
  BY DEF InsertRequest
<1>3. /\ UNCHANGED <<device, catalog, rollout, announced>>
      /\ DOMAIN call' = Calls
      /\ \A other \in Calls \ {c} : call'[other] = call[other]
      /\ call'[c].at = "announce" /\ call'[c].op = "request"
  BY <1>1 DEF InsertRequest
<1>4. request \in [Slots -> [device : Devices \cup {NoOne},
                             status : {"none", "pending", "approved"}]]
  BY DEF DeviceInv, TableTypeOK
<1> HIDE DEF d
<1>5. /\ request[r].status = "none" /\ request'[r].device = d
      /\ request'[r].status = "pending"
      /\ \A other \in Slots \ {r} : request'[other] = request[other]
  BY <1>2, <1>4 DEF Unused
<1>6. TablesMoveOn
  BY <1>3, <1>5 DEF TablesMoveOn, Enrolled, Recorded
<1>7. CallGrounded(c)'
  BY <1>3 DEF CallGrounded
<1>8. \A k \in Calls : CallGrounded(k)'
  BY <1>3, <1>6, <1>7, OneCallMoves
<1>9. TableTypeOK' /\ RolloutInv'
  BY <1>1, <1>2, <1>3, <1>4 DEF DeviceInv, TableTypeOK, RolloutInv, Recorded
<1>10. RequestInv'
  BY <1>1, <1>3, <1>5 DEF DeviceInv, RequestInv, Enrolled
<1> QED
  BY <1>8, <1>9, <1>10 DEF DeviceInv

\* The one step that writes two tables, and the reason why they agree.
LEMMA ApprovalsPreserveDeviceInv ==
    ASSUME DeviceInv, NEW c \in Calls, CommitApproval(c) PROVE DeviceInv'
<1> USE DEF Continue, Resume
<1>1. CallGrounded(c) /\ TableTypeOK /\ RequestInv /\ RolloutInv
  BY DEF DeviceInv
<1>2. PICK r \in Slots : r = call[c].of /\ request[r].status # "none"
  BY <1>1 DEF CommitApproval, CallGrounded
<1>3. PICK d \in Devices :
          /\ d = request[r].device /\ device[d] # "absent"
          /\ call[c].with = "provisioned" => Enrolled(d)
  BY <1>1, <1>2 DEF RequestInv, CommitApproval, CallGrounded
<1>4. /\ request' = [request EXCEPT ![r].status = "approved"]
      /\ device' = [device EXCEPT ![d] =
             IF call[c].with = "provisioned" THEN @ ELSE "provisioned"]
      /\ call' = [call EXCEPT ![c] = [op |-> "approve", at |-> "announce",
                                     of |-> r, with |-> NoOne]]
      /\ UNCHANGED <<catalog, rollout, announced>>
  BY <1>2, <1>3 DEF CommitApproval
<1>5. Enrolled(d)' /\ \A x \in Devices \ {d} : device'[x] = device[x]
  BY <1>1, <1>2, <1>3, <1>4 DEF TableTypeOK, Enrolled
<1>6. /\ request' \in [Slots -> [device : Devices \cup {NoOne},
                                 status : {"none", "pending", "approved"}]]
      /\ request'[r].device = d /\ request'[r].status = "approved"
      /\ \A other \in Slots \ {r} : request'[other] = request[other]
  BY <1>1, <1>2, <1>3, <1>4 DEF TableTypeOK
<1>7. TablesMoveOn
  BY <1>3, <1>4, <1>5, <1>6 DEF TablesMoveOn, Enrolled, Recorded
<1>8. /\ DOMAIN call' = Calls /\ DOMAIN device' = Devices
      /\ \A other \in Calls \ {c} : call'[other] = call[other]
      /\ call'[c].at = "announce" /\ call'[c].op = "approve"
  BY <1>1, <1>4 DEF TableTypeOK
<1>9. CallGrounded(c)'
  BY <1>8 DEF CallGrounded
<1>10. \A k \in Calls : CallGrounded(k)'
  BY <1>7, <1>8, <1>9, OneCallMoves
<1>11. TableTypeOK' /\ RolloutInv'
  BY <1>1, <1>4, <1>6, <1>8 DEF TableTypeOK, RolloutInv, Recorded
<1>12. RequestInv'
  BY <1>1, <1>3, <1>5, <1>6 DEF RequestInv, Enrolled
<1> QED
  BY <1>10, <1>11, <1>12 DEF DeviceInv

LEMMA FirmwareWritesPreserveDeviceInv ==
    ASSUME DeviceInv, NEW c \in Calls, InsertFirmware(c) \/ StoreRollout(c)
    PROVE  DeviceInv'
<1> USE DEF Continue, Finish, Resume
<1>1. CallGrounded(c) /\ TableTypeOK /\ RequestInv /\ RolloutInv
  BY DEF DeviceInv
<1>2. /\ UNCHANGED <<device, request, announced>> /\ DOMAIN call' = Calls
      /\ \A other \in Calls \ {c} : call'[other] = call[other]
  BY <1>1 DEF InsertFirmware, StoreRollout, TableTypeOK
<1>3. CASE InsertFirmware(c)
  <2>1. /\ catalog' = [catalog EXCEPT ![call[c].of] = IF @ = 0 THEN 1 ELSE @]
        /\ rollout' = rollout /\ call'[c] = Idle
    BY <1>1, <1>3 DEF InsertFirmware, TableTypeOK
  <2>2. /\ catalog' \in [Versions -> {0, 1}]
        /\ \A v \in Versions : catalog[v] = 1 => catalog'[v] = 1
    BY <1>1, <2>1 DEF TableTypeOK
  <2>3. TablesMoveOn
    BY <1>2, <2>1, <2>2 DEF TablesMoveOn, Enrolled, Recorded
  <2>4. CallGrounded(c)'
    BY <2>1 DEF CallGrounded, Idle, NoOne
  <2>5. \A k \in Calls : CallGrounded(k)'
    BY <1>2, <2>3, <2>4, OneCallMoves
  <2> QED
    BY <1>1, <1>2, <2>1, <2>2, <2>5
    DEF DeviceInv, TableTypeOK, RequestInv, RolloutInv, Recorded, Enrolled
<1>4. CASE StoreRollout(c)
  <2>1. PICK i \in RolloutIds :
            /\ rollout' \in {rollout, Stored(i, call[c].of)} /\ catalog' = catalog
            /\ \/ call'[c] = Idle
               \/ /\ rollout' = Stored(i, call[c].of)
                  /\ call'[c] = [op |-> "rollout", at |-> "announce", of |-> i, with |-> NoOne]
    BY <1>1, <1>4 DEF StoreRollout, TableTypeOK
  <2>2. call[c].of \in Versions /\ catalog[call[c].of] = 1
    BY <1>1, <1>4 DEF StoreRollout, CallGrounded
  <2>3. /\ rollout' \in [RolloutIds -> [of : Versions \cup {NoOne},
                                      record : {"none", "kept", "expired"}]]
        /\ \A k \in RolloutIds \ {i} : rollout'[k] = rollout[k]
        /\ rollout'[i] \in {rollout[i], [of |-> call[c].of, record |-> "kept"]}
        /\ rollout' = Stored(i, call[c].of) => rollout'[i].record = "kept"
    BY <1>1, <2>1, <2>2 DEF TableTypeOK, Stored
  <2>4. /\ Recorded \subseteq Recorded' /\ (rollout' = Stored(i, call[c].of) => i \in Recorded')
        /\ \A k \in Recorded' : \/ k \in Recorded /\ rollout'[k].of = rollout[k].of
                               \/ rollout'[k].of = call[c].of
    BY <2>3 DEF Recorded
  <2>5. TablesMoveOn
    BY <1>2, <2>1, <2>4 DEF TablesMoveOn, Enrolled
  <2>6. CallGrounded(c)'
    BY <2>1, <2>4 DEF CallGrounded, Idle, NoOne
  <2>7. \A k \in Calls : CallGrounded(k)'
    BY <1>2, <2>5, <2>6, OneCallMoves
  <2>8. RolloutInv'
    BY <1>1, <1>2, <2>1, <2>2, <2>4 DEF RolloutInv
  <2> QED
    BY <1>1, <1>2, <2>1, <2>3, <2>7, <2>8
    DEF DeviceInv, TableTypeOK, RequestInv, Enrolled
<1> QED
  BY <1>3, <1>4

\* An expired record remains one that has been stored.
LEMMA ExpiryPreservesDeviceInv ==
    ASSUME DeviceInv, NEW i \in RolloutIds, ExpireRollout(i) PROVE DeviceInv'
<1>1. /\ UNCHANGED <<device, request, catalog, announced, call>>
      /\ rollout' = [rollout EXCEPT ![i].record = "expired"] /\ rollout[i].record = "kept"
  BY DEF ExpireRollout
<1>2. TableTypeOK /\ RequestInv /\ RolloutInv /\ \A c \in Calls : CallGrounded(c)
  BY DEF DeviceInv
<1>3. /\ rollout' \in [RolloutIds -> [of : Versions \cup {NoOne},
                                    record : {"none", "kept", "expired"}]]
      /\ Recorded' = Recorded /\ \A k \in RolloutIds : rollout'[k].of = rollout[k].of
  BY <1>1, <1>2 DEF TableTypeOK, Recorded
<1>4. TablesMoveOn
  BY <1>1, <1>3 DEF TablesMoveOn, Enrolled
<1>5. \A c \in Calls : CallGrounded(c)'
  BY <1>1, <1>2, <1>4, OthersStayGrounded
<1>6. RolloutInv'
  BY <1>1, <1>2, <1>3 DEF RolloutInv, Recorded
<1> QED
  BY <1>1, <1>2, <1>3, <1>5, <1>6 DEF DeviceInv, TableTypeOK, RequestInv, Enrolled

\* A crash forgets the calls and nothing else.
LEMMA CrashPreservesDeviceInv == ASSUME DeviceInv, CrashManager PROVE DeviceInv'
<1>1. \A c \in Calls : CallGrounded(c)'
  BY DEF CrashManager, CallGrounded, Resume, Idle, NoOne
<1> QED
  BY <1>1 DEF CrashManager, tables, DeviceInv, TableTypeOK, RequestInv, RolloutInv, Recorded, Enrolled

-----------------------------------------------------------------------------
LEMMA NextPreservesDeviceInv ==
    ASSUME DeviceInv, [DeviceNext]_deviceVars PROVE DeviceInv'
<1>1. CASE UNCHANGED deviceVars
  BY <1>1 DEF deviceVars, tables, DeviceInv, TableTypeOK, RequestInv, RolloutInv, Recorded,
              CallGrounded, Resume, Enrolled
<1>2. CASE DeviceNext
  BY <1>2, ReadsPreserveDeviceInv, DeviceWritesPreserveDeviceInv,
     RequestWritesPreserveDeviceInv, ApprovalsPreserveDeviceInv,
     FirmwareWritesPreserveDeviceInv, ExpiryPreservesDeviceInv, CrashPreservesDeviceInv
  DEF DeviceNext
<1> QED
  BY <1>1, <1>2

THEOREM DeviceInvariance == DeviceSpec => []DeviceInv
<1>1. DeviceInit => DeviceInv
  BY InitEstablishesDeviceInv
<1>2. DeviceInv /\ [DeviceNext]_deviceVars => DeviceInv'
  BY NextPreservesDeviceInv
<1> QED
  BY <1>1, <1>2, PTL DEF DeviceSpec

(***************************************************************************)
(* approve_device commits the request and its device at once: no crash and *)
(* no overlapping call leaves an approved request with a device that is    *)
(* still registered, if no PUT sets a device back to "registered".         *)
(***************************************************************************)
THEOREM ApprovalsAreWhole == ASSUME NoReset PROVE DeviceSpec => []ApprovalIsWhole
<1>1. DeviceInv => ApprovalIsWhole
  BY DEF DeviceInv, RequestInv, Enrolled, ApprovalIsWhole
<1> QED
  BY <1>1, DeviceInvariance, PTL

(***************************************************************************)
(* start_rollout: the record of an announced rollout has been stored and   *)
(* is gone only because it expired, and the version of a recorded rollout  *)
(* is in the catalog, in one row.                                          *)
(***************************************************************************)
THEOREM AnnouncementsAreRecorded == DeviceSpec => []AnnouncedRolloutsAreRecorded
<1>1. DeviceInv => AnnouncedRolloutsAreRecorded
  BY DEF DeviceInv, TableTypeOK, RolloutInv, Recorded, AnnouncedRolloutsAreRecorded
<1> QED
  BY <1>1, DeviceInvariance, PTL

-----------------------------------------------------------------------------
(***************************************************************************)
(* Calls that do not overlap.  What a call has read then still holds when  *)
(* it writes, and the gauge is behind by the PUT under way at most.        *)
(***************************************************************************)
InSequence == "overlap" \notin faults

OneCallInv == \A c, e \in Calls : call[c].at # "idle" /\ call[e].at # "idle" => c = e

IsPending(r, d) == request[r].status = "pending" /\ request[r].device = d

OnePendingInv ==
    \A d \in Devices : \A r, s \in Slots : IsPending(r, d) /\ IsPending(s, d) => r = s

StillTrue(c) ==
    LET k == call[c]
    IN  /\ Resume(c, "request", "insert") => \A r \in Slots : ~ IsPending(r, k.of)
        /\ Resume(c, "update", "write") => device[k.of] # "decommissioned"
        /\ Resume(c, "update", "refresh") => device[k.of] = k.with
        /\ k.op = "approve" /\ k.at \in {"lock", "commit"} => request[k.of].status = "pending"
        /\ k.at # "announce_left"

Active == {d \in Devices : device[d] = "active"}
Owes(c) == /\ call[c].op = "update" /\ call[c].with = "active"
           /\ call[c].at \in {"refresh", "announce"}

GaugeInv ==
    faults = {} =>
        /\ IsFiniteSet(Active)
        /\ gauge \in Int
        /\ Cardinality(Active) <= gauge + 1
        /\ (\A c \in Calls : ~ Owes(c)) => Cardinality(Active) <= gauge

SequenceInv ==
    InSequence => OneCallInv /\ OnePendingInv /\ (\A c \in Calls : StillTrue(c)) /\ GaugeInv

LEMMA SequenceInvInit == DeviceInit => SequenceInv
<1> SUFFICES ASSUME DeviceInit  PROVE SequenceInv
  OBVIOUS
<1>1. /\ \A c \in Calls : call[c].at = "idle" /\ call[c].op = "none" /\ call[c].with = "none"
      /\ \A r \in Slots : request[r].status = "none"
      /\ \A d \in Devices : device[d] = "absent"
      /\ gauge = 0
  BY DEF DeviceInit, Idle, Unused, NoOne
<1>2. Active = {}
  BY <1>1 DEF Active
<1>3. GaugeInv
  BY <1>1, <1>2, FS_EmptySet DEF GaugeInv
<1> QED
  BY <1>1, <1>3 DEF SequenceInv, OneCallInv, OnePendingInv, IsPending, StillTrue, Resume

\* The call that takes a step is the only one there is.
LEMMA OneAtATime ==
    ASSUME DeviceInv, SequenceInv, InSequence, NEW c \in Calls, NEW k,
           MayBegin(c) \/ call[c].at # "idle",
           call' = [call EXCEPT ![c] = k]
    PROVE  /\ call'[c] = k
           /\ \A e \in Calls : e # c => call[e].at = "idle" /\ call'[e].at = "idle"
<1>1. DOMAIN call = Calls
  BY DEF DeviceInv, TableTypeOK
<1>2. \A e \in Calls : e # c => call[e].at = "idle"
  <2>1. CASE MayBegin(c)
    BY <2>1 DEF MayBegin, InSequence, Idle
  <2>2. CASE call[c].at # "idle"
    BY <2>2 DEF SequenceInv, OneCallInv
  <2> QED
    BY <2>1, <2>2
<1> QED
  BY <1>1, <1>2

\* It remains to look at the tables and at what that call has read.
LEMMA SequenceMoves ==
    ASSUME DeviceInv, SequenceInv, InSequence, NEW c \in Calls, NEW k,
           MayBegin(c) \/ call[c].at # "idle",
           call' = [call EXCEPT ![c] = k], faults' = faults,
           OnePendingInv', StillTrue(c)', GaugeInv'
    PROVE  SequenceInv'
<1>1. /\ call'[c] = k
      /\ \A e \in Calls : e # c => call[e].at = "idle" /\ call'[e].at = "idle"
  BY OneAtATime
<1>2. OneCallInv'
  BY <1>1 DEF OneCallInv
<1>3. \A e \in Calls : StillTrue(e)'
  BY <1>1 DEF StillTrue, Resume
<1> QED
  BY <1>2, <1>3 DEF SequenceInv

LEMMA GaugeKept ==
    ASSUME SequenceInv, InSequence, faults' = faults, gauge' = gauge,
           Active' \subseteq Active,
           \A c \in Calls : Owes(c) => Owes(c)'
    PROVE  GaugeInv'
<1> SUFFICES ASSUME faults = {}
             PROVE  /\ IsFiniteSet(Active') /\ gauge \in Int
                    /\ Cardinality(Active') <= gauge + 1
                    /\ (\A c \in Calls : ~ Owes(c)') => Cardinality(Active') <= gauge
  BY DEF GaugeInv
<1>1. /\ IsFiniteSet(Active) /\ gauge \in Int /\ Cardinality(Active) <= gauge + 1
      /\ (\A c \in Calls : ~ Owes(c)) => Cardinality(Active) <= gauge
  BY DEF SequenceInv, GaugeInv
<1>2. IsFiniteSet(Active') /\ Cardinality(Active') <= Cardinality(Active)
  BY <1>1, FS_Subset
<1>3. Cardinality(Active) \in Nat /\ Cardinality(Active') \in Nat
  BY <1>1, <1>2, FS_CardinalityType
<1>4. (\A c \in Calls : ~ Owes(c)') => Cardinality(Active) <= gauge
  BY <1>1
<1> QED
  BY <1>1, <1>2, <1>3, <1>4

\* Requests that are pending were pending before.
LEMMA PendingKept ==
    ASSUME SequenceInv, InSequence,
           \A r \in Slots, d \in Devices : IsPending(r, d)' => IsPending(r, d)
    PROVE  OnePendingInv'
BY DEF SequenceInv, OnePendingInv

-----------------------------------------------------------------------------
LEMMA SequenceInvReads ==
    ASSUME DeviceInv, SequenceInv, InSequence, NEW c \in Calls,
           \/ \E d \in Devices :
                 \/ \E s \in PutStatuses : ReadForUpdate(c, d, s)
                 \/ ReadForDelete(c, d) \/ ReadForRequest(c, d)
           \/ \E r \in Slots : ReadForApproval(c, r)
           \/ \E v \in Versions : ReadCatalog(c, v) \/ ReadForRollout(c, v)
           \/ RefreshUpdate(c) \/ CheckPending(c) \/ LockForApproval(c)
    PROVE  SequenceInv'
<1> USE DEF Continue, Finish, Resume
<1>1. /\ UNCHANGED <<device, request, gauge, faults>>
      /\ DOMAIN call = Calls /\ DOMAIN device = Devices
      /\ request \in [Slots -> [device : Devices \cup {NoOne},
                                status : {"none", "pending", "approved"}]]
  BY DEF ReadForUpdate, ReadForDelete, ReadForRequest, ReadForApproval, ReadCatalog,
     ReadForRollout, RefreshUpdate, CheckPending, LockForApproval, tables, DeviceInv, TableTypeOK
<1>2. MayBegin(c) \/ call[c].at # "idle"
  BY DEF ReadForUpdate, ReadForDelete, ReadForRequest, ReadForApproval, ReadCatalog,
     ReadForRollout, RefreshUpdate, CheckPending, LockForApproval
<1>3. PICK k : call' = [call EXCEPT ![c] = k]
  BY DEF ReadForUpdate, ReadForDelete, ReadForRequest, ReadForApproval, ReadCatalog,
     ReadForRollout, RefreshUpdate, CheckPending, LockForApproval
<1>4. /\ call'[c] = k
      /\ \A e \in Calls : e # c => call[e].at = "idle" /\ call'[e].at = "idle"
  BY <1>2, <1>3, OneAtATime
<1>5. StillTrue(c) /\ Active' = Active /\ OnePendingInv
  BY <1>1 DEF SequenceInv, Active
<1>6. OnePendingInv'
  BY <1>1, <1>5 DEF OnePendingInv, IsPending
\* A call that owes the gauge goes on to where it pays.
<1>7. StillTrue(c)' /\ (Owes(c) => Owes(c)')
  <2>1. CASE \E d \in Devices, s \in PutStatuses : ReadForUpdate(c, d, s)
    BY <1>1, <1>4, <2>1 DEF ReadForUpdate, StillTrue, Owes, MayBegin, Idle
  <2>2. CASE \E d \in Devices : ReadForDelete(c, d) \/ ReadForRequest(c, d)
    BY <1>1, <1>4, <2>2 DEF ReadForDelete, ReadForRequest, StillTrue, Owes, MayBegin, Idle
  <2>3. CASE \E r \in Slots : ReadForApproval(c, r)
    BY <1>1, <1>4, <2>3 DEF ReadForApproval, StillTrue, Owes, MayBegin, Idle
  <2>4. CASE \E v \in Versions : ReadCatalog(c, v) \/ ReadForRollout(c, v)
    BY <1>1, <1>4, <2>4 DEF ReadCatalog, ReadForRollout, StillTrue, Owes, MayBegin, Idle
  <2>5. CASE RefreshUpdate(c)
    <3>1. device[call[c].of] = call[c].with
      BY <1>5, <2>5 DEF RefreshUpdate, StillTrue
    <3>2. call'[c] = [op |-> "update", at |-> "announce", of |-> call[c].of, with |-> call[c].with]
      <4>1. CASE call[c].with = "active"
        BY <1>1, <2>5, <4>1 DEF RefreshUpdate
      <4>2. CASE call[c].with # "active"
        BY <1>1, <2>5, <3>1, <4>2 DEF RefreshUpdate
      <4> QED
        BY <4>1, <4>2
    <3> QED
      BY <3>2 DEF StillTrue, Owes
  <2>6. CASE CheckPending(c)
    <3>1. call[c].op = "request" /\ call[c].of \in Devices
      BY <2>6 DEF CheckPending, DeviceInv, CallGrounded
    <3>2. CASE Pending(call[c].of) = {}
      <4>1. call'[c] = [op |-> "request", at |-> "insert", of |-> call[c].of, with |-> NoOne]
        BY <1>1, <2>6, <3>2 DEF CheckPending
      <4>2. \A r \in Slots : ~ IsPending(r, call[c].of)
        BY <1>1, <3>2 DEF Pending, IsPending
      <4> QED
        BY <1>1, <3>1, <4>1, <4>2 DEF StillTrue, Owes, IsPending
    <3>3. CASE Pending(call[c].of) # {}
      BY <1>1, <2>6, <3>1, <3>3 DEF CheckPending, Idle, NoOne, StillTrue, Owes
    <3> QED
      BY <3>2, <3>3
  <2>7. CASE LockForApproval(c)
    <3>1. request[call[c].of].status = "pending" /\ call[c].op = "approve"
      BY <1>5, <2>7 DEF LockForApproval, StillTrue
    <3>2. call'[c] = [op |-> "approve", at |-> "commit", of |-> call[c].of,
                      with |-> device[request[call[c].of].device]]
      BY <1>1, <2>7 DEF LockForApproval
    <3> QED
      BY <1>1, <3>1, <3>2 DEF StillTrue, Owes
  <2> QED
    BY <2>1, <2>2, <2>3, <2>4, <2>5, <2>6, <2>7
<1>8. \A e \in Calls : Owes(e) => Owes(e)'
  BY <1>4, <1>7 DEF Owes
<1>9. GaugeInv'
  BY <1>1, <1>5, <1>8, GaugeKept
<1> QED
  BY <1>1, <1>2, <1>3, <1>6, <1>7, <1>9, SequenceMoves

LEMMA SequenceInvWrites ==
    ASSUME DeviceInv, SequenceInv, InSequence, NEW c \in Calls,
           \/ \E d \in Devices : CreateDevice(c, d)
           \/ WriteDelete(c) \/ InsertRequest(c) \/ CommitApproval(c)
           \/ InsertFirmware(c) \/ StoreRollout(c)
    PROVE  SequenceInv'
<1> USE DEF Continue, Finish, Resume
<1>1. /\ UNCHANGED <<gauge, faults>>
      /\ DOMAIN call = Calls /\ DOMAIN device = Devices
      /\ request \in [Slots -> [device : Devices \cup {NoOne},
                                status : {"none", "pending", "approved"}]]
  BY DEF CreateDevice, WriteDelete, InsertRequest, CommitApproval, InsertFirmware, StoreRollout,
     DeviceInv, TableTypeOK
<1>2. MayBegin(c) \/ call[c].at # "idle"
  BY DEF CreateDevice, WriteDelete, InsertRequest, CommitApproval, InsertFirmware, StoreRollout
<1>3. PICK k : /\ call' = [call EXCEPT ![c] = k]
               /\ k.at \in {"announce", "idle"}
  <2>1. CASE \E k : k.at = "announce" /\ call' = [call EXCEPT ![c] = k]
    BY <2>1
  <2>2. CASE Finish(c)
    <3>1. Idle.at = "idle"
      BY DEF Idle
    <3> QED
      BY <2>2, <3>1
  <2>3. ASSUME NEW op, NEW of, Continue(c, op, "announce", of, NoOne)
        PROVE  \E k : k.at = "announce" /\ call' = [call EXCEPT ![c] = k]
    <3>1. [op |-> op, at |-> "announce", of |-> of, with |-> NoOne].at = "announce"
      OBVIOUS
    <3> QED
      BY <2>3, <3>1
  <2> HIDE DEF Continue, Finish
  <2> QED
    BY <2>1, <2>2, <2>3
    DEF CreateDevice, WriteDelete, InsertRequest, CommitApproval, InsertFirmware, StoreRollout
<1>4. /\ call'[c] = k
      /\ \A e \in Calls : e # c => call[e].at = "idle" /\ call'[e].at = "idle"
  BY <1>2, <1>3, OneAtATime
<1>5. StillTrue(c) /\ OnePendingInv /\ CallGrounded(c)
  BY DEF SequenceInv, DeviceInv
<1>6. StillTrue(c)'
  BY <1>3, <1>4 DEF StillTrue
<1>7. \A e \in Calls : ~ Owes(e)
  BY <1>4 DEF Owes, CreateDevice, WriteDelete, InsertRequest, CommitApproval, InsertFirmware,
     StoreRollout, MayBegin, Idle
<1>8. Active' \subseteq Active
  BY <1>1 DEF Active, CreateDevice, WriteDelete, InsertRequest, CommitApproval, InsertFirmware,
     StoreRollout
<1>9. GaugeInv'
  BY <1>1, <1>7, <1>8, GaugeKept
<1>10. OnePendingInv'
  <2>1. CASE UNCHANGED request
    BY <2>1, PendingKept DEF IsPending
  <2>2. CASE CommitApproval(c)
    <3>1. PICK r0 \in Slots : r0 = call[c].of
      BY <1>5, <2>2 DEF CommitApproval, CallGrounded
    <3>2. request' = [request EXCEPT ![r0].status = "approved"]
      BY <2>2, <3>1 DEF CommitApproval
    <3>3. \A r \in Slots, d \in Devices : IsPending(r, d)' => IsPending(r, d)
      BY <1>1, <3>2 DEF IsPending
    <3> QED
      BY <3>3, PendingKept
  <2>3. CASE InsertRequest(c)
    <3>1. PICK d0 \in Devices : d0 = call[c].of /\ \A r \in Slots : ~ IsPending(r, d0)
      BY <1>5, <2>3 DEF InsertRequest, CallGrounded, StillTrue
    <3>2. PICK r0 \in Slots :
              request' = [request EXCEPT ![r0] = [device |-> d0, status |-> "pending"]]
      BY <2>3, <3>1 DEF InsertRequest
    <3>3. /\ request'[r0].device = d0
          /\ \A r \in Slots : r # r0 => request'[r] = request[r]
      BY <1>1, <3>2
    <3>4. ASSUME NEW d \in Devices, NEW r \in Slots, NEW s \in Slots,
                 IsPending(r, d)', IsPending(s, d)'
          PROVE  r = s
      <4>1. CASE d = d0
        BY <3>1, <3>3, <3>4, <4>1 DEF IsPending
      <4>2. CASE d # d0
        BY <1>5, <3>3, <3>4, <4>2 DEF IsPending, OnePendingInv
      <4> QED
        BY <4>1, <4>2
    <3> QED
      BY <3>4 DEF OnePendingInv
  <2> QED
    BY <2>1, <2>2, <2>3 DEF CreateDevice, WriteDelete, InsertFirmware, StoreRollout
<1> QED
  BY <1>1, <1>2, <1>3, <1>6, <1>9, <1>10, SequenceMoves

\* A PUT that activates a device, until it has counted it.
LEMMA SequenceInvUpdate ==
    ASSUME DeviceInv, SequenceInv, InSequence, NEW c \in Calls, WriteUpdate(c)
    PROVE  SequenceInv'
<1> USE DEF Continue, Resume
<1>1. /\ UNCHANGED <<request, gauge, faults>> /\ call[c].at = "write" /\ call[c].op = "update"
      /\ DOMAIN call = Calls /\ DOMAIN device = Devices
  BY DEF WriteUpdate, DeviceInv, TableTypeOK
<1>2. PICK d \in Devices : d = call[c].of
  BY <1>1 DEF DeviceInv, CallGrounded
<1>3. PICK s : s = call[c].with
  OBVIOUS
<1>4. /\ device' = [device EXCEPT ![d] = s]
      /\ call' = [call EXCEPT ![c] = [op |-> "update", at |-> "refresh", of |-> d, with |-> s]]
  BY <1>2, <1>3 DEF WriteUpdate
<1>5. /\ call'[c] = [op |-> "update", at |-> "refresh", of |-> d, with |-> s]
      /\ \A e \in Calls : e # c => call[e].at = "idle" /\ call'[e].at = "idle"
  BY <1>1, <1>4, OneAtATime
<1>6. StillTrue(c)'
  BY <1>1, <1>4, <1>5 DEF StillTrue
<1>7. OnePendingInv'
  BY <1>1, PendingKept DEF IsPending
<1>8. \A e \in Calls : ~ Owes(e)
  BY <1>1, <1>5 DEF Owes
<1>9. GaugeInv'
  <2>1. CASE s # "active"
    <3>1. Active' \subseteq Active
      BY <1>1, <1>4, <2>1 DEF Active
    <3> QED
      BY <1>1, <1>8, <3>1, GaugeKept
  <2>2. CASE s = "active"
    <3> SUFFICES ASSUME faults = {}
                 PROVE  /\ IsFiniteSet(Active') /\ gauge \in Int
                        /\ Cardinality(Active') <= gauge + 1 /\ Owes(c)'
      BY <1>1 DEF GaugeInv
    <3>1. IsFiniteSet(Active) /\ gauge \in Int /\ Cardinality(Active) <= gauge
      BY <1>8 DEF SequenceInv, GaugeInv
    <3>2. Active' \subseteq Active \cup {d}
      BY <1>1, <1>4 DEF Active
    <3>3. /\ IsFiniteSet(Active \cup {d})
          /\ Cardinality(Active \cup {d}) \in {Cardinality(Active), Cardinality(Active) + 1}
      BY <3>1, FS_AddElement
    <3>4. IsFiniteSet(Active') /\ Cardinality(Active') <= Cardinality(Active \cup {d})
      BY <3>2, <3>3, FS_Subset
    <3>5. Cardinality(Active) \in Nat /\ Cardinality(Active') \in Nat
      BY <3>1, <3>4, FS_CardinalityType
    <3>6. Cardinality(Active') <= gauge + 1
      BY <3>1, <3>3, <3>4, <3>5
    <3>7. Owes(c)'
      BY <1>5, <2>2 DEF Owes
    <3> QED
      BY <3>1, <3>4, <3>6, <3>7
  <2> QED
    BY <2>1, <2>2
<1> QED
  BY <1>1, <1>4, <1>6, <1>7, <1>9, SequenceMoves

LEMMA SequenceInvAnnounce ==
    ASSUME DeviceInv, SequenceInv, InSequence, NEW c \in Calls, Announce(c)
    PROVE  SequenceInv'
<1> USE DEF Finish
<1>1. /\ UNCHANGED <<request, device, faults>> /\ call[c].at # "idle"
      /\ call' = [call EXCEPT ![c] = Idle] /\ Idle.at = "idle"
      /\ call[c].at = "announce"
  BY DEF Announce, tables, SequenceInv, StillTrue, Idle
<1>2. /\ call'[c].at = "idle"
      /\ \A e \in Calls : e # c => call[e].at = "idle" /\ call'[e].at = "idle"
  BY <1>1, OneAtATime
<1>3. StillTrue(c)'
  BY <1>2 DEF StillTrue, Resume
<1>4. OnePendingInv'
  BY <1>1, PendingKept DEF IsPending
<1>5. GaugeInv'
  <2> SUFFICES ASSUME faults = {}
               PROVE  IsFiniteSet(Active) /\ gauge' \in Int /\ Cardinality(Active) <= gauge'
    <3>1. Active' = Active
      BY <1>1 DEF Active
    <3>2. \A n, m \in Int : n <= m => n <= m + 1
      OBVIOUS
    <3>3. IsFiniteSet(Active) => Cardinality(Active) \in Int
      BY FS_CardinalityType
    <3> QED
      BY <1>1, <3>1, <3>2, <3>3 DEF GaugeInv
  <2>1. /\ IsFiniteSet(Active) /\ gauge \in Int /\ Cardinality(Active) <= gauge + 1
        /\ (\A e \in Calls : ~ Owes(e)) => Cardinality(Active) <= gauge
    BY DEF SequenceInv, GaugeInv
  <2>2. CASE Owes(c)
    <3>1. gauge' = gauge + 1
      BY <1>1, <2>2 DEF Owes, Announce
    <3> QED
      BY <2>1, <3>1
  <2>3. CASE ~ Owes(c)
    <3>1. gauge' = gauge
      BY <1>1, <2>3 DEF Owes, Announce
    <3>2. \A e \in Calls : ~ Owes(e)
      BY <1>2, <2>3 DEF Owes
    <3> QED
      BY <2>1, <3>1, <3>2
  <2> QED
    BY <2>2, <2>3
<1> QED
  BY <1>1, <1>3, <1>4, <1>5, SequenceMoves

LEMMA SequenceInvNext ==
    ASSUME DeviceInv, SequenceInv, [DeviceNext]_deviceVars  PROVE SequenceInv'
<1> SUFFICES ASSUME InSequence'  PROVE SequenceInv'
  BY DEF SequenceInv
<1>1. faults' = faults
  BY DEF DeviceNext, deviceVars, tables, CreateDevice, ReadForUpdate, ReadForDelete, ReadForRequest,
     ReadForApproval, ReadCatalog, ReadForRollout, WriteUpdate, RefreshUpdate, WriteDelete,
     CheckPending, InsertRequest, LockForApproval, CommitApproval, InsertFirmware, StoreRollout,
     Announce, ExpireRollout, CrashManager
<1>2. InSequence
  BY <1>1 DEF InSequence
<1>3. ASSUME UNCHANGED <<device, request, gauge, call>>  PROVE SequenceInv'
  BY <1>1, <1>2, <1>3
  DEF SequenceInv, OneCallInv, OnePendingInv, IsPending, StillTrue, Resume, GaugeInv, Active, Owes
<1>4. CASE CrashManager
  <2>1. /\ \A c \in Calls : call'[c].at = "idle"
        /\ request' = request /\ faults' # {}
    BY <1>1, <1>4 DEF CrashManager, tables, Idle
  <2>2. OnePendingInv' /\ GaugeInv'
    BY <1>2, <2>1, PendingKept DEF IsPending, GaugeInv
  <2> QED
    BY <2>1, <2>2 DEF SequenceInv, OneCallInv, StillTrue, Resume
<1>5. CASE \E c \in Calls :
              \/ \E d \in Devices :
                    \/ CreateDevice(c, d)
                    \/ \E s \in PutStatuses : ReadForUpdate(c, d, s)
                    \/ ReadForDelete(c, d)
                    \/ ReadForRequest(c, d)
              \/ \E r \in Slots : ReadForApproval(c, r)
              \/ \E v \in Versions : ReadCatalog(c, v) \/ ReadForRollout(c, v)
              \/ WriteUpdate(c) \/ RefreshUpdate(c) \/ WriteDelete(c) \/ CheckPending(c)
              \/ InsertRequest(c) \/ LockForApproval(c) \/ CommitApproval(c)
              \/ InsertFirmware(c) \/ StoreRollout(c) \/ Announce(c)
  BY <1>2, <1>5, SequenceInvReads, SequenceInvWrites, SequenceInvUpdate, SequenceInvAnnounce
<1> QED
  BY <1>3, <1>4, <1>5 DEF DeviceNext, ExpireRollout, deviceVars, tables

THEOREM SequenceInvariance == DeviceSpec => [](DeviceInv /\ SequenceInv)
<1>1. DeviceInit => DeviceInv /\ SequenceInv
  BY InitEstablishesDeviceInv, SequenceInvInit
<1>2. DeviceInv /\ SequenceInv /\ [DeviceNext]_deviceVars => (DeviceInv /\ SequenceInv)'
  BY NextPreservesDeviceInv, SequenceInvNext
<1> QED
  BY <1>1, <1>2, PTL DEF DeviceSpec

(***************************************************************************)
(* As long as no two calls overlap, the checks that a call makes before it *)
(* writes keep a device from having two pending requests, and the gauge    *)
(* from falling behind the active devices while nothing fails.             *)
(***************************************************************************)
THEOREM ChecksAlwaysSuffice == DeviceSpec => []ChecksSufficeInSequence
<1>1. DeviceInv /\ SequenceInv => ChecksSufficeInSequence
  <2> SUFFICES ASSUME DeviceInv, SequenceInv, InSequence
               PROVE  /\ \A d \in Devices : Cardinality(Pending(d)) <= 1
                      /\ faults = {} /\ (\A c \in Calls : call[c] = Idle) =>
                             Cardinality({d \in Devices : device[d] = "active"}) <= gauge
    BY DEF ChecksSufficeInSequence, InSequence
  <2>1. ASSUME NEW d \in Devices  PROVE Cardinality(Pending(d)) <= 1
    <3>1. \A r \in Pending(d) : r \in Slots /\ IsPending(r, d)
      BY DEF Pending, IsPending
    <3>2. CASE Pending(d) = {}
      <4>1. Cardinality(Pending(d)) = 0
        BY <3>2, FS_EmptySet
      <4> QED
        BY <4>1
    <3>3. CASE Pending(d) # {}
      <4>1. PICK r \in Pending(d) : TRUE
        BY <3>3
      <4>2. Pending(d) = {r}
        BY <2>1, <3>1, <4>1 DEF SequenceInv, OnePendingInv
      <4>3. Cardinality(Pending(d)) = 1
        BY <4>2, FS_Singleton
      <4> QED
        BY <4>3
    <3> QED
      BY <3>2, <3>3
  <2>2. ASSUME faults = {}, \A c \in Calls : call[c] = Idle
        PROVE  Cardinality(Active) <= gauge
    <3>1. \A c \in Calls : ~ Owes(c)
      BY <2>2 DEF Owes, Idle
    <3> QED
      BY <2>2, <3>1 DEF SequenceInv, GaugeInv
  <2> QED
    BY <2>1, <2>2 DEF Active
<1> QED
  BY <1>1, SequenceInvariance, PTL

(***************************************************************************)
(* As long as no two calls overlap, nothing but the approval of a request  *)
(* left pending takes a device out of "decommissioned".                    *)
(***************************************************************************)
THEOREM OnlyApprovalsEverRevive == DeviceSpec => OnlyApprovalsRevive
<1>1. ASSUME DeviceInv, SequenceInv, [DeviceNext]_deviceVars, NEW d \in Devices,
             device[d] = "decommissioned", InSequence
      PROVE  device'[d] = "decommissioned" \/ (device'[d] = "provisioned" /\ Pending(d) # {})
  <2>1. DOMAIN device = Devices /\ \A c \in Calls : StillTrue(c) /\ CallGrounded(c)
    BY <1>1 DEF DeviceInv, TableTypeOK, SequenceInv
  <2>2. CASE UNCHANGED device
    BY <1>1, <2>2
  <2>3. ASSUME NEW c \in Calls, NEW x \in Devices, CreateDevice(c, x)
        PROVE  device'[d] = "decommissioned"
    BY <1>1, <2>1, <2>3 DEF CreateDevice
  <2>4. ASSUME NEW c \in Calls, WriteUpdate(c) \/ WriteDelete(c)
        PROVE  device'[d] = "decommissioned"
    BY <1>1, <2>1, <2>4 DEF WriteUpdate, WriteDelete, StillTrue, Resume
  <2>5. ASSUME NEW c \in Calls, CommitApproval(c)
        PROVE  device'[d] = "decommissioned" \/ (device'[d] = "provisioned" /\ Pending(d) # {})
    <3>1. PICK r \in Slots : r = call[c].of /\ request[r].status = "pending"
      BY <2>1, <2>5 DEF CommitApproval, CallGrounded, StillTrue, Resume
    <3>2. request[r] = [device |-> request[r].device, status |-> "pending"]
      BY <1>1, <3>1 DEF DeviceInv, TableTypeOK
    <3>3. CASE request[r].device = d
      <4>1. r \in Pending(d)
        BY <3>2, <3>3 DEF Pending
      <4> QED
        BY <1>1, <2>1, <2>5, <3>1, <3>3, <4>1 DEF CommitApproval
    <3>4. CASE request[r].device # d
      BY <1>1, <2>1, <2>5, <3>1, <3>4 DEF CommitApproval
    <3> QED
      BY <3>3, <3>4
  <2>6. CASE DeviceNext
    BY <2>2, <2>3, <2>4, <2>5, <2>6 DEF DeviceNext, ReadForUpdate, ReadForDelete, ReadForRequest,
     ReadForApproval, ReadCatalog, ReadForRollout, RefreshUpdate, CheckPending, InsertRequest,
     LockForApproval, InsertFirmware, StoreRollout, Announce, ExpireRollout,
     CrashManager, tables
  <2> QED
    BY <1>1, <2>2, <2>6 DEF deviceVars, tables
<1>2. DeviceInv /\ SequenceInv /\ [DeviceNext]_deviceVars
      => [\A d \in Devices :
              device[d] = "decommissioned" /\ "overlap" \notin faults =>
                  \/ device'[d] = "decommissioned"
                  \/ device'[d] = "provisioned" /\ Pending(d) # {}]_deviceVars
  BY <1>1 DEF InSequence
<1> QED
  BY <1>2, SequenceInvariance, PTL DEF DeviceSpec, OnlyApprovalsRevive

=============================================================================
