---------------------------- MODULE DeviceManager ----------------------------
(***************************************************************************)
(* device-manager: HTTP calls that read and write the tables of devices,   *)
(* of provisioning requests and of firmware versions at READ COMMITTED,    *)
(* and announce what they did on the stream device_events; of the latter,  *)
(* which nothing in the repository reads, only rollouts are kept here.     *)
(*                                                                         *)
(* A step of a call is what it does between two awaits that others may     *)
(* slip into.  A statement and the COMMIT that follows it are one step:    *)
(* until the commit others see the old row, and who writes it waits.  An   *)
(* error after the commit answers 500 and takes nothing back.              *)
(***************************************************************************)
EXTENDS Integers, FiniteSets

CONSTANTS
    Devices,       \* device ids
    Calls,         \* HTTP calls in progress at a time
    Versions,      \* firmware versions, of one device type
    Slots,         \* bound of the model: provisioning requests ever made
    PutStatuses,   \* statuses a PUT asks for
    RolloutIds,    \* bound of the model: rollouts ever started
    MaxGauge,      \* bound of the model: the gauge at which PUTs end
    Scenarios      \* sets of disruptions; a behaviour meets those of one

\* "overlap": a call begins before another one has ended; "crash": the service
\* stops in the middle of its calls; "redis": an operation on Redis fails.
DeviceDisruptions == {"overlap", "crash", "redis"}

NoOne == "none"
Statuses == {"registered", "provisioned", "active", "inactive", "decommissioned"}

ASSUME DeviceAssumption ==
    /\ MaxGauge \in Nat
    /\ PutStatuses \subseteq Statuses
    /\ Scenarios \subseteq SUBSET DeviceDisruptions

VARIABLES
    device,     \* status of each row of devices, "absent" before its insert
    request,    \* provisioning requests: of which device, in which status
    catalog,    \* rows of firmware_versions, per version
    rollout,    \* rollouts: of which version, what became of the record in Redis
    announced,  \* rollouts that device_events announces
    gauge,      \* ACTIVE_DEVICES
    call,       \* each call: operation, where it is, its subject, what it read
    faults      \* what this environment may do besides working; fixed

tables == <<device, request, catalog, rollout>>
deviceVars == <<tables, announced, gauge, call, faults>>

Idle == [op |-> NoOne, at |-> "idle", of |-> NoOne, with |-> NoOne]
Unused == [device |-> NoOne, status |-> "none"]
NoRollout == [of |-> NoOne, record |-> "none"]

DeviceInit ==
    /\ device = [d \in Devices |-> "absent"]
    /\ request = [r \in Slots |-> Unused]
    /\ catalog = [v \in Versions |-> 0]
    /\ rollout = [i \in RolloutIds |-> NoRollout]
    /\ announced = {}
    /\ gauge = 0
    /\ call = [c \in Calls |-> Idle]
    /\ faults \in Scenarios

Pending(d)  == {r \in Slots : request[r] = [device |-> d, status |-> "pending"]}
MayBegin(c) == /\ call[c] = Idle
               /\ "overlap" \in faults \/ \A other \in Calls : call[other] = Idle

\* The call goes on to `at`; Finish answers it, whatever the status code.
Continue(c, op, at, of, with) ==
    call' = [call EXCEPT ![c] = [op |-> op, at |-> at, of |-> of, with |-> with]]
Finish(c) == call' = [call EXCEPT ![c] = Idle]
Resume(c, op, at) == call[c].op = op /\ call[c].at = at

(***************************************************************************)
(* POST /devices, PUT /devices/{id}, DELETE /devices/{id}                  *)
(***************************************************************************)
CreateDevice(c, d) ==
    /\ MayBegin(c)
    /\ device[d] = "absent"
    /\ device' = [device EXCEPT ![d] = "registered"]
    /\ Continue(c, "create", "announce", d, NoOne)
    /\ UNCHANGED <<request, catalog, rollout, announced, gauge, faults>>

\* Fault: decommissioned devices are not refused.
ReadForUpdate_anyStatus(c, d, s) ==
    /\ MayBegin(c)
    /\ gauge \in -MaxGauge..MaxGauge
    /\ device[d] # "absent"
    /\ Continue(c, "update", "write", d, s)
    /\ UNCHANGED <<tables, announced, gauge, faults>>

\* Refused for a device that is absent or decommissioned.
ReadForUpdate(c, d, s) ==
    /\ MayBegin(c)
    /\ gauge \in -MaxGauge..MaxGauge
    /\ device[d] \notin {"absent", "decommissioned"}
    /\ Continue(c, "update", "write", d, s)
    /\ UNCHANGED <<tables, announced, gauge, faults>>

\* The UPDATE names the id alone: it does not look at the status again.
WriteUpdate(c) ==
    /\ Resume(c, "update", "write")
    /\ device' = [device EXCEPT ![call[c].of] = call[c].with]
    /\ Continue(c, "update", "refresh", call[c].of, call[c].with)
    /\ UNCHANGED <<request, catalog, rollout, announced, gauge, faults>>

\* session.refresh: `existing` and `device` are one object, so the status it
\* is compared with below is the one read here, after the update.
RefreshUpdate(c) ==
    /\ Resume(c, "update", "refresh")
    /\ Continue(c, "update",
                IF call[c].with = "active" \/ device[call[c].of] # "active"
                THEN "announce" ELSE "announce_left",
                call[c].of, call[c].with)
    /\ UNCHANGED <<tables, announced, gauge, faults>>

ReadForDelete(c, d) ==
    /\ MayBegin(c)
    /\ device[d] \notin {"absent", "active", "decommissioned"}
    /\ Continue(c, "delete", "write", d, NoOne)
    /\ UNCHANGED <<tables, announced, gauge, faults>>

WriteDelete(c) ==
    /\ Resume(c, "delete", "write")
    /\ device' = [device EXCEPT ![call[c].of] = "decommissioned"]
    /\ Continue(c, "delete", "announce", call[c].of, NoOne)
    /\ UNCHANGED <<request, catalog, rollout, announced, gauge, faults>>

(***************************************************************************)
(* POST /provisioning/request, POST /provisioning/approve/{id}             *)
(***************************************************************************)
ReadForRequest(c, d) ==
    /\ MayBegin(c)
    /\ device[d] = "registered"
    /\ Continue(c, "request", "check", d, NoOne)
    /\ UNCHANGED <<tables, announced, gauge, faults>>

\* Fault: pending requests are not looked for.
CheckPending_unread(c) ==
    /\ Resume(c, "request", "check")
    /\ Continue(c, "request", "insert", call[c].of, NoOne)
    /\ UNCHANGED <<tables, announced, gauge, faults>>

\* One pending request is answered 409, several raise MultipleResultsFound.
CheckPending(c) ==
    /\ Resume(c, "request", "check")
    /\ IF Pending(call[c].of) = {}
       THEN Continue(c, "request", "insert", call[c].of, NoOne)
       ELSE Finish(c)
    /\ UNCHANGED <<tables, announced, gauge, faults>>

InsertRequest(c) ==
    /\ Resume(c, "request", "insert")
    /\ \E r \in Slots :
           /\ request[r] = Unused
           /\ request' = [request EXCEPT ![r] =
                  [device |-> call[c].of, status |-> "pending"]]
    /\ Continue(c, "request", "announce", call[c].of, NoOne)
    /\ UNCHANGED <<device, catalog, rollout, announced, gauge, faults>>

ReadForApproval(c, r) ==
    /\ MayBegin(c)
    /\ request[r].status = "pending"
    /\ Continue(c, "approve", "lock", r, NoOne)
    /\ UNCHANGED <<tables, announced, gauge, faults>>

\* Selecting the device flushes the update of the request, which another
\* approval's uncommitted one makes wait; then the device's status is read.
LockForApproval(c) ==
    /\ Resume(c, "approve", "lock")
    /\ \A other \in Calls : Resume(other, "approve", "commit") => call[other].of # call[c].of
    /\ Continue(c, "approve", "commit", call[c].of, device[request[call[c].of].device])
    /\ UNCHANGED <<tables, announced, gauge, faults>>

\* Fault: request and device are committed one after the other.
CommitApproval_twice(c) ==
    LET r == call[c].of
        d == request[r].device
    IN  /\ Resume(c, "approve", "commit")
        /\ IF request[r].status = "pending"
           THEN /\ request' = [request EXCEPT ![r].status = "approved"]
                /\ UNCHANGED <<device, call>>
           ELSE /\ device' = [device EXCEPT ![d] = "provisioned"]
                /\ Continue(c, "approve", "announce", r, NoOne)
                /\ UNCHANGED request
        /\ UNCHANGED <<catalog, rollout, announced, gauge, faults>>

\* Whatever the status of the device is by now; an unchanged one is not written.
CommitApproval(c) ==
    LET r == call[c].of
        d == request[r].device
    IN  /\ Resume(c, "approve", "commit")
        /\ request' = [request EXCEPT ![r].status = "approved"]
        /\ device' = [device EXCEPT ![d] =
               IF call[c].with = "provisioned" THEN @ ELSE "provisioned"]
        /\ Continue(c, "approve", "announce", r, NoOne)
        /\ UNCHANGED <<catalog, rollout, announced, gauge, faults>>

(***************************************************************************)
(* POST /firmware, POST /firmware/rollout                                  *)
(***************************************************************************)
ReadCatalog(c, v) ==
    /\ MayBegin(c)
    /\ catalog[v] = 0
    /\ Continue(c, "register", "insert", v, NoOne)
    /\ UNCHANGED <<tables, announced, gauge, faults>>

\* The index is unique: the second of two inserts raises IntegrityError.
InsertFirmware(c) ==
    /\ Resume(c, "register", "insert")
    /\ catalog' = [catalog EXCEPT ![call[c].of] = IF @ = 0 THEN 1 ELSE @]
    /\ Finish(c)
    /\ UNCHANGED <<device, request, rollout, announced, gauge, faults>>

ReadForRollout(c, v) ==
    /\ MayBegin(c)
    /\ catalog[v] > 0
    /\ Continue(c, "rollout", "store", v, NoOne)
    /\ UNCHANGED <<tables, announced, gauge, faults>>

Stored(i, v) == [rollout EXCEPT ![i] = [of |-> v, record |-> "kept"]]

\* Fault: a failed SET is not an error.
StoreRollout_skipped(c) ==
    \E i \in RolloutIds :
        /\ rollout[i] = NoRollout
        /\ Resume(c, "rollout", "store")
        /\ \/ rollout' = Stored(i, call[c].of)
           \/ "redis" \in faults /\ UNCHANGED rollout
        /\ Continue(c, "rollout", "announce", i, NoOne)
        /\ UNCHANGED <<device, request, catalog, announced, gauge, faults>>

\* The record under an id drawn for it; a failed SET may be one whose reply
\* was lost, the caller is answered 500 either way.
StoreRollout(c) ==
    \E i \in RolloutIds :
        /\ rollout[i] = NoRollout
        /\ Resume(c, "rollout", "store")
        /\ \/ /\ rollout' = Stored(i, call[c].of)
              /\ Continue(c, "rollout", "announce", i, NoOne)
           \/ /\ "redis" \in faults
              /\ rollout' \in {rollout, Stored(i, call[c].of)}
              /\ Finish(c)
        /\ UNCHANGED <<device, request, catalog, announced, gauge, faults>>

\* A day after its SET a record is gone, the event that names it is not.
ExpireRollout(i) ==
    /\ rollout[i].record = "kept"
    /\ rollout' = [rollout EXCEPT ![i].record = "expired"]
    /\ UNCHANGED <<device, request, catalog, announced, gauge, call, faults>>

(***************************************************************************)
(* The end of a call that changed something: the event, and the gauge when *)
(* a PUT named a status.  When the XADD raises, with or without the event  *)
(* in the stream, the gauge is left alone.                                 *)
(***************************************************************************)
Announcing(c) ==
    IF call[c].op = "rollout" THEN announced \cup {call[c].of} ELSE announced

Announce(c) ==
    /\ call[c].at \in {"announce", "announce_left"}
    /\ \/ /\ announced' = Announcing(c)
          /\ gauge' = CASE call[c].with = "active" /\ call[c].op = "update" -> gauge + 1
                        [] call[c].at = "announce_left"                    -> gauge - 1
                        [] OTHER                                           -> gauge
       \/ /\ "redis" \in faults
          /\ announced' \in {announced, Announcing(c)}
          /\ UNCHANGED gauge
    /\ Finish(c)
    /\ UNCHANGED <<tables, faults>>

\* What was committed or stored stays; the gauge starts over.
CrashManager ==
    /\ "crash" \in faults
    /\ call' = [c \in Calls |-> Idle]
    /\ gauge' = 0
    /\ UNCHANGED <<tables, announced, faults>>

DeviceNext ==
    \/ \E c \in Calls :
        \/ \E d \in Devices :
               \/ CreateDevice(c, d)
               \/ \E s \in PutStatuses : ReadForUpdate(c, d, s)
               \/ ReadForDelete(c, d)
               \/ ReadForRequest(c, d)
        \/ \E r \in Slots : ReadForApproval(c, r)
        \/ \E v \in Versions : ReadCatalog(c, v) \/ ReadForRollout(c, v)
        \/ WriteUpdate(c)
        \/ RefreshUpdate(c)
        \/ WriteDelete(c)
        \/ CheckPending(c)
        \/ InsertRequest(c)
        \/ LockForApproval(c)
        \/ CommitApproval(c)
        \/ InsertFirmware(c)
        \/ StoreRollout(c)
        \/ Announce(c)
    \/ \E i \in RolloutIds : ExpireRollout(i)
    \/ CrashManager

DeviceSpec == DeviceInit /\ [][DeviceNext]_deviceVars

-----------------------------------------------------------------------------
(***************************************************************************)
(* What it must do.                                                        *)
(***************************************************************************)

\* An approved request and its device change in one commit: no crash and no
\* other call leaves the device of an approved request registered (PutStatuses
\* without "registered").
ApprovalIsWhole ==
    \A r \in Slots :
        request[r].status = "approved" => device[request[r].device] # "registered"

\* A rollout is announced in device_events only after its record was stored:
\* who reads the event finds the record until that expires, a day after its
\* SET.  And its version is in the catalog, in one row, although two
\* registrations of a version may both have found it free.
AnnouncedRolloutsAreRecorded ==
    /\ \A i \in announced : rollout[i].record \in {"kept", "expired"}
    /\ \A v \in Versions : catalog[v] \in {0, 1}
    /\ \A i \in RolloutIds : rollout[i].record # "none" => catalog[rollout[i].of] = 1

\* Without overlapping calls the checks suffice: one pending request at most
\* per device, and no more active devices than the gauge counts while nothing
\* fails (it counts too many: no PUT takes one away).
ChecksSufficeInSequence ==
    "overlap" \notin faults =>
        /\ \A d \in Devices : Cardinality(Pending(d)) <= 1
        /\ faults = {} /\ (\A c \in Calls : call[c] = Idle) =>
               Cardinality({d \in Devices : device[d] = "active"}) <= gauge

\* update_device: "Cannot update a decommissioned device."  Without overlapping
\* calls only the approval of a request that was left pending revives one.
OnlyApprovalsRevive ==
    [][\A d \in Devices :
           device[d] = "decommissioned" /\ "overlap" \notin faults =>
               \/ device'[d] = "decommissioned"
               \/ device'[d] = "provisioned" /\ Pending(d) # {}]_deviceVars

=============================================================================
