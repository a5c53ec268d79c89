--------------------------- MODULE MCDeviceManager ---------------------------
(***************************************************************************)
(* Model values and fault sets for the run of DeviceManager.  Calls about  *)
(* devices and calls about firmware share no table, so the order of one's  *)
(* steps against another's matters to no property: a behaviour makes calls *)
(* of one kind.                                                            *)
(***************************************************************************)
EXTENDS DeviceManager, TLC

CONSTANTS c1, c2, d1, d2, v1, v2, i1, i2

VARIABLE subject    \* what the calls of a behaviour are about; fixed

TwoCalls    == {c1, c2}
TwoDevices  == {d1, d2}
TwoVersions == {v1, v2}
TwoRollouts == {i1, i2}
Symmetry    == UNION {Permutations(S) : S \in {TwoCalls, TwoDevices, TwoVersions, TwoRollouts}}

AnyFailure  == {DeviceDisruptions, {"crash", "redis"}, {}}

Operations == [devices  |-> {"create", "update", "delete", "request", "approve"},
               firmware |-> {"register", "rollout"}]

Init == DeviceInit /\ subject \in DOMAIN Operations

Next ==
    /\ DeviceNext
    /\ \A c \in Calls : call'[c].op \in Operations[subject] \cup {NoOne}
    /\ UNCHANGED subject

Spec == Init /\ [][Next]_<<deviceVars, subject>>

=============================================================================
