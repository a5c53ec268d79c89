-------------------------- MODULE ReadingLifecycle --------------------------
(***************************************************************************)
(* What the persistence pipeline promises about each reading, whichever    *)
(* worker handles it, however many run and whatever fails: a reading that  *)
(* entered the stream is delivered once, is acknowledged only once it is   *)
(* stored, is discarded only when it cannot be parsed, and is lost only    *)
(* by trimming before delivery.                                            *)
(***************************************************************************)
CONSTANTS Readings

VARIABLE status   \* [Readings -> Status]

Status == {"absent", "queued", "delivered", "stored",
           "acked", "discarded", "trimmed"}

Moves == {<<"absent", "queued">>,
          <<"queued", "delivered">>, <<"queued", "trimmed">>,
          <<"delivered", "stored">>, <<"delivered", "discarded">>,
          <<"stored", "acked">>}

Init == status = [r \in Readings |-> "absent"]

Next ==
    /\ status' \in [Readings -> Status]
    /\ \A r \in Readings :
          status'[r] = status[r] \/ <<status[r], status'[r]>> \in Moves

Spec == Init /\ [][Next]_status

=============================================================================
