---------------------------- MODULE AtLeastOnce ----------------------------
(***************************************************************************)
(* What the dispatcher promises the platform for each callback, with no    *)
(* files, processes or retries: once a callback is promised, the promise   *)
(* stands until it is discharged, and a discharge is final.                *)
(***************************************************************************)
CONSTANT Requests

VARIABLE status     \* what the platform may rely on for each request

Init == status = [r \in Requests |-> "none"]

\* A 200 for a callback that is on disk.  A retransmission of a callback that
\* was served already is promised and discharged at once.
Promise(r) ==
    /\ status[r] = "none"
    /\ \E s \in {"promised", "discharged"} : status' = [status EXCEPT ![r] = s]

\* All targets tried, or the callback set aside in dead-letter.  One step may
\* discharge several requests: those that carry the same message.
Discharge(S) ==
    /\ \A r \in S : status[r] = "promised"
    /\ status' = [r \in Requests |-> IF r \in S THEN "discharged" ELSE status[r]]

Next ==
    \/ \E r \in Requests : Promise(r)
    \/ \E S \in SUBSET Requests : Discharge(S)

Spec == Init /\ [][Next]_status
=============================================================================
