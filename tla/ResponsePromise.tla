--------------------------- MODULE ResponsePromise ---------------------------
(***************************************************************************)
(* What the transaction worker of the third nonce handler promises to the  *)
(* callers of AddTransaction, with no queue, no channels and no goroutine: *)
(* every request is answered exactly once, either with what the proxy      *)
(* answered ("done"), or at once because it is refused ("rejected"), or    *)
(* because the worker was closed while it was waiting ("cancelled").       *)
(* Closing answers everybody who waits and nobody may wait afterwards.     *)
(***************************************************************************)
CONSTANT Requests

VARIABLES status, open

pvars == <<status, open>>

Statuses == {"idle", "waiting", "done", "rejected", "cancelled"}

PInit ==
    /\ status = [r \in Requests |-> "idle"]
    /\ open = TRUE

Submit(r) ==
    /\ open
    /\ status[r] = "idle"
    /\ status' = [status EXCEPT ![r] = "waiting"]
    /\ UNCHANGED open

Reject(r) ==
    /\ status[r] = "idle"
    /\ status' = [status EXCEPT ![r] = "rejected"]
    /\ UNCHANGED open

Complete(r) ==
    /\ open
    /\ status[r] = "waiting"
    /\ status' = [status EXCEPT ![r] = "done"]
    /\ UNCHANGED open

Shut ==
    /\ open
    /\ open' = FALSE
    /\ status' = [r \in Requests |->
                    IF status[r] = "waiting" THEN "cancelled" ELSE status[r]]

PNext ==
    \/ \E r \in Requests : Submit(r) \/ Reject(r) \/ Complete(r)
    \/ Shut

PSafety == PInit /\ [][PNext]_pvars

\* whoever waits gets an answer: its own, or the one of the close
Answer(r) == Complete(r) \/ (status[r] = "waiting" /\ Shut)

PSpec == PSafety /\ \A r \in Requests : WF_pvars(Answer(r))
=============================================================================
