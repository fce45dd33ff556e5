---------------------------- MODULE DeletionJob ----------------------------
(***************************************************************************)
(* What the account-deletion job promises, without saying how: a durable   *)
(* job that is either running, frozen (failed) until an operator retries   *)
(* it, or done, and that is done only when nothing of what the account     *)
(* held at the moment of the request is left.  AccountDeletion implements  *)
(* it (admin/index.mjs, "Account deletion (rove#340)").                    *)
(***************************************************************************)
CONSTANT Things                 \* everything an account can own

VARIABLES state,                \* the marker's state
          left                  \* what existed at the request and still does

vars == <<state, left>>

Init == state = "none" /\ left = {}

(* Deletion is requested: whatever exists now has to go.                   *)
Start ==
    /\ state \in {"none", "done"}
    /\ state' = "running"
    /\ left' \in SUBSET Things

(* Something goes, by the job's hand or by the owner's.                    *)
Erase ==
    /\ left' \subseteq left
    /\ UNCHANGED state

(* A step the job cannot take freezes it; half-erased is never "done".     *)
Freeze ==
    /\ state = "running"
    /\ state' = "failed"
    /\ left' \subseteq left

Retry ==
    /\ state = "failed"
    /\ state' = "running"
    /\ UNCHANGED left

Finish ==
    /\ state = "running"
    /\ state' = "done"
    /\ left' = {}

Next == Start \/ Erase \/ Freeze \/ Retry \/ Finish

Spec == Init /\ [][Next]_vars
=============================================================================
