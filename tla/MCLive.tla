------------------------------- MODULE MCLive -------------------------------
(***************************************************************************)
(* What must eventually happen: the account deletion job, the durable       *)
(* sends it is built on, and the parked dispatches of the admin instance.   *)
(* The three share no state, so each behaviour exercises one of them, its   *)
(* subject, while the others rest; fairness is that of all three, and none  *)
(* of their fair actions is enabled at rest.                                *)
(***************************************************************************)
EXTENDS AccountDeletion, Sends, Dispatch, TLC

CONSTANTS t1, t2

MCTenantKey2 == (t1 :> 2) @@ (t2 :> 3)
MCForeign == {<<0, 2>>, <<1, 1>>}

VARIABLE subject

liveVars == <<subject, vars, sendsVars, dispatchVars>>

LiveInit ==
    /\ subject \in {"deletion", "sends", "dispatch"}
    /\ Init /\ (subject # "deletion" => ~isTeam /\ live = {} /\ stripe = "none")
    /\ SendsInit /\ (subject # "sends" => build = CHOOSE b \in Builds : TRUE)
    /\ DispatchInit

LiveNext ==
    /\ UNCHANGED subject
    /\ \/ subject = "deletion" /\ Next /\ UNCHANGED <<sendsVars, dispatchVars>>
       \/ subject = "sends" /\ SendsNext /\ UNCHANGED <<vars, dispatchVars>>
       \/ subject = "dispatch" /\ DispatchNext /\ UNCHANGED <<vars, sendsVars>>

LiveSpec ==
    /\ LiveInit /\ [][LiveNext]_liveVars
    /\ Fairness /\ SendsFairness /\ DispatchFairness
=============================================================================
