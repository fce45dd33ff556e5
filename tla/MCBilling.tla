------------------------------ MODULE MCBilling -----------------------------
(***************************************************************************)
(* Small instances of billing and of the guards in front of its subscribe   *)
(* route.  The guards keep their windows apart from the plan rows, so each  *)
(* behaviour exercises one of the two, its subject, while the other rests.  *)
(* Slots, tiers, tenants and cards are interchangeable.                     *)
(***************************************************************************)
EXTENDS Billing, BillingGuards, TLC

VARIABLE subject

accountVars == <<subject, vars, guardVars>>

AccountNext ==
    /\ UNCHANGED subject
    /\ \/ subject = "plan" /\ Next /\ UNCHANGED guardVars
       \/ subject = "guards" /\ GuardsNext /\ UNCHANGED vars

AccountInit == subject \in {"plan", "guards"} /\ Init /\ GuardsInit

AccountSpec == AccountInit /\ [][AccountNext]_accountVars

Symmetry == Permutations(Slots) \cup Permutations(Tiers) \cup Permutations(Tenants) \cup Permutations(Cards)
=============================================================================
