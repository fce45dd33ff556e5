------------------------- MODULE MCAccountDeletion -------------------------
(***************************************************************************)
(* Small instances of AccountDeletion.  The key range keeps the kv order   *)
(* of the real one (billing/ < instances/ < members/ < pending/ < plan).   *)
(***************************************************************************)
EXTENDS AccountDeletion, TLC

CONSTANTS t1, t2

MCTenantKey1 == (t1 :> 2)
MCTenantKey2 == (t1 :> 2) @@ (t2 :> 3)
MCForeign == {<<0, 2>>, <<1, 1>>}
=============================================================================
