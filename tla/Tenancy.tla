------------------------------- MODULE Tenancy -------------------------------
(***************************************************************************)
(* Who owns a tenant (admin/index.mjs: deleteInstance, canAccess,          *)
(* bindIncarnations, provisionInstance and their continuations; the        *)
(* callback of the account-deletion job).  Names are reused: a name is     *)
(* served under a fresh incarnation each time it is formed, so the rows    *)
(* the dashboard keeps by name may describe an earlier lifetime than the   *)
(* one the cluster serves.                                                 *)
(*                                                                         *)
(* The dashboard decides, a control-plane call is held, and the            *)
(* continuation writes the rows when the answer is handled.  A call is in  *)
(* one of a few slots, so answers arrive in any order, any time later, and *)
(* around the operator's own control-plane calls, which never reach this   *)
(* app.                                                                    *)
(***************************************************************************)
EXTENDS Naturals, FiniteSets

CONSTANTS
    Accounts, Names,
    None,               \* nobody, or no such row
    Slots,              \* bound: calls in flight at a time
    MaxInc,             \* bound: lifetimes formed
    MaxInstances,       \* max_instances of the accounts' plan
    CpNamesIncarnation, \* the CP's reply names the incarnation (a current CP)
    Jobs                \* accounts may be deleted

Incs == 1..MaxInc

ASSUME TenancyAssumption ==
    /\ None \notin Accounts /\ None \notin Names
    /\ MaxInc \in Nat /\ MaxInstances \in Nat
    /\ CpNamesIncarnation \in BOOLEAN /\ Jobs \in BOOLEAN

VARIABLES
    rows,       \* account/{aid}/instances/{name}, as pairs
    owner,      \* instance/{name}/owner
    bound,      \* instance/{name}/incarnation, 0 for no row
    served,     \* the incarnation the cluster serves for a name, 0 for none
    born,       \* history: the account an incarnation was formed for
    formed,     \* how many incarnations were formed
    call        \* what is in each slot

vars == <<rows, owner, bound, served, born, formed, call>>
kv   == <<rows, owner, bound>>
cp   == <<served, born, formed>>

Idle == [kind |-> "none", acct |-> None, name |-> None, st |-> "none", inc |-> 0]

(* ownedInstances.                                                         *)
Owned(a) == {n \in Names : <<a, n>> \in rows}

(* canAccess, for a member of account a: the owner row grants nothing      *)
(* unless the incarnation beside it is the one being served.               *)
CanAccessByName(a, n) == owner[n] = a /\ served[n] # 0  \* mutant: the name is the identity
CanAccess(a, n) ==
    /\ owner[n] = a
    /\ bound[n] # 0 /\ bound[n] = served[n]

Issue(c, kind, a, n) ==
    /\ call[c] = Idle
    /\ call' = [call EXCEPT ![c] = [Idle EXCEPT !.kind = kind, !.acct = a, !.name = n,
                                                !.st = "sent"]]

Answer(c, st, inc) == call' = [call EXCEPT ![c] = [@ EXCEPT !.st = st, !.inc = inc]]
Handled(c) == call' = [call EXCEPT ![c] = Idle]

(* The cluster forms n for account a under a fresh incarnation.            *)
Form(n, a) ==
    /\ served[n] = 0 /\ formed < MaxInc
    /\ formed' = formed + 1
    /\ served' = [served EXCEPT ![n] = formed + 1]
    /\ born' = [born EXCEPT ![formed + 1] = a]

TearDown(n) ==
    /\ served' = [served EXCEPT ![n] = 0]
    /\ UNCHANGED <<born, formed>>

-----------------------------------------------------------------------------
(* provisionInstance by a member of a.                                     *)
UnderLimit(a) == Cardinality(Owned(a)) < MaxInstances

StartProvision(c, a, n) ==
    /\ UnderLimit(a)
    /\ Issue(c, "provision", a, n)
    /\ UNCHANGED <<kv, cp>>

CpProvision(c) ==
    /\ call[c].kind = "provision" /\ call[c].st = "sent"
    /\ \/ /\ Form(call[c].name, call[c].acct)
          /\ Answer(c, "ok", IF CpNamesIncarnation THEN formed + 1 ELSE 0)
       \/ /\ Answer(c, "refused", 0)
          /\ UNCHANGED cp
    /\ UNCHANGED kv

(* The incarnation onProvisioned binds: the one the reply names, else what *)
(* the engine says, which may be that the name does not resolve yet.       *)
BindingNext(c) == {call[c].inc + 1}                 \* mutant: one lifetime too far
Binding(c) == IF call[c].inc # 0 THEN {call[c].inc} ELSE {served[call[c].name], 0}

(* onProvisioned.  An owner row of somebody else is of an earlier lifetime *)
(* and that account's listing of the name is dropped.                      *)
KeepsListing(a, n) == {}                        \* mutant: the old listing stays
Superseded(a, n) == IF owner[n] # a THEN {<<owner[n], n>>} ELSE {}

OnProvisioned(c) ==
    /\ call[c].kind = "provision" /\ call[c].st \in {"ok", "refused"}
    /\ Handled(c)
    /\ LET a == call[c].acct
           n == call[c].name
       IN  \/ /\ call[c].st = "ok"
              /\ rows' = (rows \ Superseded(a, n)) \cup {<<a, n>>}
              /\ owner' = [owner EXCEPT ![n] = a]
              /\ \E i \in Binding(c) : bound' = [bound EXCEPT ![n] = i]
           \/ /\ call[c].st = "refused"
              /\ UNCHANGED kv
    /\ UNCHANGED cp

(* deleteInstance, behind the tenant route class: a member of a, or an     *)
(* operator, for nobody.                                                   *)
StartDelete(c, a, n) ==
    /\ CanAccess(a, n) \/ a = None
    /\ Issue(c, "delete", a, n)
    /\ UNCHANGED <<kv, cp>>

(* The account-deletion job of a sends a durable delete of what a owns.    *)
StartJobDelete(c, a, n) ==
    /\ Jobs
    /\ n \in Owned(a)
    /\ Issue(c, "job", a, n)
    /\ UNCHANGED <<kv, cp>>

(* The CP takes down whatever the name serves.  The answer to a durable    *)
(* send may be lost, and the send is tried again.                          *)
CpDelete(c) ==
    /\ call[c].kind \in {"delete", "job"} /\ call[c].st = "sent"
    /\ \/ /\ served[call[c].name] # 0 \/ call[c].kind = "job"
          /\ TearDown(call[c].name)
          /\ \/ Answer(c, "ok", 0)
             \/ call[c].kind = "job" /\ UNCHANGED call
       \/ /\ Answer(c, "refused", 0)
          /\ UNCHANGED cp
    /\ UNCHANGED kv

PointerStays(n) == owner' = owner                   \* mutant: the owner row stays
DropPointer(n) == owner' = [owner EXCEPT ![n] = None]
BindingStays(n) == bound' = bound                   \* mutant: the incarnation row stays
DropBinding(n) == bound' = [bound EXCEPT ![n] = 0]

(* onDeprovisioned: the rows go through the owner pointer, whoever that is *)
(* by now, and only when the CP said 204.                                  *)
OnDeprovisioned(c) ==
    /\ call[c].kind = "delete" /\ call[c].st \in {"ok", "refused"}
    /\ Handled(c)
    /\ LET n == call[c].name
       IN  \/ /\ call[c].st = "ok"
              /\ rows' = rows \ {<<owner[n], n>>}
              /\ DropPointer(n)
              /\ DropBinding(n)
           \/ /\ call[c].st = "refused"
              /\ UNCHANGED kv
    /\ UNCHANGED cp

(* onAcctdelCpDelete: the account's own row, and the pointers of the name. *)
OnAcctdelCpDelete(c) ==
    /\ call[c].kind = "job" /\ call[c].st \in {"ok", "refused"}
    /\ Handled(c)
    /\ LET n == call[c].name
       IN  \/ /\ call[c].st = "ok"
              /\ rows' = rows \ {<<call[c].acct, n>>}
              /\ DropPointer(n)
              /\ DropBinding(n)
           \/ /\ call[c].st = "refused"
              /\ UNCHANGED kv
    /\ UNCHANGED cp

(* backfillSelf and backfillAccountInstances: a listed tenant without an   *)
(* owner pointer gets one; its incarnation row is left alone.              *)
Unpointed(a) == {n \in Owned(a) : owner[n] = None}

Backfill(a) ==
    /\ Unpointed(a) # {}
    /\ owner' = [n \in Names |-> IF n \in Unpointed(a) THEN a ELSE owner[n]]
    /\ UNCHANGED <<rows, bound, cp, call>>

(* bindIncarnations by an operator, who has checked on a dry run that the  *)
(* recorded owner is the one the tenant serving today was formed for.      *)
Bind(n) ==
    /\ owner[n] # None /\ bound[n] = 0 /\ served[n] # 0
    /\ born[served[n]] = owner[n]
    /\ bound' = [bound EXCEPT ![n] = served[n]]
    /\ UNCHANGED <<rows, owner, cp, call>>

(* Operators form and take down tenants without passing through here.      *)
OperatorProvision(n) == Form(n, None) /\ UNCHANGED <<kv, call>>

OperatorDelete(n) ==
    /\ served[n] # 0
    /\ TearDown(n)
    /\ UNCHANGED <<kv, call>>

-----------------------------------------------------------------------------
Init ==
    /\ rows = {} /\ owner = [n \in Names |-> None] /\ bound = [n \in Names |-> 0]
    /\ served = [n \in Names |-> 0] /\ born = [i \in Incs |-> None] /\ formed = 0
    /\ call = [c \in Slots |-> Idle]

Next ==
    \/ \E c \in Slots, a \in Accounts, n \in Names :
          StartProvision(c, a, n) \/ StartJobDelete(c, a, n)
    \/ \E c \in Slots, a \in Accounts \cup {None}, n \in Names : StartDelete(c, a, n)
    \/ \E c \in Slots : \/ CpProvision(c) \/ OnProvisioned(c) \/ CpDelete(c)
                        \/ OnDeprovisioned(c) \/ OnAcctdelCpDelete(c)
    \/ \E a \in Accounts : Backfill(a)
    \/ \E n \in Names : Bind(n) \/ OperatorProvision(n) \/ OperatorDelete(n)

Spec == Init /\ [][Next]_vars
-----------------------------------------------------------------------------
CallType == [kind : {"none", "provision", "delete", "job"}, acct : Accounts \cup {None},
             name : Names \cup {None}, st : {"none", "sent", "ok", "refused"},
             inc : 0..MaxInc]

TypeOK ==
    /\ rows \subseteq Accounts \X Names
    /\ owner \in [Names -> Accounts \cup {None}]
    /\ bound \in [Names -> 0..MaxInc]
    /\ served \in [Names -> 0..MaxInc]
    /\ born \in [Incs -> Accounts \cup {None}]
    /\ formed \in 0..MaxInc
    /\ call \in [Slots -> CallType]

(* Whoever is let in to a tenant is of the account that provisioned the    *)
(* very lifetime being served, however names were reused, answers delayed  *)
(* and rows left behind.                                                   *)
NoForeignAccess ==
    \A a \in Accounts, n \in Names : CanAccess(a, n) => born[served[n]] = a

(* One account lists a name, and counts it against its plan: the one the   *)
(* owner pointer names.                                                    *)
RowsMatch == \A a \in Accounts, n \in Names : <<a, n>> \in rows <=> owner[n] = a

(* With accounts deleted too, a pointer still never names an account that  *)
(* does not list the tenant: nobody has access to what they do not count.  *)
PointerIsListed == \A n \in Names : owner[n] # None => <<owner[n], n>> \in rows

(* Ownership never drifts to a lifetime the owner did not provision: the   *)
(* incarnation row of a name, when there is one, is of its owner.          *)
BindingIsOwners ==
    \A n \in Names : bound[n] # 0 =>
        bound[n] \in 1..formed /\ owner[n] # None /\ owner[n] = born[bound[n]]

(* "account_limit_reached": an account owns no more tenants than its plan  *)
(* allows.                                                                 *)
WithinPlan == \A a \in Accounts : Cardinality(Owned(a)) <= MaxInstances

(* "Ownership rows are cleared HERE - only once the tenant is actually     *)
(* gone": a continuation that clears the rows clears no live tenant's.     *)
ClearsTheGone ==
    [][\A c \in Slots, n \in Names :
          OnDeprovisioned(c) /\ owner[n] # None /\ owner'[n] = None =>
              ~CanAccess(owner[n], n)]_vars

(* "A name is not an identity ... the next tenant to take the name is a    *)
(* different tenant": what is taken down for an account was formed for it. *)
DestroysOwn ==
    [][\A c \in Slots : CpDelete(c) =>
          \A n \in Names : served[n] # 0 /\ served'[n] = 0 =>
              call[c].acct \in {None, born[served[n]]}]_vars

-----------------------------------------------------------------------------
(* What a call carries: an answered provision names a lifetime formed for  *)
(* the account that asked; nothing else names any.                         *)
AnswersTrue ==
    \A c \in Slots : call[c].inc # 0 => /\ call[c].kind = "provision"
                                        /\ call[c].inc \in 1..formed
                                        /\ born[call[c].inc] = call[c].acct

CallsWhole ==
    \A c \in Slots : call[c].kind # "none" =>
        /\ call[c].name \in Names
        /\ call[c].kind # "delete" => call[c].acct \in Accounts

ServedFormed == \A n \in Names : served[n] \in 0..formed

RepliesNamed ==
    \A c \in Slots : call[c].kind = "provision" /\ call[c].st = "ok" => call[c].inc # 0

IInv == /\ TypeOK /\ CallsWhole /\ ServedFormed /\ AnswersTrue /\ PointerIsListed
        /\ CpNamesIncarnation => RepliesNamed /\ BindingIsOwners
        /\ ~Jobs => RowsMatch /\ \A c \in Slots : call[c].kind # "job"
=============================================================================
