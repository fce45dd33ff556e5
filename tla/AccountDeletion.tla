-------------------------- MODULE AccountDeletion --------------------------
(***************************************************************************)
(* The account-deletion job of the dashboard (admin/index.mjs, "Account    *)
(* deletion (rove#340)"), for one account, together with the calls of the  *)
(* account's own people that can be in flight while it runs.               *)
(*                                                                         *)
(* Every activation of a handler is one atomic step: its kv writes, its    *)
(* durable sends and its schedule entries commit together with the         *)
(* response, so a crash in the middle of one is no step at all and the     *)
(* durable wake fires again.  What is in flight between activations is     *)
(* explicit: the durable CP deletes (send), the held CP and Stripe calls   *)
(* of the owner (prov, undeploy, subscribing) and the one dispatched kv    *)
(* operation of the identity sweep (disp).                                 *)
(*                                                                         *)
(* The rows of the account are positions of its key range, in kv order;    *)
(* rev holds the positions whose reverse index row, outside the range,     *)
(* exists: user/{h}/accounts/{aid} for a member, invite/{hash} for a       *)
(* pending invite, billing/customer/{cus}, instance/{t}/owner for an       *)
(* instance.                                                               *)
(***************************************************************************)
EXTENDS Naturals, FiniteSets

CONSTANTS
    Tenants,        \* instance names
    NKeys,          \* the account's rows are positions 1..NKeys
    TenantKey,      \* position of account/{aid}/instances/{t}
    BillingKey,     \* position of account/{aid}/billing/{customer,subscription}
    SelfKey,        \* position of the owner's member row
    InviteKey,      \* position of a pending invite
    PlanKey,        \* position of the plan row, which has no reverse index
    PageSize,       \* rows a kv.prefix page holds (1000 in the code)
    NSteps,         \* entries of ACCTDEL_IDP_STEPS; entry 0 is the own store
    NPos,           \* positions of a row within one identity prefix
    Foreign,        \* identity rows that name somebody else
    ScanLimit,      \* ACCTDEL_SCAN_LIMIT
    MaxJobs,        \* bound: deletion requests
    MaxRetries,     \* bound: operator retries
    MaxCalls        \* bound: calls of the account's people

Keys    == 1..NKeys
Steps   == 0..(NSteps - 1)
Pos     == 1..NPos
IdpKeys == Steps \X Pos
Indexed == {BillingKey, SelfKey, InviteKey} \cup {TenantKey[t] : t \in Tenants}

ASSUME KeysAssumption ==
    /\ NKeys \in Nat
    /\ TenantKey \in [Tenants -> Keys]
    /\ BillingKey \in Keys /\ SelfKey \in Keys
    /\ InviteKey \in Keys /\ PlanKey \in Keys
    /\ PlanKey \notin Indexed
    /\ \A s, t \in Tenants : TenantKey[s] = TenantKey[t] => s = t
    /\ \A t \in Tenants : TenantKey[t] \notin {BillingKey, SelfKey, InviteKey}
    /\ BillingKey # SelfKey

ASSUME SizesAssumption ==
    /\ PageSize \in Nat \ {0} /\ ScanLimit \in Nat \ {0}
    /\ NSteps \in Nat \ {0} /\ NPos \in Nat
    /\ Foreign \subseteq IdpKeys
    /\ MaxJobs \in Nat /\ MaxRetries \in Nat /\ MaxCalls \in Nat

VARIABLES
    isTeam,         \* the marker's is_team; a property of the account
    state, phase,   \* the marker acctdel/{aid}
    cursor,         \*   m.cursor, 0 for ""
    idp,            \*   m.idp_step, m.idp_cursor, m.idp_next_cursor, m.idp_did
    wake,           \* the keyed schedule entry of acctdelWake is armed
    inst,           \* acctdel/{aid}/inst/{t}; "unsent" is no row
    send,           \* the durable, keyed CP delete of t
    disp,           \* the dispatched kv operation idp_did names, and its result
    rows, rev,      \* the account's rows and their reverse index rows
    live,           \* tenants of this account that exist at the control plane
    prov,           \* held provision of t
    undeploy,       \* held deprovision of t by the owner
    subscribing,    \* held subscribe call
    stripe,         \* the subscription at Stripe
    idpRows,        \* identity rows that name the account's owner
    orig, origLive, origIdp,    \* history: what existed at the request
    jobs, retries, calls        \* counters of the bounds

marker == <<state, phase, cursor, idp>>
job    == <<inst, send, disp>>
acct   == <<rows, rev, live, stripe, idpRows>>
held   == <<prov, undeploy, subscribing>>
hist   == <<orig, origLive, origIdp>>
bounds == <<jobs, retries, calls>>
vars   == <<isTeam, marker, wake, job, acct, held, hist, bounds>>

NoDisp == [st |-> "none", kind |-> "scan", home |-> "none", hits |-> {}, next |-> 0,
           step |-> 0, after |-> 0]
FreshIdp == [step |-> 0, cursor |-> 0, next |-> 0, did |-> FALSE]

(* isDeleting: a non-terminal marker is the tombstone.                     *)
DeletingWhileRunning == state = "running"   \* mutant: a frozen job blocks nothing
Deleting == state \in {"running", "failed"}

(* ownedInstances: the instances/ rows of the account.                     *)
Owned == {t \in Tenants : TenantKey[t] \in rows}

(* p is the page kv.prefix returns from S after c, limit many at most.     *)
IsPage(p, S, c, limit) ==
    /\ p \subseteq {k \in S : k > c}
    /\ \A k \in p, j \in S : c < j /\ j < k => j \in p
    /\ Cardinality(p) <= limit
    /\ Cardinality(p) >= limit \/ p = {k \in S : k > c}

FullPlusOne(p, limit) == Cardinality(p) > limit     \* mutant: off by one
Full(p, limit) == Cardinality(p) >= limit
IsLast(k, p) == k \in p /\ \A j \in p : j <= k

(* acctdelArm moves the one keyed entry of the watchdog;                   *)
(* acctdelCancelWatchdog drops it.  The fired entry itself is gone.        *)
NoRearm == wake' = FALSE        \* mutant: a wake that forgets its watchdog
Arm == wake' = TRUE
CancelWatchdog == wake' = FALSE

-----------------------------------------------------------------------------
(* The account's people.                                                   *)

Call == calls < MaxCalls /\ calls' = calls + 1

(* Where the tombstone does not block it ("done" does not, which is the    *)
(* re-signup path), backfillSelf writes the missing member row and the     *)
(* missing owner pointers of a personal account; a team is only there.     *)
OwnerPointers == {TenantKey[t] : t \in Owned}

BackfillSelf ==
    \/ /\ ~isTeam
       /\ rows' = rows \cup {SelfKey}
       /\ rev' = rev \cup {SelfKey} \cup OwnerPointers
    \/ /\ isTeam /\ SelfKey \in rows
       /\ UNCHANGED <<rows, rev>>

(* A session read.                                                         *)
Materialise ==
    /\ Call
    /\ ~Deleting
    /\ BackfillSelf
    /\ UNCHANGED <<isTeam, marker, wake, job, live, stripe, idpRows, held, hist,
                   jobs, retries>>

(* inviteMember by an owner: nothing in it asks whether the account is     *)
(* being deleted.  backfillAccountInstances mends the owner pointers too.  *)
Invite ==
    /\ Call
    /\ SelfKey \in rows
    /\ rows' = rows \cup {InviteKey}
    /\ rev' = rev \cup {InviteKey} \cup OwnerPointers
    /\ UNCHANGED <<isTeam, marker, wake, job, live, stripe, idpRows, held, hist,
                   jobs, retries>>

(* provisionInstance: refused while the account is being deleted; the rest *)
(* happens when the held CP call answers.                                  *)
StartProvision(t) ==
    /\ Call
    /\ ~Deleting
    /\ BackfillSelf
    /\ prov[t] = "none"
    /\ prov' = [prov EXCEPT ![t] = "sent"]
    /\ UNCHANGED <<isTeam, marker, wake, job, live, stripe, idpRows, undeploy,
                   subscribing, hist, jobs, retries>>

(* The control plane forms the tenant, or refuses (the name is taken).     *)
CpProvision(t) ==
    /\ prov[t] = "sent"
    /\ \/ /\ t \notin live
          /\ live' = live \cup {t}
          /\ prov' = [prov EXCEPT ![t] = "created"]
       \/ /\ prov' = [prov EXCEPT ![t] = "refused"]
          /\ UNCHANGED live
    /\ UNCHANGED <<isTeam, marker, wake, job, rows, rev, stripe, idpRows, undeploy,
                   subscribing, hist, bounds>>

(* onProvisioned: a continuation, which asks nothing about the marker.     *)
OnProvisioned(t) ==
    /\ prov[t] \in {"created", "refused"}
    /\ prov' = [prov EXCEPT ![t] = "none"]
    /\ \/ /\ prov[t] = "created"
          /\ rows' = rows \cup {PlanKey, TenantKey[t]}
          /\ rev' = rev \cup {TenantKey[t]}
       \/ /\ prov[t] = "refused"
          /\ UNCHANGED <<rows, rev>>
    /\ UNCHANGED <<isTeam, marker, wake, job, live, stripe, idpRows, undeploy,
                   subscribing, hist, bounds>>

(* deleteInstance by a member who may access t.                            *)
StartUndeploy(t) ==
    /\ Call
    /\ SelfKey \in rows /\ TenantKey[t] \in rev
    /\ undeploy[t] = "none"
    /\ undeploy' = [undeploy EXCEPT ![t] = "sent"]
    /\ UNCHANGED <<isTeam, marker, wake, job, acct, prov, subscribing, hist,
                   jobs, retries>>

CpUndeploy(t) ==
    /\ undeploy[t] = "sent"
    /\ \/ /\ t \in live
          /\ live' = live \ {t}
          /\ undeploy' = [undeploy EXCEPT ![t] = "gone"]
          /\ origLive' = origLive \ {t}
       \/ /\ undeploy' = [undeploy EXCEPT ![t] = "refused"]
          /\ UNCHANGED <<live, origLive>>
    /\ UNCHANGED <<isTeam, marker, wake, job, rows, rev, stripe, idpRows, prov,
                   subscribing, orig, origIdp, bounds>>

(* onDeprovisioned: only a 204 clears the rows, the instances/ row only    *)
(* through the owner pointer.                                              *)
OnDeprovisioned(t) ==
    /\ undeploy[t] \in {"gone", "refused"}
    /\ undeploy' = [undeploy EXCEPT ![t] = "none"]
    /\ \/ /\ undeploy[t] = "gone" /\ TenantKey[t] \in rev
          /\ rows' = rows \ {TenantKey[t]}
          /\ rev' = rev \ {TenantKey[t]}
       \/ /\ undeploy[t] = "refused" \/ TenantKey[t] \notin rev
          /\ UNCHANGED <<rows, rev>>
    /\ orig' = orig \cap rows'
    /\ UNCHANGED <<isTeam, marker, wake, job, live, stripe, idpRows, prov,
                   subscribing, origLive, origIdp, bounds>>

(* subscribeBilling: owner-only; a recorded live subscription refuses a    *)
(* second one, and nothing in it reads the tombstone.                      *)
StartSubscribe ==
    /\ Call
    /\ SelfKey \in rows /\ ~subscribing /\ BillingKey \notin rows
    /\ subscribing' = TRUE
    /\ UNCHANGED <<isTeam, marker, wake, job, acct, prov, undeploy, hist,
                   jobs, retries>>

(* onBillingSubscription: Stripe made the subscription, the terminal hop   *)
(* writes the link rows; or the hop failed and writes nothing.             *)
OnBillingSubscription ==
    /\ subscribing
    /\ subscribing' = FALSE
    /\ \/ /\ stripe' = "active"
          /\ rows' = rows \cup {BillingKey}
          /\ rev' = rev \cup {BillingKey}
       \/ UNCHANGED <<stripe, rows, rev>>
    /\ UNCHANGED <<isTeam, marker, wake, job, live, idpRows, prov, undeploy, hist,
                   bounds>>

(* A login leaves one more identity row: the IdP knows nothing of the job. *)
Login ==
    /\ Call
    /\ \E r \in IdpKeys \ (idpRows \cup Foreign) : idpRows' = idpRows \cup {r}
    /\ UNCHANGED <<isTeam, marker, wake, job, rows, rev, live, stripe, held, hist,
                   jobs, retries>>

-----------------------------------------------------------------------------
(* requestAccountDeletion and deleteTeamAccount.                           *)

RequestDeletion ==
    /\ jobs < MaxJobs /\ jobs' = jobs + 1
    /\ ~Deleting
    /\ BackfillSelf
    /\ state' = "running" /\ phase' = "billing" /\ cursor' = 0 /\ idp' = FreshIdp
    /\ Arm
    /\ orig' = rows' /\ origIdp' = idpRows
    /\ origLive' = {t \in live \cap Owned : /\ prov[t] = "none" /\ undeploy[t] = "none"
                                           /\ send[t] = "none"}
    /\ UNCHANGED <<isTeam, job, live, stripe, idpRows, held, retries, calls>>

-----------------------------------------------------------------------------
(* acctdelWake.  Each way through the function is one action; a phase that *)
(* falls through to the next is part of the same action.                   *)

Unsent(t) == t \in Owned /\ inst[t] = "unsent"
Failed    == {t \in Owned : inst[t] = "failed"}
PendingSent == {t \in Owned : inst[t] = "pending"}  \* mutant: misses the new sends
Pending   == {t \in Owned : inst[t] \in {"unsent", "pending"}}

(* Absent or terminal marker: the chain dies.                              *)
WakeIdle ==
    /\ wake /\ state # "running"
    /\ wake' = FALSE
    /\ UNCHANGED <<isTeam, marker, job, acct, held, hist, bounds>>

(* The billing phase, when the wake starts there, cancels at Stripe.       *)
CancelBilling ==
    stripe' = IF phase = "billing" /\ BillingKey \in rows THEN "cancelled" ELSE stripe

(* One durable, keyed delete per owned instance without a row.             *)
SendDeletes ==
    /\ inst' = [t \in Tenants |-> IF Unsent(t) THEN "pending" ELSE inst[t]]
    /\ send' = [t \in Tenants |-> IF Unsent(t) /\ send[t] = "none"
                                  THEN "flying" ELSE send[t]]

WakeSends ==
    /\ wake /\ state = "running" /\ phase \in {"billing", "instances"}
    /\ CancelBilling /\ SendDeletes
    /\ phase' = "instances"
    /\ \/ /\ Failed # {}
          /\ state' = "failed" /\ CancelWatchdog
       \/ /\ Failed = {} /\ Pending # {}
          /\ Arm
          /\ UNCHANGED state
    /\ UNCHANGED <<isTeam, cursor, idp, disp, rows, rev, live, idpRows, held, hist,
                   bounds>>

(* acctdelFinish.                                                          *)
Finish ==
    /\ state' = "done" /\ phase' = "done"
    /\ CancelWatchdog
    /\ inst' = [t \in Tenants |-> "unsent"]

(* ---- the identity sweep: acctdelIdpStep, started with the bookkeeping i *)

Freeze == state' = "failed" /\ CancelWatchdog

Dispatch(op) == disp' = [NoDisp EXCEPT !.st = "owed", !.kind = op.kind,
                                       !.home = op.home, !.hits = op.hits,
                                       !.step = op.step, !.after = op.after]

Home(step) == IF step = 0 THEN "own" ELSE "auth"

(* The tail of the loop, with nothing left to harvest: the cooldown row,   *)
(* a page of the own store swept directly, or the scan of the next page.   *)
IdpContinue(i) ==
    /\ Arm /\ state' = "running" /\ UNCHANGED inst
    /\ \/ /\ i.step >= NSteps
          /\ Dispatch([kind |-> "cooldown", home |-> "auth", hits |-> {},
                       step |-> 0, after |-> 0])
          /\ idp' = [i EXCEPT !.did = TRUE]
          /\ UNCHANGED idpRows
       \/ /\ i.step < NSteps /\ Home(i.step) = "own"
          /\ \E page \in SUBSET Pos :
                LET present == {p \in Pos : <<i.step, p>> \in idpRows \cup Foreign}
                IN  /\ IsPage(page, present, i.cursor, PageSize)
                    /\ idpRows' = idpRows \ ({i.step} \X page)
                    /\ \/ /\ Full(page, PageSize)
                          /\ \E k \in page : /\ IsLast(k, page)
                                             /\ idp' = [i EXCEPT !.cursor = k]
                       \/ /\ ~Full(page, PageSize)
                          /\ idp' = [i EXCEPT !.step = @ + 1, !.cursor = 0]
          /\ disp' = NoDisp
       \/ /\ i.step < NSteps /\ Home(i.step) = "auth"
          /\ Dispatch([kind |-> "scan", home |-> "auth", hits |-> {},
                       step |-> i.step, after |-> i.cursor])
          /\ idp' = [i EXCEPT !.did = TRUE]
          /\ UNCHANGED idpRows

(* A delete batch landed, or a scan found nothing: the rest of this step,  *)
(* the step boundary (which yields the wake), or the cooldown.             *)
IdpAdvance(i, next) ==
    \/ /\ next # 0
       /\ IdpContinue([i EXCEPT !.cursor = next, !.next = 0])
    \/ /\ next = 0 /\ i.step + 1 < NSteps
       /\ idp' = [i EXCEPT !.step = @ + 1, !.cursor = 0, !.next = 0]
       /\ disp' = NoDisp /\ Arm /\ state' = "running"
       /\ UNCHANGED <<inst, idpRows>>
    \/ /\ next = 0 /\ i.step + 1 >= NSteps
       /\ IdpContinue([i EXCEPT !.step = @ + 1, !.cursor = 0, !.next = 0])

(* acctdelHarvest of a resolved dispatch: its result row is consumed and   *)
(* m.idp_did forgotten.  A refusal freezes the job, whatever was asked.    *)
HarvestKeepsId(i) == i          \* mutant: m.idp_did is not reset
Harvested(i) == [i EXCEPT !.did = FALSE]

IdpHarvest(i) ==
    \/ /\ disp.st = "bad"
       /\ Freeze /\ phase' = "idp"
       /\ disp' = NoDisp /\ idp' = Harvested(i)
       /\ UNCHANGED <<inst, idpRows>>
    \/ /\ disp.st = "ok" /\ disp.kind = "cooldown"
       /\ Finish
       /\ disp' = NoDisp /\ idp' = Harvested(i)
       /\ UNCHANGED idpRows
    \/ /\ disp.st = "ok" /\ disp.kind = "scan" /\ disp.hits # {}
       /\ Dispatch([kind |-> "del", home |-> Home(i.step), hits |-> disp.hits,
                    step |-> disp.step, after |-> 0])
       /\ idp' = [i EXCEPT !.next = disp.next]
       /\ phase' = "idp" /\ Arm /\ state' = "running"
       /\ UNCHANGED <<inst, idpRows>>
    \/ /\ disp.st = "ok" /\ disp.kind = "scan" /\ disp.hits = {}
       /\ phase' = "idp"
       /\ IdpAdvance(Harvested(i), disp.next)
    \/ /\ disp.st = "ok" /\ disp.kind = "del"
       /\ phase' = "idp"
       /\ IdpAdvance(Harvested(i), i.next)

IdpStep(i) ==
    \/ /\ i.did /\ disp.st = "owed"             \* still pending: poll again
       /\ idp' = i /\ phase' = "idp" /\ Arm /\ state' = "running"
       /\ UNCHANGED <<disp, inst, idpRows>>
    \/ /\ i.did /\ disp.st # "owed"
       /\ IdpHarvest(i)
    \/ /\ ~i.did
       /\ phase' = "idp"
       /\ IdpContinue(i)

(* The rows phase erases one page and the reverse index row of everything  *)
(* in it.  After the last page a team is done; a personal account goes     *)
(* straight on to the identity sweep, in the same activation.              *)
RowsStartSkips == IF phase = "rows" THEN cursor + 1 ELSE 0   \* mutant: off by one
RowsStart == IF phase = "rows" THEN cursor ELSE 0

EraseRowsOnly(page) == rows' = rows \ page /\ rev' = rev   \* mutant: no harvest
ErasePage(page) == rows' = rows \ page /\ rev' = rev \ page

WakeRows ==
    /\ wake /\ state = "running"
    /\ \/ phase \in {"billing", "instances"} /\ Failed = {} /\ Pending = {}
       \/ phase = "rows"
    /\ CancelBilling
    /\ \E page \in SUBSET rows :
          /\ IsPage(page, rows, RowsStart, PageSize)
          /\ ErasePage(page)
          /\ orig' = orig \ page
          /\ \/ /\ Full(page, PageSize)
                /\ phase' = "rows" /\ Arm
                /\ \E k \in page : IsLast(k, page) /\ cursor' = k
                /\ UNCHANGED <<state, idp, inst, disp, idpRows>>
             \/ /\ ~Full(page, PageSize) /\ isTeam
                /\ Finish
                /\ cursor' = RowsStart
                /\ UNCHANGED <<idp, disp, idpRows>>
             \/ /\ ~Full(page, PageSize) /\ ~isTeam
                /\ IdpStep([idp EXCEPT !.step = 0, !.cursor = 0])
                /\ cursor' = RowsStart
    /\ origIdp' = origIdp \cap idpRows'
    /\ UNCHANGED <<isTeam, send, live, held, origLive, bounds>>

WakeIdp ==
    /\ wake /\ state = "running" /\ phase = "idp"
    /\ IdpStep(idp)
    /\ origIdp' = origIdp \cap idpRows'
    /\ UNCHANGED <<isTeam, cursor, send, rows, rev, live, stripe, held, orig,
                   origLive, bounds>>

-----------------------------------------------------------------------------
(* The platform under the job.                                             *)

(* An attempt of the durable delete of t: the CP deletes and says so       *)
(* (204, or 404 when there was nothing); deletes and the answer is lost,   *)
(* so the send retries; or the retry budget is spent.                      *)
CpDelete(t) ==
    /\ send[t] = "flying"
    /\ \/ /\ live' = live \ {t} /\ origLive' = origLive \ {t}
          /\ \/ send' = [send EXCEPT ![t] = "ok"]
             \/ t \in live /\ UNCHANGED send
       \/ /\ send' = [send EXCEPT ![t] = "refused"]
          /\ UNCHANGED <<live, origLive>>
    /\ UNCHANGED <<isTeam, marker, wake, inst, disp, rows, rev, stripe, idpRows, held,
                   orig, origIdp, bounds>>

(* onAcctdelCpDelete: the terminal callback of the send, which fires once. *)
OnAcctdelCpDelete(t) ==
    /\ send[t] \in {"ok", "refused"}
    /\ send' = [send EXCEPT ![t] = "none"]
    /\ \/ /\ state # "running"
          /\ UNCHANGED <<state, wake, inst, rows, rev>>
       \/ /\ state = "running" /\ send[t] = "ok"
          /\ rows' = rows \ {TenantKey[t]}
          /\ rev' = rev \ {TenantKey[t]}
          /\ inst' = [inst EXCEPT ![t] = "gone"]
          /\ Arm
          /\ UNCHANGED state
       \/ /\ state = "running" /\ send[t] = "refused"
          /\ inst' = [inst EXCEPT ![t] = "failed"]
          /\ state' = "failed"
          /\ UNCHANGED <<wake, rows, rev>>
    /\ orig' = orig \cap rows'
    /\ UNCHANGED <<isTeam, phase, cursor, idp, disp, live, stripe, idpRows, held,
                   origLive, origIdp, bounds>>

(* The target tenant runs the dispatched operation, or refuses it.         *)
DispatchResolves ==
    /\ disp.st = "owed"
    /\ \/ /\ disp' = [disp EXCEPT !.st = "bad"]
          /\ UNCHANGED idpRows
       \/ /\ disp.kind = "cooldown"
          /\ disp' = [disp EXCEPT !.st = "ok"]
          /\ UNCHANGED idpRows
       \/ /\ disp.kind = "del"
          /\ disp' = [disp EXCEPT !.st = "ok"]
          /\ idpRows' = IF disp.home = Home(disp.step)
                        THEN idpRows \ ({disp.step} \X disp.hits) ELSE idpRows
       \/ /\ disp.kind = "scan"
          /\ \E page \in SUBSET Pos :
                LET present == {p \in Pos : <<disp.step, p>> \in idpRows \cup Foreign}
                IN  /\ IsPage(page, present, disp.after, ScanLimit)
                    /\ \E k \in page \cup {0} :
                          /\ IF Full(page, ScanLimit) THEN IsLast(k, page) ELSE k = 0
                          /\ disp' = [disp EXCEPT !.st = "ok", !.next = k,
                                !.hits = {p \in page : <<disp.step, p>> \in idpRows}]
          /\ UNCHANGED idpRows
    /\ origIdp' = origIdp \cap idpRows'
    /\ UNCHANGED <<isTeam, marker, wake, inst, send, rows, rev, live, stripe, held,
                   orig, origLive, bounds>>

(* retryDeletion by an operator: failed instances go back to unsent.       *)
RetryDeletion ==
    /\ retries < MaxRetries /\ retries' = retries + 1
    /\ state = "failed"
    /\ inst' = [t \in Tenants |-> IF inst[t] = "failed" THEN "unsent" ELSE inst[t]]
    /\ state' = "running" /\ phase' = "instances"
    /\ Arm
    /\ UNCHANGED <<isTeam, cursor, idp, send, disp, acct, held, hist, jobs, calls>>

-----------------------------------------------------------------------------
Init ==
    /\ isTeam \in BOOLEAN
    /\ state = "none" /\ phase = "done" /\ cursor = 0 /\ idp = FreshIdp
    /\ wake = FALSE
    /\ inst = [t \in Tenants |-> "unsent"] /\ send = [t \in Tenants |-> "none"]
    /\ disp = NoDisp
    /\ live \in SUBSET Tenants
    /\ stripe \in {"none", "active"}
    /\ rows = {SelfKey, InviteKey, PlanKey} \cup {TenantKey[t] : t \in live}
                 \cup (IF stripe = "active" THEN {BillingKey} ELSE {})
    /\ rev = rows \ {PlanKey}
    /\ prov = [t \in Tenants |-> "none"] /\ undeploy = [t \in Tenants |-> "none"]
    /\ subscribing = FALSE
    /\ idpRows = IdpKeys \ Foreign
    /\ orig = {} /\ origLive = {} /\ origIdp = {}
    /\ jobs = 0 /\ retries = 0 /\ calls = 0

People ==
    \/ Materialise \/ Invite \/ StartSubscribe \/ Login \/ RequestDeletion
    \/ \E t \in Tenants : StartProvision(t) \/ StartUndeploy(t)

Wake == WakeIdle \/ WakeSends \/ WakeRows \/ WakeIdp

Platform ==
    \/ OnBillingSubscription \/ DispatchResolves
    \/ \E t \in Tenants : \/ CpProvision(t) \/ OnProvisioned(t)
                          \/ CpUndeploy(t) \/ OnDeprovisioned(t)
                          \/ CpDelete(t) \/ OnAcctdelCpDelete(t)

Next == People \/ Wake \/ Platform \/ RetryDeletion

Spec == Init /\ [][Next]_vars

(* The engine fires what it holds: schedule entries, durable sends and     *)
(* their callbacks, dispatched operations and the answers of held calls.   *)
(* Nothing is assumed of people or of operators.                           *)
Fairness ==
    /\ WF_vars(Wake) /\ WF_vars(DispatchResolves) /\ WF_vars(OnBillingSubscription)
    /\ \A t \in Tenants :
          /\ WF_vars(CpDelete(t)) /\ WF_vars(OnAcctdelCpDelete(t))
          /\ WF_vars(CpProvision(t)) /\ WF_vars(OnProvisioned(t))
          /\ WF_vars(CpUndeploy(t)) /\ WF_vars(OnDeprovisioned(t))

FairSpec == Spec /\ Fairness

-----------------------------------------------------------------------------
IdpType == [step : 0..NSteps, cursor : 0..NPos, next : 0..NPos, did : BOOLEAN]

DispType == [st : {"none", "owed", "ok", "bad"}, kind : {"scan", "del", "cooldown"},
             home : {"own", "auth", "none"}, hits : SUBSET Pos, next : 0..NPos,
             step : 0..NSteps, after : 0..NPos]

TypeOK ==
    /\ isTeam \in BOOLEAN
    /\ state \in {"none", "running", "failed", "done"}
    /\ phase \in {"billing", "instances", "rows", "idp", "done"}
    /\ cursor \in 0..NKeys
    /\ idp \in IdpType
    /\ wake \in BOOLEAN
    /\ inst \in [Tenants -> {"unsent", "pending", "gone", "failed"}]
    /\ send \in [Tenants -> {"none", "flying", "ok", "refused"}]
    /\ disp \in DispType
    /\ rows \subseteq Keys /\ rev \subseteq Indexed /\ live \subseteq Tenants
    /\ stripe \in {"none", "active", "cancelled"}
    /\ prov \in [Tenants -> {"none", "sent", "created", "refused"}]
    /\ undeploy \in [Tenants -> {"none", "sent", "gone", "refused"}]
    /\ subscribing \in BOOLEAN
    /\ idpRows \subseteq IdpKeys \ Foreign
    /\ orig \subseteq rows /\ origLive \subseteq live /\ origIdp \subseteq idpRows
    /\ jobs \in 0..MaxJobs /\ retries \in 0..MaxRetries /\ calls \in 0..MaxCalls

(* A running job is never without its driver: whatever path a wake takes,  *)
(* the keyed watchdog is armed when it commits (acctdelArm first).         *)
RunningIsArmed == state = "running" => wake

(* No reverse index row outlives the row it indexes, whatever page of the  *)
(* erasure, continuation or callback wrote last.                           *)
NoOrphanIndex == rev \subseteq rows

(* Once the rows phase is over, nothing the account held at the request is *)
(* left in its key range, however many pages and late writes it took.      *)
OriginalsErased == state = "done" \/ (Deleting /\ phase = "idp") => orig = {}

(* The account's rows are erased only after every tenant it owned at the   *)
(* request is gone at the control plane.  A tenant with a CP call still    *)
(* outstanding at the request is not counted: its row, or the answer of    *)
(* that call, may be of an earlier lifetime of the name.                   *)
TenantsDestroyed ==
    state = "done" \/ (Deleting /\ phase \in {"rows", "idp"}) => origLive = {}

(* "done" means the owner's identity rows were swept: no page boundary,    *)
(* cursor or step bookkeeping skipped one.                                 *)
IdentitySwept == state = "done" /\ ~isTeam => origIdp = {}

(* The marker names the one dispatched operation exactly while there is    *)
(* one: no result row is left behind, none is harvested twice.             *)
DispatchTracked == (disp.st # "none") = idp.did

(* A delete batch goes to the kv its rows were scanned in ("the steps are  *)
(* (prefix, kv-home) pairs").                                              *)
DeletesGoHome == disp.st # "none" /\ disp.kind = "del" => disp.home = Home(disp.step)

(* While the tombstone stands, an erased account is not materialised again *)
(* by its owner's next session read.                                       *)
Tombstone == state \in {"running", "failed"}

TombstoneHolds ==
    [][Tombstone /\ Tombstone' /\ SelfKey \in rows' => SelfKey \in rows]_vars

(* A pending instance whose delete is neither in flight nor owes its       *)
(* callback: nothing will ever move it.                                    *)
Stranded == \E t \in Owned : inst[t] = "pending" /\ send[t] = "none"

(* A running job comes to rest, unless an instance is stranded.            *)
JobRests == state = "running" ~> state \in {"failed", "done"} \/ Stranded

(* "Sends in flight; their terminal callbacks advance the phase": a job    *)
(* that waits, waits for a send.                                           *)
PendingHasSend == state = "running" /\ phase = "instances" => ~Stranded

(* A finished deletion leaves no row of the account, until its owner signs *)
(* up again.                                                               *)
NothingLeft == state = "done" /\ SelfKey \notin rows => rows = {}

(* Nor a subscription that Stripe goes on charging.                        *)
BillingEnds == state = "done" /\ SelfKey \notin rows => stripe # "active"

(* An instance row the rows phase drops has no live tenant.                *)
StragglersAreDead ==
    [][WakeRows => \A t \in Owned : TenantKey[t] \notin rows' => t \notin live]_vars

-----------------------------------------------------------------------------
(* The inductive invariant: what the job knows between two activations.    *)

(* The cursor of the rows phase is behind everything that is still owed.   *)
CursorBehind == Deleting /\ phase = "rows" => \A k \in orig : k > cursor

(* Between jobs nothing of the last one is left but its sends.             *)
JobIsClean ==
    /\ Deleting => phase # "done"
    /\ ~Deleting => disp.st = "none" /\ \A t \in Tenants : inst[t] = "unsent"

(* Only the identity sweep of a personal account dispatches, and while a   *)
(* scan or a batch is out, the sweep has not run past its last step.       *)
SweepInRange ==
    /\ isTeam => disp.st = "none" /\ phase # "idp"
    /\ disp.st # "none" /\ disp.kind # "cooldown" => idp.step < NSteps

(* A tenant that has to go and has not: the job still knows it, and no     *)
(* answer says it is gone.                                                 *)
OwedTenants ==
    \A t \in origLive :
        /\ send[t] # "ok" /\ undeploy[t] # "gone"
        /\ Deleting => inst[t] # "gone"
        /\ Deleting /\ phase \in {"billing", "instances"} => t \in Owned

(* The identity rows that are left are ahead of the sweep: of its step and *)
(* cursor while it runs, and of the operation that is out, which a frozen  *)
(* and retried job may harvest at an earlier step than it was sent from.   *)
Beyond(p, next) == next # 0 /\ p > next
Ahead(i) == \A r \in origIdp : r[1] > i.step \/ (r[1] = i.step /\ r[2] > i.cursor)

AheadOfCursor == Deleting /\ phase = "idp" => Ahead(idp)

LeftHere == {r \in origIdp : r[1] = disp.step}

AheadOfScan ==
    /\ \A r \in LeftHere : r[2] > disp.after
    /\ disp.st = "ok" => \A r \in LeftHere : Beyond(r[2], disp.next) \/ r[2] \in disp.hits

AheadOfBatch ==
    \/ idp.step < disp.step
    \/ /\ disp.home = Home(disp.step)
       /\ \A r \in LeftHere :
              Beyond(r[2], idp.next) \/ (disp.st # "ok" /\ r[2] \in disp.hits)

AheadOfDispatch ==
    /\ disp.kind = "cooldown" => origIdp = {}
    /\ disp.kind # "cooldown" => idp.step <= disp.step /\ \A r \in origIdp : r[1] >= disp.step
    /\ disp.kind = "scan" => AheadOfScan
    /\ disp.kind = "del" => AheadOfBatch

SweepMissesNone ==
    /\ IdentitySwept /\ AheadOfCursor
    /\ disp.st # "none" => AheadOfDispatch

IInv == /\ TypeOK /\ RunningIsArmed /\ NoOrphanIndex /\ OriginalsErased /\ TenantsDestroyed
        /\ DispatchTracked
        /\ CursorBehind /\ JobIsClean /\ SweepInRange /\ OwedTenants

-----------------------------------------------------------------------------
(* The job implements its abstract promise.                                *)
Left == {<<"row", k>> : k \in orig} \cup {<<"tenant", t>> : t \in origLive}
          \cup {<<"idp", r>> : r \in IF isTeam THEN {} ELSE origIdp}

Job == INSTANCE DeletionJob WITH
    Things <- ({"row"} \X Keys) \cup ({"tenant"} \X Tenants) \cup ({"idp"} \X IdpKeys),
    left <- Left

JobSpec == Job!Spec
=============================================================================
