------------------------ MODULE AccountDeletionProofs ------------------------
(***************************************************************************)
(* The safety of the deletion job, for every account: any number of        *)
(* tenants, rows, pages, identity prefixes, retries and calls.             *)
(*                                                                         *)
(* IInv adds to the properties what the job knows between two activations: *)
(* the cursor is behind everything still owed (so the next page is enough),*)
(* between jobs no dispatch and no instance row is left, the sweep is not  *)
(* past its last step while an operation is out, and a tenant that has to  *)
(* go is still listed and no answer about it is outstanding.               *)
(*                                                                         *)
(* Most steps leave the job alone (JobLeftAlone); the identity sweep is    *)
(* summed up, operator by operator, as SweepEffect.                        *)
(*                                                                         *)
(* SweepMissesNone, inductive given IInv, says that the identity rows that *)
(* are left lie ahead of the sweep and of the operation that is out.  It   *)
(* survives a retry whose restarted sweep harvests an operation of a later *)
(* step: such a one was only sent when all steps before it were swept.     *)
(* The two invariants show that the job implements DeletionJob.            *)
(***************************************************************************)
EXTENDS AccountDeletion, TLAPS

(* The record of no dispatch is one.                                       *)
LEMMA NoDispType == NoDisp \in DispType /\ NoDisp.st = "none"
  BY SizesAssumption DEF NoDisp, DispType, Pos

(* A position is a cursor.                                                 *)
LEMMA PosFacts == ASSUME NEW p \in SUBSET Pos, NEW k \in p PROVE k \in 0..NPos
  BY SizesAssumption DEF Pos

(* Zero is a cursor and a step.                                            *)
LEMMA IdpTypeZero == 0 \in 0..NPos /\ 0 \in 0..NSteps
  BY SizesAssumption

(* The empty job satisfies the invariant.                                  *)
LEMMA InitIInv == Init => IInv
<1> SUFFICES ASSUME Init PROVE IInv
  OBVIOUS
<1> USE DEF Init
<1>1. rows \subseteq Keys /\ rev \subseteq Indexed /\ rev \subseteq rows
  BY KeysAssumption DEF Keys, Indexed
<1>2. idp \in IdpType /\ idp.did = FALSE
  BY SizesAssumption DEF FreshIdp, IdpType
<1>3. disp \in DispType /\ disp.st = "none"
  BY NoDispType
<1>4. TypeOK
  <2>1. /\ cursor \in 0..NKeys /\ jobs \in 0..MaxJobs
        /\ retries \in 0..MaxRetries /\ calls \in 0..MaxCalls
    BY KeysAssumption, SizesAssumption
  <2>2. orig \subseteq rows /\ origLive \subseteq live /\ origIdp \subseteq idpRows
    OBVIOUS
  <2> QED
    BY <1>1, <1>2, <1>3, <2>1, <2>2 DEF TypeOK
<1> QED
  BY <1>1, <1>2, <1>3, <1>4 DEF IInv, RunningIsArmed, NoOrphanIndex, OriginalsErased,
     TenantsDestroyed, DispatchTracked, CursorBehind, JobIsClean, SweepInRange, OwedTenants,
     Deleting

(* What one activation of the identity sweep may have done when it commits.*)
SweepEffect ==
    /\ idp' \in IdpType /\ disp' \in DispType
    /\ idpRows' \subseteq idpRows
    /\ wake' \in BOOLEAN
    /\ \/ state' \in {"running", "failed"} /\ phase' = "idp" /\ UNCHANGED inst
       \/ /\ state' = "done" /\ phase' = "done" /\ disp'.st = "none"
          /\ inst' = [t \in Tenants |-> "unsent"]
    /\ state' = "running" => wake'
    /\ (disp'.st # "none") = idp'.did
    /\ disp'.st # "none" /\ disp'.kind # "cooldown" => idp'.step < NSteps



(* A dispatched operation is owed, and of the kind that was asked.         *)
LEMMA DispatchEffect ==
  ASSUME NEW op \in [kind : {"scan", "del", "cooldown"}, home : {"own", "auth", "none"},
                     hits : SUBSET Pos, step : 0..NSteps, after : 0..NPos],
         Dispatch(op)
  PROVE  disp' \in DispType /\ disp'.st = "owed" /\ disp'.kind = op.kind
<1> DEFINE d == [NoDisp EXCEPT !.st = "owed", !.kind = op.kind, !.home = op.home,
                               !.hits = op.hits, !.step = op.step, !.after = op.after]
<1>1. d \in DispType /\ d.st = "owed" /\ d.kind = op.kind
  BY NoDispType DEF DispType
<1> QED
  BY <1>1 DEF Dispatch

(* The tail of the loop: cooldown, own store, or the next scan.            *)
LEMMA IdpContinueEffect ==
  ASSUME TypeOK, NEW i \in IdpType, i.did = FALSE, IdpContinue(i), phase' = "idp"
  PROVE  SweepEffect
<1>1. state' = "running" /\ wake' = TRUE /\ UNCHANGED inst
  BY DEF IdpContinue, Arm
<1>2. CASE i.step >= NSteps
  <2>1. /\ Dispatch([kind |-> "cooldown", home |-> "auth", hits |-> {}, step |-> 0, after |-> 0])
        /\ idp' = [i EXCEPT !.did = TRUE] /\ UNCHANGED idpRows
    BY <1>2, SizesAssumption DEF IdpContinue, IdpType
  <2>2. disp' \in DispType /\ disp'.st = "owed" /\ disp'.kind = "cooldown"
    <3> DEFINE op == [kind |-> "cooldown", home |-> "auth", hits |-> {}, step |-> 0, after |-> 0]
    <3>1. op \in [kind : {"scan", "del", "cooldown"}, home : {"own", "auth", "none"},
                  hits : SUBSET Pos, step : 0..NSteps, after : 0..NPos]
      BY IdpTypeZero
    <3>2. op.kind = "cooldown" /\ Dispatch(op)
      BY <2>1
    <3> HIDE DEF op
    <3> QED
      BY <3>1, <3>2, DispatchEffect
  <2>3. idp' \in IdpType /\ idp'.did = TRUE
    BY <2>1 DEF IdpType
  <2> QED
    BY <1>1, <2>1, <2>2, <2>3 DEF SweepEffect
<1>3. CASE i.step < NSteps /\ Home(i.step) = "own"
  <2>1. PICK page \in SUBSET Pos :
          /\ idpRows' = idpRows \ ({i.step} \X page)
          /\ \/ \E k \in page : idp' = [i EXCEPT !.cursor = k]
             \/ idp' = [i EXCEPT !.step = @ + 1, !.cursor = 0]
          /\ disp' = NoDisp
    <3>1. ~(i.step >= NSteps)
      BY <1>3, SizesAssumption DEF IdpType
    <3>2. Home(i.step) # "auth"
      BY <1>3
    <3> QED
      BY <3>1, <3>2 DEF IdpContinue
  <2>2. idp' \in IdpType /\ idp'.did = FALSE
    <3>1. i.step + 1 \in 0..NSteps
      BY <1>3, SizesAssumption DEF IdpType
    <3>2. ASSUME NEW k \in page, idp' = [i EXCEPT !.cursor = k]
          PROVE  idp' \in IdpType /\ idp'.did = FALSE
      BY <3>2, PosFacts DEF IdpType
    <3>3. ASSUME idp' = [i EXCEPT !.step = @ + 1, !.cursor = 0]
          PROVE  idp' \in IdpType /\ idp'.did = FALSE
      BY <3>1, <3>3, IdpTypeZero DEF IdpType
    <3> QED
      BY <2>1, <3>2, <3>3
  <2> QED
    BY <1>1, <2>1, <2>2, NoDispType DEF SweepEffect
<1>4. CASE i.step < NSteps /\ Home(i.step) = "auth"
  <2>1. /\ Dispatch([kind |-> "scan", home |-> "auth", hits |-> {}, step |-> i.step,
                     after |-> i.cursor])
        /\ idp' = [i EXCEPT !.did = TRUE] /\ UNCHANGED idpRows
    BY <1>4, SizesAssumption DEF IdpContinue, IdpType, Home
  <2>2. disp' \in DispType /\ disp'.st = "owed" /\ disp'.kind = "scan"
    BY <2>1, DispatchEffect DEF IdpType
  <2>3. idp' \in IdpType /\ idp'.did = TRUE /\ idp'.step = i.step
    BY <2>1 DEF IdpType
  <2> QED
    BY <1>1, <1>4, <2>1, <2>2, <2>3 DEF SweepEffect
<1> QED
  BY <1>2, <1>3, <1>4, SizesAssumption DEF IdpType, Home

(* The rest of this step, the step boundary, or the cooldown.              *)
LEMMA IdpAdvanceEffect ==
  ASSUME TypeOK, NEW i \in IdpType, i.did = FALSE, i.step < NSteps, NEW next \in 0..NPos,
         IdpAdvance(i, next), phase' = "idp"
  PROVE  SweepEffect
<1>1. CASE next # 0
  <2>1. [i EXCEPT !.cursor = next, !.next = 0] \in IdpType
    BY IdpTypeZero DEF IdpType
  <2>2. [i EXCEPT !.cursor = next, !.next = 0].did = FALSE
    BY DEF IdpType
  <2> QED
    BY <1>1, <2>1, <2>2, IdpContinueEffect DEF IdpAdvance
<1>2. CASE next = 0 /\ i.step + 1 < NSteps
  <2>1. /\ idp' = [i EXCEPT !.step = @ + 1, !.cursor = 0, !.next = 0]
        /\ disp' = NoDisp /\ wake' = TRUE /\ state' = "running"
        /\ UNCHANGED <<inst, idpRows>>
    BY <1>2, SizesAssumption DEF IdpAdvance, Arm, IdpType
  <2>2. idp' \in IdpType /\ idp'.did = FALSE
    <3>1. i.step + 1 \in 0..NSteps
      BY <1>2, SizesAssumption DEF IdpType
    <3> QED
      BY <3>1, <2>1, IdpTypeZero DEF IdpType
  <2> QED
    BY <2>1, <2>2, NoDispType DEF SweepEffect
<1>3. CASE next = 0 /\ i.step + 1 >= NSteps
  <2> DEFINE j == [i EXCEPT !.step = @ + 1, !.cursor = 0, !.next = 0]
  <2>1. j \in IdpType /\ j.did = FALSE
    <3>1. i.step + 1 \in 0..NSteps
      BY SizesAssumption DEF IdpType
    <3> QED
      BY <3>1, IdpTypeZero DEF IdpType
  <2>2. IdpContinue(j)
    BY <1>3, SizesAssumption DEF IdpAdvance, IdpType
  <2> HIDE DEF j
  <2> QED
    BY <2>1, <2>2, IdpContinueEffect
<1> QED
  BY <1>1, <1>2, <1>3, SizesAssumption DEF IdpType

(* The harvest of a resolved operation.                                    *)
LEMMA IdpHarvestEffect ==
  ASSUME TypeOK, NEW i \in IdpType, i.did = TRUE, disp.st \in {"ok", "bad"},
         disp.kind # "cooldown" => i.step < NSteps,
         IdpHarvest(i)
  PROVE  SweepEffect
<1>1. Harvested(i) \in IdpType /\ Harvested(i).did = FALSE /\ Harvested(i).step = i.step
  BY DEF Harvested, IdpType
<1>2. disp.next \in 0..NPos /\ disp.hits \in SUBSET Pos /\ disp.step \in 0..NSteps
  BY DEF TypeOK, DispType
<1>3. CASE disp.st = "bad"
  BY <1>1, <1>3, NoDispType DEF IdpHarvest, Freeze, CancelWatchdog, SweepEffect
<1>4. CASE disp.st = "ok" /\ disp.kind = "cooldown"
  BY <1>1, <1>4, NoDispType DEF IdpHarvest, Finish, CancelWatchdog, SweepEffect
<1>5. CASE disp.st = "ok" /\ disp.kind = "scan" /\ disp.hits # {}
  <2>1. /\ Dispatch([kind |-> "del", home |-> Home(i.step), hits |-> disp.hits,
                     step |-> disp.step, after |-> 0])
        /\ idp' = [i EXCEPT !.next = disp.next]
        /\ phase' = "idp" /\ wake' = TRUE /\ state' = "running"
        /\ UNCHANGED <<inst, idpRows>>
    BY <1>5 DEF IdpHarvest, Arm
  <2>2. disp' \in DispType /\ disp'.st = "owed" /\ disp'.kind = "del"
    <3> DEFINE op == [kind |-> "del", home |-> Home(i.step), hits |-> disp.hits,
                      step |-> disp.step, after |-> 0]
    <3>1. op \in [kind : {"scan", "del", "cooldown"}, home : {"own", "auth", "none"},
                  hits : SUBSET Pos, step : 0..NSteps, after : 0..NPos]
      BY <1>2, IdpTypeZero DEF Home
    <3>2. op.kind = "del" /\ Dispatch(op)
      BY <2>1
    <3> HIDE DEF op
    <3> QED
      BY <3>1, <3>2, DispatchEffect
  <2>3. idp' \in IdpType /\ idp'.did = TRUE /\ idp'.step = i.step
    BY <1>2, <2>1 DEF IdpType
  <2> QED
    BY <1>5, <2>1, <2>2, <2>3 DEF SweepEffect
<1>6. CASE disp.st = "ok" /\ disp.kind = "scan" /\ disp.hits = {}
  BY <1>1, <1>2, <1>6, IdpAdvanceEffect DEF IdpHarvest
<1>7. CASE disp.st = "ok" /\ disp.kind = "del"
  <2>1. i.next \in 0..NPos
    BY DEF IdpType
  <2> QED
    BY <1>1, <1>7, <2>1, IdpAdvanceEffect DEF IdpHarvest
<1>8. disp.kind \in {"scan", "del", "cooldown"}
  BY DEF TypeOK, DispType
<1> QED
  BY <1>3, <1>4, <1>5, <1>6, <1>7, <1>8

(* One activation of the sweep, whatever it finds.                         *)
LEMMA IdpStepEffect ==
  ASSUME TypeOK, DispatchTracked, NEW i \in IdpType, i.did = idp.did,
         disp.st # "none" /\ disp.kind # "cooldown" => i.step < NSteps,
         IdpStep(i)
  PROVE  SweepEffect
<1>1. disp.st \in {"none", "owed", "ok", "bad"} /\ disp \in DispType
  BY DEF TypeOK, DispType
<1>2. CASE i.did /\ disp.st = "owed"
  BY <1>1, <1>2 DEF IdpStep, SweepEffect, Arm
<1>3. CASE i.did /\ disp.st # "owed"
  BY <1>1, <1>3, IdpHarvestEffect DEF IdpStep, DispatchTracked
<1>4. CASE ~i.did
  BY <1>4, IdpContinueEffect DEF IdpStep, IdpType
<1> QED
  BY <1>2, <1>3, <1>4
-----------------------------------------------------------------------------
(* A step that leaves the job alone: it erases nothing the job owes.       *)
LEMMA JobLeftAlone ==
  ASSUME IInv,
         UNCHANGED <<isTeam, state, phase, cursor, idp, wake, inst>>,
         disp'.st = "none" <=> disp.st = "none", disp'.kind = disp.kind,
         orig' \subseteq orig, origLive' \subseteq origLive,
         \A t \in origLive' :
            /\ send'[t] # "ok" /\ undeploy'[t] # "gone"
            /\ TenantKey[t] \in rows => TenantKey[t] \in rows'
  PROVE  /\ RunningIsArmed' /\ OriginalsErased' /\ TenantsDestroyed' /\ DispatchTracked'
         /\ CursorBehind' /\ JobIsClean' /\ SweepInRange' /\ OwedTenants'
<1>1. RunningIsArmed' /\ DispatchTracked' /\ SweepInRange'
  BY DEF IInv, RunningIsArmed, DispatchTracked, SweepInRange
<1>2. OriginalsErased' /\ CursorBehind' /\ TenantsDestroyed'
  BY DEF IInv, OriginalsErased, CursorBehind, TenantsDestroyed, Deleting
<1>3. JobIsClean'
  BY DEF IInv, JobIsClean, Deleting
<1>4. OwedTenants'
  BY DEF IInv, OwedTenants, Deleting, Owned
<1> QED
  BY <1>1, <1>2, <1>3, <1>4

(* The keys of the account's rows.                                         *)
LEMMA KeyFacts ==
  /\ {SelfKey, InviteKey, BillingKey, PlanKey} \subseteq Keys
  /\ {SelfKey, InviteKey, BillingKey} \subseteq Indexed
  /\ \A t \in Tenants : TenantKey[t] \in Keys /\ TenantKey[t] \in Indexed
  /\ \A s, t \in Tenants : TenantKey[s] = TenantKey[t] => s = t
  BY KeysAssumption DEF Keys, Indexed

(* A call of the people stays within its bound.                            *)
LEMMA CallType == ASSUME TypeOK, Call PROVE calls' \in 0..MaxCalls
  BY SizesAssumption DEF Call, TypeOK

(* The account's people: rows are added, never a reverse index row alone.  *)
LEMMA MaterialiseStep == ASSUME IInv, Materialise PROVE IInv'
<1> USE DEF Materialise, BackfillSelf, OwnerPointers
<1>1. TypeOK' /\ NoOrphanIndex'
  BY KeyFacts, CallType DEF IInv, TypeOK, NoOrphanIndex, Owned, marker, job, held, hist
<1> QED
  BY <1>1, JobLeftAlone DEF IInv, OwedTenants, marker, job, held, hist

(* inviteMember.                                                           *)
LEMMA InviteStep == ASSUME IInv, Invite PROVE IInv'
<1> USE DEF Invite, OwnerPointers
<1>1. TypeOK' /\ NoOrphanIndex'
  BY KeyFacts, CallType DEF IInv, TypeOK, NoOrphanIndex, Owned, marker, job, held, hist
<1> QED
  BY <1>1, JobLeftAlone DEF IInv, OwedTenants, marker, job, held, hist

(* provisionInstance.                                                      *)
LEMMA StartProvisionStep == ASSUME IInv, NEW t \in Tenants, StartProvision(t) PROVE IInv'
<1> USE DEF StartProvision, BackfillSelf, OwnerPointers
<1>1. TypeOK' /\ NoOrphanIndex'
  BY KeyFacts, CallType DEF IInv, TypeOK, NoOrphanIndex, Owned, marker, job, hist
<1> QED
  BY <1>1, JobLeftAlone DEF IInv, OwedTenants, marker, job, hist

(* The control plane's answer to it.                                       *)
LEMMA CpProvisionStep == ASSUME IInv, NEW t \in Tenants, CpProvision(t) PROVE IInv'
<1> USE DEF CpProvision
<1>1. TypeOK' /\ NoOrphanIndex'
  BY DEF IInv, TypeOK, NoOrphanIndex, marker, job, hist, bounds
<1> QED
  BY <1>1, JobLeftAlone DEF IInv, OwedTenants, marker, job, hist, bounds

(* onProvisioned adds an instance row and its reverse index row.           *)
LEMMA OnProvisionedStep == ASSUME IInv, NEW t \in Tenants, OnProvisioned(t) PROVE IInv'
<1> USE DEF OnProvisioned
<1>1. TypeOK' /\ NoOrphanIndex'
  BY KeyFacts DEF IInv, TypeOK, NoOrphanIndex, marker, job, hist, bounds
<1> QED
  BY <1>1, JobLeftAlone DEF IInv, OwedTenants, marker, job, hist, bounds

(* deleteInstance.                                                         *)
LEMMA StartUndeployStep == ASSUME IInv, NEW t \in Tenants, StartUndeploy(t) PROVE IInv'
<1> USE DEF StartUndeploy
<1>1. TypeOK' /\ NoOrphanIndex'
  BY CallType DEF IInv, TypeOK, NoOrphanIndex, marker, job, acct, hist
<1>2. \A s \in origLive : undeploy'[s] # "gone"
  BY DEF IInv, OwedTenants, TypeOK
<1> QED
  BY <1>1, <1>2, JobLeftAlone DEF IInv, OwedTenants, marker, job, acct, hist

(* A tenant the owner deleted is not owed any more.                        *)
LEMMA CpUndeployStep == ASSUME IInv, NEW t \in Tenants, CpUndeploy(t) PROVE IInv'
<1> USE DEF CpUndeploy
<1>1. TypeOK' /\ NoOrphanIndex'
  BY DEF IInv, TypeOK, NoOrphanIndex, marker, job, bounds
<1>2. origLive' \subseteq origLive /\ \A s \in origLive' : undeploy'[s] # "gone"
  BY DEF IInv, OwedTenants, TypeOK
<1> QED
  BY <1>1, <1>2, JobLeftAlone DEF IInv, OwedTenants, marker, job, bounds

(* onDeprovisioned clears both rows of a tenant that is gone.              *)
LEMMA OnDeprovisionedStep == ASSUME IInv, NEW t \in Tenants, OnDeprovisioned(t) PROVE IInv'
<1> USE DEF OnDeprovisioned
<1>1. TypeOK' /\ NoOrphanIndex'
  BY DEF IInv, TypeOK, NoOrphanIndex, marker, job, bounds
<1>2. /\ origLive' = origLive /\ orig' \subseteq orig
      /\ \A s \in origLive' : undeploy'[s] # "gone"
      /\ \A s \in origLive' : TenantKey[s] \in rows => TenantKey[s] \in rows'
  BY KeyFacts DEF IInv, OwedTenants, TypeOK
<1> QED
  BY <1>1, <1>2, JobLeftAlone DEF IInv, OwedTenants, marker, job, bounds

(* subscribeBilling.                                                       *)
LEMMA StartSubscribeStep == ASSUME IInv, StartSubscribe PROVE IInv'
<1> USE DEF StartSubscribe
<1>1. TypeOK' /\ NoOrphanIndex'
  BY CallType DEF IInv, TypeOK, NoOrphanIndex, marker, job, acct, hist
<1> QED
  BY <1>1, JobLeftAlone DEF IInv, OwedTenants, marker, job, acct, hist

(* onBillingSubscription writes both rows or none.                         *)
LEMMA OnBillingSubscriptionStep == ASSUME IInv, OnBillingSubscription PROVE IInv'
<1> USE DEF OnBillingSubscription
<1>1. TypeOK' /\ NoOrphanIndex'
  BY KeyFacts DEF IInv, TypeOK, NoOrphanIndex, marker, job, hist, bounds
<1> QED
  BY <1>1, JobLeftAlone DEF IInv, OwedTenants, marker, job, hist, bounds

(* A login.                                                                *)
LEMMA LoginStep == ASSUME IInv, Login PROVE IInv'
<1> USE DEF Login
<1>1. TypeOK' /\ NoOrphanIndex'
  BY CallType DEF IInv, TypeOK, NoOrphanIndex, marker, job, held, hist
<1> QED
  BY <1>1, JobLeftAlone DEF IInv, OwedTenants, marker, job, held, hist

(* A delete that lands takes its tenant off the list of what is owed.      *)
LEMMA CpDeleteStep == ASSUME IInv, NEW t \in Tenants, CpDelete(t) PROVE IInv'
<1> USE DEF CpDelete
<1>1. TypeOK' /\ NoOrphanIndex'
  BY DEF IInv, TypeOK, NoOrphanIndex, marker, held, bounds
<1>2. origLive' \subseteq origLive /\ \A s \in origLive' : send'[s] # "ok"
  BY DEF IInv, OwedTenants, TypeOK
<1> QED
  BY <1>1, <1>2, JobLeftAlone DEF IInv, OwedTenants, marker, held, bounds

(* The target answers: the operation keeps its kind.                       *)
LEMMA DispatchResolvesStep == ASSUME IInv, DispatchResolves PROVE IInv'
<1> USE DEF DispatchResolves
<1>1. disp' \in DispType /\ disp'.st \in {"ok", "bad"} /\ disp'.kind = disp.kind
  <2>1. CASE disp' = [disp EXCEPT !.st = "bad"] \/ disp' = [disp EXCEPT !.st = "ok"]
    BY <2>1 DEF IInv, TypeOK, DispType
  <2>2. CASE \E page \in SUBSET Pos, k \in 0..NPos, h \in SUBSET Pos :
               disp' = [disp EXCEPT !.st = "ok", !.next = k, !.hits = h]
    BY <2>2 DEF IInv, TypeOK, DispType
  <2>3. \A page \in SUBSET Pos : \A k \in page \cup {0} : k \in 0..NPos
    BY PosFacts, IdpTypeZero
  <2> QED
    BY <2>1, <2>2, <2>3
<1>2. idpRows' \subseteq idpRows
  OBVIOUS
<1>3. TypeOK' /\ NoOrphanIndex'
  BY <1>1, <1>2 DEF IInv, TypeOK, NoOrphanIndex, marker, held, bounds
<1> QED
  BY <1>1, <1>3, JobLeftAlone DEF IInv, OwedTenants, marker, held, bounds

-----------------------------------------------------------------------------
(* The request: what it owes is what the account has, and no call that is  *)
(* still out for a tenant can answer for a tenant counted here.            *)
LEMMA RequestDeletionStep == ASSUME IInv, RequestDeletion PROVE IInv'
<1> USE DEF RequestDeletion
<1>1. /\ state' = "running" /\ phase' = "billing" /\ cursor' = 0 /\ idp' = FreshIdp
      /\ wake' = TRUE
      /\ UNCHANGED <<isTeam, inst, send, disp, live, stripe, idpRows, prov, undeploy,
                     subscribing, retries, calls>>
  BY DEF Arm, job, held
<1>2. rows' \subseteq Keys /\ rev' \subseteq Indexed /\ rev' \subseteq rows' /\ rows \subseteq rows'
  BY KeyFacts DEF BackfillSelf, OwnerPointers, IInv, TypeOK, NoOrphanIndex, Owned
<1>3. FreshIdp \in IdpType /\ FreshIdp.did = FALSE /\ FreshIdp.step = 0
  BY SizesAssumption DEF FreshIdp, IdpType
<1>4. 0 \in 0..NKeys /\ jobs' \in 0..MaxJobs
  BY KeysAssumption, SizesAssumption DEF IInv, TypeOK
<1>5. disp.st = "none" /\ \A t \in Tenants : inst[t] = "unsent"
  BY DEF IInv, JobIsClean
<1>6. /\ origLive' \subseteq live
      /\ \A t \in origLive' : t \in Owned /\ undeploy[t] = "none" /\ send[t] = "none"
  OBVIOUS
<1>7. TypeOK'
  BY <1>1, <1>2, <1>3, <1>4, <1>6 DEF IInv, TypeOK
<1>8. RunningIsArmed' /\ NoOrphanIndex' /\ DispatchTracked'
  BY <1>1, <1>2, <1>3, <1>5 DEF RunningIsArmed, NoOrphanIndex, DispatchTracked
<1>9. OriginalsErased' /\ CursorBehind' /\ TenantsDestroyed'
  BY <1>1 DEF OriginalsErased, CursorBehind, TenantsDestroyed
<1>10. JobIsClean' /\ SweepInRange'
  BY <1>1, <1>5 DEF JobIsClean, SweepInRange, Deleting
<1>11. OwedTenants'
  BY <1>1, <1>2, <1>5, <1>6 DEF IInv, TypeOK, OwedTenants, Owned
<1> QED
  BY <1>7, <1>8, <1>9, <1>10, <1>11 DEF IInv

(* A wake that finds no running job lets its entry go.                     *)
LEMMA WakeIdleStep == ASSUME IInv, WakeIdle PROVE IInv'
<1> USE DEF WakeIdle
<1>1. wake' = FALSE /\ state # "running"
      /\ UNCHANGED <<isTeam, state, phase, cursor, idp, inst, send, disp, rows, rev, live, stripe,
                     idpRows, prov, undeploy, subscribing, orig, origLive, origIdp, jobs,
                     retries, calls>>
  BY DEF marker, job, acct, held, hist, bounds
<1>2. TypeOK'
  BY <1>1 DEF IInv, TypeOK
<1>3. /\ RunningIsArmed' /\ NoOrphanIndex' /\ OriginalsErased'
      /\ TenantsDestroyed' /\ DispatchTracked'
  BY <1>1 DEF IInv, RunningIsArmed, NoOrphanIndex, OriginalsErased, TenantsDestroyed,
              DispatchTracked, Deleting
<1>4. CursorBehind' /\ JobIsClean' /\ SweepInRange' /\ OwedTenants'
  BY <1>1 DEF IInv, CursorBehind, JobIsClean, SweepInRange, OwedTenants, Deleting, Owned
<1> QED
  BY <1>2, <1>3, <1>4 DEF IInv

(* The sends: the job stays in the instances phase.                        *)
LEMMA WakeSendsStep == ASSUME IInv, WakeSends PROVE IInv'
<1> USE DEF WakeSends
<1>1. /\ state = "running" /\ phase \in {"billing", "instances"} /\ phase' = "instances"
      /\ UNCHANGED <<isTeam, cursor, idp, disp, rows, rev, live, idpRows, prov, undeploy,
                     subscribing, orig, origLive, origIdp, jobs, retries, calls>>
      /\ \/ state' = "failed" /\ wake' = FALSE
         \/ state' = "running" /\ wake' = TRUE
      /\ stripe' \in {stripe, "cancelled"}
  BY DEF held, hist, bounds, CancelWatchdog, Arm, CancelBilling
<1>2. /\ inst' \in [Tenants -> {"unsent", "pending", "gone", "failed"}]
      /\ send' \in [Tenants -> {"none", "flying", "ok", "refused"}]
      /\ \A t \in Tenants : inst'[t] = "gone" => inst[t] = "gone"
      /\ \A t \in Tenants : send'[t] = "ok" => send[t] = "ok"
  BY DEF SendDeletes, IInv, TypeOK
<1>3. TypeOK'
  BY <1>1, <1>2 DEF IInv, TypeOK
<1>4. /\ RunningIsArmed' /\ NoOrphanIndex' /\ OriginalsErased'
      /\ TenantsDestroyed' /\ DispatchTracked'
  BY <1>1 DEF IInv, RunningIsArmed, NoOrphanIndex, OriginalsErased, TenantsDestroyed,
              DispatchTracked, Deleting
<1>5. CursorBehind' /\ JobIsClean' /\ SweepInRange'
  BY <1>1 DEF IInv, CursorBehind, JobIsClean, SweepInRange, Deleting
<1>6. OwedTenants'
  BY <1>1, <1>2 DEF IInv, TypeOK, OwedTenants, Deleting, Owned
<1> QED
  BY <1>3, <1>4, <1>5, <1>6 DEF IInv

(* A page, read in key order after the cursor, leaves nothing behind its   *)
(* last key; a page that is not full, nothing at all.                      *)
LEMMA PageSweeps ==
  ASSUME NEW S \in SUBSET Keys, NEW c \in Nat, NEW p \in SUBSET S, IsPage(p, S, c, PageSize)
  PROVE  /\ \A k \in p, j \in S \ p : IsLast(k, p) /\ j > c => j > k
         /\ ~Full(p, PageSize) => \A j \in S \ p : j <= c
<1>1. \A k \in p, j \in S : c < j /\ j < k => j \in p
  BY DEF IsPage
<1>2. ASSUME NEW k \in p, NEW j \in S \ p, j > c PROVE j > k
  BY <1>1, <1>2, KeysAssumption DEF Keys
<1>3. ASSUME ~Full(p, PageSize) PROVE \A j \in S \ p : j <= c
  <2>1. Cardinality(p) <= PageSize /\ ~(Cardinality(p) >= PageSize)
    BY <1>3 DEF IsPage, Full
  <2>2. p = {k \in S : k > c}
    BY <2>1 DEF IsPage
  <2> QED
    BY <2>2, KeysAssumption DEF Keys
<1> QED
  BY <1>2, <1>3

(* When a wake leaves the instances phase, every tenant owed is gone.      *)
LEMMA LeavingInstances ==
  ASSUME IInv, state = "running", phase \in {"billing", "instances"}, Failed = {}, Pending = {}
  PROVE  origLive = {}
  BY DEF IInv, TypeOK, OwedTenants, Deleting, Failed, Pending, Owned

(* The sweep commits a job in a legal state.                               *)
LEMMA SweepStep ==
  ASSUME IInv, SweepEffect, Deleting, ~isTeam, isTeam' = isTeam,
         rows' \subseteq rows, rev' \subseteq rows', rev' \subseteq rev, orig' = {}, origLive' = {},
         origIdp' = origIdp \cap idpRows', cursor' \in 0..NKeys,
         stripe' \in {"none", "active", "cancelled"},
         UNCHANGED <<send, live, prov, undeploy, subscribing, jobs, retries, calls>>
  PROVE  IInv'
<1> USE DEF SweepEffect
<1>1. inst' \in [Tenants -> {"unsent", "pending", "gone", "failed"}]
  BY DEF IInv, TypeOK
<1>2. TypeOK'
  BY <1>1 DEF IInv, TypeOK
<1>3. /\ RunningIsArmed' /\ NoOrphanIndex' /\ OriginalsErased'
      /\ TenantsDestroyed' /\ DispatchTracked'
  BY DEF RunningIsArmed, NoOrphanIndex, OriginalsErased, TenantsDestroyed, DispatchTracked
<1>4. CursorBehind' /\ JobIsClean' /\ SweepInRange' /\ OwedTenants'
  BY DEF CursorBehind, JobIsClean, SweepInRange, OwedTenants, Deleting
<1> QED
  BY <1>2, <1>3, <1>4 DEF IInv

(* A wake in the identity sweep.                                           *)
LEMMA WakeIdpStep == ASSUME IInv, WakeIdp PROVE IInv'
<1> USE DEF WakeIdp
<1>1. /\ state = "running" /\ phase = "idp" /\ Deleting
      /\ UNCHANGED <<isTeam, cursor, send, rows, rev, live, stripe, prov, undeploy, subscribing,
                     orig, origLive, jobs, retries, calls>>
      /\ origIdp' = origIdp \cap idpRows'
  BY DEF held, bounds, Deleting
<1>2. ~isTeam /\ orig = {} /\ origLive = {}
  BY <1>1 DEF IInv, SweepInRange, OriginalsErased, TenantsDestroyed
<1>3. SweepEffect
  BY IdpStepEffect DEF IInv, SweepInRange, TypeOK
<1> QED
  BY <1>1, <1>2, <1>3, SweepStep DEF IInv, TypeOK, NoOrphanIndex

(* The rows phase: a full page moves the cursor, a last one ends the job   *)
(* of a team and starts the sweep of a personal account.                   *)
LEMMA WakeRowsStep == ASSUME IInv, WakeRows PROVE IInv'
<1>1. /\ state = "running" /\ Deleting /\ stripe' \in {"none", "active", "cancelled"}
      /\ origIdp' = origIdp \cap idpRows'
      /\ UNCHANGED <<isTeam, send, live, prov, undeploy, subscribing, origLive, jobs, retries,
                     calls>>
  BY DEF WakeRows, CancelBilling, held, bounds, Deleting, IInv, TypeOK
<1>2. origLive = {}
  BY <1>1, LeavingInstances DEF WakeRows, IInv, TenantsDestroyed
<1>3. RowsStart \in 0..NKeys /\ RowsStart \in Nat /\ \A k \in orig : k > RowsStart
  BY <1>1, KeysAssumption DEF RowsStart, IInv, TypeOK, CursorBehind, Keys
<1>4. PICK page \in SUBSET rows :
        /\ IsPage(page, rows, RowsStart, PageSize)
        /\ rows' = rows \ page /\ rev' = rev \ page
        /\ orig' = orig \ page
        /\ \/ /\ Full(page, PageSize)
              /\ phase' = "rows" /\ wake' = TRUE
              /\ \E k \in page : IsLast(k, page) /\ cursor' = k
              /\ UNCHANGED <<state, idp, inst, disp, idpRows>>
           \/ /\ ~Full(page, PageSize) /\ isTeam
              /\ Finish
              /\ cursor' = RowsStart
              /\ UNCHANGED <<idp, disp, idpRows>>
           \/ /\ ~Full(page, PageSize) /\ ~isTeam
              /\ IdpStep([idp EXCEPT !.step = 0, !.cursor = 0])
              /\ cursor' = RowsStart
  BY DEF WakeRows, ErasePage, Arm
<1>5. /\ \A k \in page, j \in rows \ page : IsLast(k, page) /\ j > RowsStart => j > k
      /\ ~Full(page, PageSize) => \A j \in rows \ page : j <= RowsStart
  BY <1>3, <1>4, PageSweeps DEF IInv, TypeOK
<1>6. /\ rows' \subseteq rows /\ rev' \subseteq rows' /\ rev' \subseteq rev
      /\ orig' \subseteq rows' /\ orig' \subseteq rows \ page /\ orig' \subseteq orig
  BY <1>4 DEF IInv, TypeOK, NoOrphanIndex
<1>7. ~Full(page, PageSize) => orig' = {}
  BY <1>3, <1>5, <1>6, KeysAssumption DEF IInv, TypeOK, Keys
<1>8. CASE Full(page, PageSize)
  <2>1. PICK k \in page : IsLast(k, page) /\ cursor' = k
    BY <1>4, <1>8
  <2>2. /\ phase' = "rows" /\ wake' = TRUE
        /\ UNCHANGED <<state, idp, inst, disp, idpRows>>
    BY <1>4, <1>8
  <2>3. cursor' \in 0..NKeys
    BY <2>1, KeysAssumption DEF IInv, TypeOK, Keys
  <2>4. TypeOK'
    BY <1>1, <1>2, <1>6, <2>2, <2>3 DEF IInv, TypeOK
  <2>5. CursorBehind'
    BY <1>3, <1>5, <1>6, <2>1 DEF CursorBehind
  <2>6. /\ RunningIsArmed' /\ NoOrphanIndex' /\ OriginalsErased'
        /\ TenantsDestroyed' /\ DispatchTracked'
    BY <1>1, <1>2, <1>6, <2>2 DEF IInv, RunningIsArmed, NoOrphanIndex, OriginalsErased,
       TenantsDestroyed, DispatchTracked
  <2>7. JobIsClean' /\ SweepInRange' /\ OwedTenants'
    BY <1>1, <1>2, <2>2 DEF IInv, JobIsClean, SweepInRange, OwedTenants, Deleting
  <2> QED
    BY <2>4, <2>5, <2>6, <2>7 DEF IInv
<1>9. CASE ~Full(page, PageSize) /\ isTeam
  <2>1. /\ state' = "done" /\ phase' = "done" /\ wake' = FALSE
        /\ inst' = [t \in Tenants |-> "unsent"] /\ cursor' \in 0..NKeys
        /\ UNCHANGED <<idp, disp, idpRows>>
    BY <1>3, <1>4, <1>9 DEF Finish, CancelWatchdog
  <2>2. TypeOK'
    BY <1>1, <1>2, <1>6, <2>1 DEF IInv, TypeOK
  <2>3. /\ RunningIsArmed' /\ NoOrphanIndex' /\ OriginalsErased'
        /\ TenantsDestroyed' /\ DispatchTracked'
    BY <1>1, <1>2, <1>6, <1>7, <1>9, <2>1 DEF IInv, RunningIsArmed, NoOrphanIndex, OriginalsErased,
       TenantsDestroyed, DispatchTracked
  <2>4. CursorBehind' /\ JobIsClean' /\ SweepInRange' /\ OwedTenants'
    BY <1>1, <1>2, <1>9, <2>1 DEF IInv, CursorBehind, JobIsClean, SweepInRange, OwedTenants, Deleting
  <2> QED
    BY <2>2, <2>3, <2>4 DEF IInv
<1>10. CASE ~Full(page, PageSize) /\ ~isTeam
  <2> DEFINE i == [idp EXCEPT !.step = 0, !.cursor = 0]
  <2>1. i \in IdpType /\ i.did = idp.did /\ i.step = 0 /\ 0 < NSteps
    <3>1. idp \in IdpType
      BY DEF IInv, TypeOK
    <3>2. i \in IdpType /\ i.did = idp.did /\ i.step = 0
      BY <3>1, IdpTypeZero DEF IdpType
    <3> QED
      BY <3>2, SizesAssumption
  <2>2. IdpStep(i) /\ cursor' \in 0..NKeys
    BY <1>3, <1>4, <1>10
  <2> HIDE DEF i
  <2>3. SweepEffect
    BY <2>1, <2>2, IdpStepEffect DEF IInv
  <2> QED
    BY <1>1, <1>2, <1>6, <1>7, <1>10, <2>2, <2>3, SweepStep
<1> QED
  BY <1>8, <1>9, <1>10

(* The callback of a delete: it names a tenant that is no longer owed.     *)
LEMMA OnAcctdelCpDeleteStep == ASSUME IInv, NEW t \in Tenants, OnAcctdelCpDelete(t) PROVE IInv'
<1> USE DEF OnAcctdelCpDelete
<1>1. /\ send' = [send EXCEPT ![t] = "none"]
      /\ orig' = orig \cap rows'
      /\ UNCHANGED <<isTeam, phase, cursor, idp, disp, live, stripe, idpRows, prov, undeploy,
                     subscribing, origLive, origIdp, jobs, retries, calls>>
  BY DEF held, bounds
<1>2. CASE state # "running"
  <2>1. UNCHANGED <<state, wake, inst, rows, rev>>
    BY <1>2
  <2>2. TypeOK' /\ NoOrphanIndex'
    BY <1>1, <2>1 DEF IInv, TypeOK, NoOrphanIndex
  <2>3. \A s \in origLive : send'[s] # "ok" /\ undeploy[s] # "gone"
    BY <1>1 DEF IInv, OwedTenants, TypeOK
  <2> QED
    BY <1>1, <2>1, <2>2, <2>3, JobLeftAlone DEF IInv
<1>3. CASE state = "running" /\ send[t] = "ok"
  <2>1. /\ rows' = rows \ {TenantKey[t]} /\ rev' = rev \ {TenantKey[t]}
        /\ inst' = [inst EXCEPT ![t] = "gone"] /\ wake' = TRUE /\ state' = "running"
    BY <1>3 DEF Arm
  <2>2. TypeOK' /\ NoOrphanIndex'
    BY <1>1, <2>1 DEF IInv, TypeOK, NoOrphanIndex
  <2>3. t \notin origLive
    BY <1>3 DEF IInv, OwedTenants
  <2>4. RunningIsArmed' /\ OriginalsErased' /\ TenantsDestroyed' /\ DispatchTracked'
    BY <1>1, <1>3, <2>1 DEF IInv, RunningIsArmed, OriginalsErased, TenantsDestroyed,
       DispatchTracked, Deleting
  <2>5. CursorBehind' /\ JobIsClean' /\ SweepInRange'
    BY <1>1, <1>3, <2>1 DEF IInv, CursorBehind, JobIsClean, SweepInRange, Deleting
  <2>6. OwedTenants'
    BY <1>1, <1>3, <2>1, <2>3, KeyFacts DEF IInv, TypeOK, OwedTenants, Deleting, Owned
  <2> QED
    BY <2>2, <2>4, <2>5, <2>6 DEF IInv
<1>4. CASE state = "running" /\ send[t] = "refused"
  <2>1. /\ inst' = [inst EXCEPT ![t] = "failed"] /\ state' = "failed"
        /\ UNCHANGED <<wake, rows, rev>>
    BY <1>4
  <2>2. TypeOK' /\ NoOrphanIndex'
    BY <1>1, <2>1 DEF IInv, TypeOK, NoOrphanIndex
  <2>3. RunningIsArmed' /\ OriginalsErased' /\ TenantsDestroyed' /\ DispatchTracked'
    BY <1>1, <1>4, <2>1 DEF IInv, RunningIsArmed, OriginalsErased, TenantsDestroyed,
       DispatchTracked, Deleting
  <2>4. CursorBehind' /\ JobIsClean' /\ SweepInRange'
    BY <1>1, <1>4, <2>1 DEF IInv, CursorBehind, JobIsClean, SweepInRange, Deleting
  <2>5. OwedTenants'
    BY <1>1, <1>4, <2>1 DEF IInv, TypeOK, OwedTenants, Deleting, Owned
  <2> QED
    BY <2>2, <2>3, <2>4, <2>5 DEF IInv
<1> QED
  BY <1>2, <1>3, <1>4

(* The operator's retry starts again at the instances.                     *)
LEMMA RetryDeletionStep == ASSUME IInv, RetryDeletion PROVE IInv'
<1> USE DEF RetryDeletion
<1>1. /\ state = "failed" /\ state' = "running" /\ phase' = "instances" /\ wake' = TRUE
      /\ UNCHANGED <<isTeam, cursor, idp, send, disp, rows, rev, live, stripe, idpRows, prov,
                     undeploy, subscribing, orig, origLive, origIdp, jobs, calls>>
  BY DEF Arm, acct, held, hist
<1>2. /\ inst' \in [Tenants -> {"unsent", "pending", "gone", "failed"}]
      /\ \A t \in Tenants : inst'[t] = "gone" => inst[t] = "gone"
      /\ retries' \in 0..MaxRetries
  BY SizesAssumption DEF IInv, TypeOK
<1>3. TypeOK'
  BY <1>1, <1>2 DEF IInv, TypeOK
<1>4. phase \notin {"billing", "instances"} => origLive = {}
  <2>1. phase \in {"billing", "instances", "rows", "idp", "done"}
    BY DEF IInv, TypeOK
  <2> QED
    BY <1>1, <2>1 DEF IInv, JobIsClean, TenantsDestroyed, Deleting
<1>5. /\ RunningIsArmed' /\ NoOrphanIndex' /\ OriginalsErased'
      /\ TenantsDestroyed' /\ DispatchTracked'
  BY <1>1 DEF IInv, RunningIsArmed, NoOrphanIndex, OriginalsErased, TenantsDestroyed,
     DispatchTracked
<1>6. CursorBehind' /\ JobIsClean' /\ SweepInRange'
  BY <1>1 DEF IInv, CursorBehind, JobIsClean, SweepInRange, Deleting
<1>7. OwedTenants'
  BY <1>1, <1>2, <1>4 DEF IInv, TypeOK, OwedTenants, Deleting, Owned
<1> QED
  BY <1>3, <1>5, <1>6, <1>7 DEF IInv

-----------------------------------------------------------------------------
(* The invariant is inductive.                                             *)
LEMMA NextIInv == IInv /\ [Next]_vars => IInv'
<1> SUFFICES ASSUME IInv, [Next]_vars PROVE IInv'
  OBVIOUS
<1>1. CASE People
  <2>1. ASSUME NEW t \in Tenants, StartProvision(t) \/ StartUndeploy(t) PROVE IInv'
    BY <2>1, StartProvisionStep, StartUndeployStep
  <2> QED
    BY <1>1, <2>1, MaterialiseStep, InviteStep, StartSubscribeStep, LoginStep,
       RequestDeletionStep DEF People
<1>2. CASE Wake
  BY <1>2, WakeIdleStep, WakeSendsStep, WakeRowsStep, WakeIdpStep DEF Wake
<1>3. CASE Platform
  <2>1. ASSUME NEW t \in Tenants,
               \/ CpProvision(t) \/ OnProvisioned(t) \/ CpUndeploy(t) \/ OnDeprovisioned(t)
               \/ CpDelete(t) \/ OnAcctdelCpDelete(t)
        PROVE  IInv'
    BY <2>1, CpProvisionStep, OnProvisionedStep, CpUndeployStep, OnDeprovisionedStep,
       CpDeleteStep, OnAcctdelCpDeleteStep
  <2> QED
    BY <1>3, <2>1, OnBillingSubscriptionStep, DispatchResolvesStep DEF Platform
<1>4. CASE RetryDeletion
  BY <1>4, RetryDeletionStep
<1>5. CASE UNCHANGED vars
  <2>1. UNCHANGED <<isTeam, state, phase, cursor, idp, wake, inst, send, disp, rows, rev, live,
                    stripe, idpRows, prov, undeploy, subscribing, orig, origLive, origIdp, jobs,
                    retries, calls>>
    BY <1>5 DEF vars, marker, job, acct, held, hist, bounds
  <2>2. TypeOK' /\ NoOrphanIndex'
    BY <2>1 DEF IInv, TypeOK, NoOrphanIndex
  <2> QED
    BY <2>1, <2>2, JobLeftAlone DEF IInv, OwedTenants
<1> QED
  BY <1>1, <1>2, <1>3, <1>4, <1>5 DEF Next

(* The strengthening holds of every reachable state, with or without the   *)
(* fairness of FairSpec.                                                   *)
THEOREM Inductive == Spec => []IInv
  BY InitIInv, NextIInv, PTL DEF Spec

(* The variables of every reachable state have their types.                *)
THEOREM TypeCorrect == Spec => []TypeOK
<1>1. IInv => TypeOK
  BY DEF IInv
<1> QED
  BY <1>1, Inductive, PTL

(* A running job is never without its armed watchdog.                      *)
THEOREM RunningIsArmedAlways == Spec => []RunningIsArmed
<1>1. IInv => RunningIsArmed
  BY DEF IInv
<1> QED
  BY <1>1, Inductive, PTL

(* No reverse index row outlives the row it indexes.                       *)
THEOREM NoOrphanIndexAlways == Spec => []NoOrphanIndex
<1>1. IInv => NoOrphanIndex
  BY DEF IInv
<1> QED
  BY <1>1, Inductive, PTL

(* The paged erasure misses no row the account had at the request,         *)
(* whatever the page size and whatever is written meanwhile.               *)
THEOREM OriginalsErasedAlways == Spec => []OriginalsErased
<1>1. IInv => OriginalsErased
  BY DEF IInv
<1> QED
  BY <1>1, Inductive, PTL

(* Rows go only after every tenant counted at the request is gone.         *)
THEOREM TenantsDestroyedAlways == Spec => []TenantsDestroyed
<1>1. IInv => TenantsDestroyed
  BY DEF IInv
<1> QED
  BY <1>1, Inductive, PTL

(* The marker and the dispatched operation agree, through failures and     *)
(* retries.                                                                *)
THEOREM DispatchTrackedAlways == Spec => []DispatchTracked
<1>1. IInv => DispatchTracked
  BY DEF IInv
<1> QED
  BY <1>1, Inductive, PTL
-----------------------------------------------------------------------------
(* The identity sweep misses no row, through pages, batches, failures and  *)
(* retries that harvest an operation of a step they are no longer at.      *)

(* What is left of the owner's identity rows lies in their range.          *)
LEMMA LeftFacts ==
  ASSUME TypeOK, NEW r \in origIdp
  PROVE  /\ r \in idpRows /\ r = <<r[1], r[2]>>
         /\ r[1] \in Nat /\ r[1] < NSteps /\ r[2] \in Pos /\ r[2] \in Nat /\ r[2] > 0
<1>1. r \in idpRows /\ r \in Steps \X Pos
  BY DEF TypeOK, IdpKeys
<1> QED
  BY <1>1, SizesAssumption DEF Steps, Pos

(* A page leaves nothing between its cursor and its last key; one that is  *)
(* not full leaves nothing after its cursor.                               *)
LEMMA PosPage ==
  ASSUME NEW S \in SUBSET Pos, NEW c \in Nat, NEW p \in SUBSET Pos, NEW limit \in Nat,
         IsPage(p, S, c, limit)
  PROVE  /\ \A k \in p, j \in S \ p : IsLast(k, p) /\ j > c => j > k
         /\ ~Full(p, limit) => \A j \in S \ p : j <= c
<1>1. \A k \in p, j \in S : c < j /\ j < k => j \in p
  BY DEF IsPage
<1>2. ASSUME NEW k \in p, NEW j \in S \ p, j > c PROVE j > k
  BY <1>1, <1>2, SizesAssumption DEF Pos
<1>3. ASSUME ~Full(p, limit) PROVE \A j \in S \ p : j <= c
  <2>1. Cardinality(p) <= limit /\ ~(Cardinality(p) >= limit)
    BY <1>3 DEF IsPage, Full
  <2>2. p = {k \in S : k > c}
    BY <2>1 DEF IsPage
  <2> QED
    BY <2>2, SizesAssumption DEF Pos
<1> QED
  BY <1>2, <1>3

(* A dispatched operation is what was asked.                               *)
LEMMA DispatchFields ==
  ASSUME NEW op, Dispatch(op)
  PROVE  /\ disp'.st = "owed" /\ disp'.kind = op.kind /\ disp'.home = op.home
         /\ disp'.hits = op.hits /\ disp'.step = op.step /\ disp'.after = op.after
  BY DEF Dispatch, NoDisp

(* The tail of the loop goes on ahead of where it is.                      *)
LEMMA ContinueMissesNone ==
  ASSUME TypeOK, NEW i \in IdpType, Ahead(i), IdpContinue(i), phase' = "idp",
         origIdp' = origIdp \cap idpRows'
  PROVE  SweepMissesNone'
<1>1. state' = "running" /\ origIdp' \subseteq origIdp
  BY DEF IdpContinue
<1>2. IdentitySwept'
  BY <1>1 DEF IdentitySwept
<1>3. i.step \in Nat /\ i.cursor \in Nat /\ NSteps \in Nat
  BY SizesAssumption DEF IdpType
<1>4. CASE i.step >= NSteps
  <2>1. origIdp = {}
    BY <1>3, <1>4, LeftFacts DEF Ahead
  <2>2. Dispatch([kind |-> "cooldown", home |-> "auth", hits |-> {}, step |-> 0, after |-> 0])
    BY <1>3, <1>4 DEF IdpContinue
  <2>3. disp'.kind = "cooldown"
    BY <2>2, DispatchFields
  <2> QED
    BY <1>1, <1>2, <2>1, <2>3 DEF SweepMissesNone, AheadOfCursor, Ahead, AheadOfDispatch
<1>5. CASE i.step < NSteps /\ Home(i.step) = "own"
  <2> DEFINE present == {p \in Pos : <<i.step, p>> \in idpRows \cup Foreign}
  <2>1. PICK page \in SUBSET Pos :
          /\ IsPage(page, present, i.cursor, PageSize)
          /\ idpRows' = idpRows \ ({i.step} \X page)
          /\ \/ /\ Full(page, PageSize)
                /\ \E k \in page : IsLast(k, page) /\ idp' = [i EXCEPT !.cursor = k]
             \/ ~Full(page, PageSize) /\ idp' = [i EXCEPT !.step = @ + 1, !.cursor = 0]
          /\ disp' = NoDisp
    <3>1. ~(i.step >= NSteps) /\ Home(i.step) # "auth"
      BY <1>3, <1>5
    <3> QED
      BY <3>1 DEF IdpContinue
  <2>2. \A r \in origIdp' : r[1] = i.step => r[2] \in present \ page /\ r[2] > i.cursor
    BY <1>1, <1>3, <2>1, LeftFacts DEF Ahead
  <2>3. ASSUME NEW k \in page, IsLast(k, page), idp' = [i EXCEPT !.cursor = k]
        PROVE  Ahead(idp)'
    <3>1. idp'.step = i.step /\ idp'.cursor = k
      BY <2>3 DEF IdpType
    <3>2. \A j \in present \ page : j > i.cursor => j > k
      BY <1>3, <2>1, <2>3, PosPage, SizesAssumption
    <3> QED
      BY <1>1, <2>2, <3>1, <3>2 DEF Ahead
  <2>4. ASSUME ~Full(page, PageSize), idp' = [i EXCEPT !.step = @ + 1, !.cursor = 0]
        PROVE  Ahead(idp)'
    <3>1. idp'.step = i.step + 1 /\ idp'.cursor = 0
      BY <2>4 DEF IdpType
    <3>2. \A j \in present \ page : j <= i.cursor
      BY <1>3, <2>1, <2>4, PosPage, SizesAssumption
    <3>3. ASSUME NEW r \in origIdp', r[1] = i.step PROVE FALSE
      <4>1. r[2] \in Nat
        BY <1>1, LeftFacts
      <4>2. r[2] \in present \ page /\ r[2] > i.cursor
        BY <2>2, <3>3
      <4> HIDE DEF present
      <4>3. r[2] <= i.cursor
        BY <3>2, <4>2
      <4> QED
        BY <1>3, <4>1, <4>2, <4>3
    <3> QED
      BY <1>1, <1>3, <3>1, <3>3, LeftFacts DEF Ahead
  <2> QED
    BY <1>2, <2>1, <2>3, <2>4, NoDispType DEF SweepMissesNone, AheadOfCursor
<1>6. CASE i.step < NSteps /\ Home(i.step) = "auth"
  <2>1. /\ Dispatch([kind |-> "scan", home |-> "auth", hits |-> {}, step |-> i.step,
                     after |-> i.cursor])
        /\ idp' = [i EXCEPT !.did = TRUE] /\ UNCHANGED idpRows
    BY <1>3, <1>6 DEF IdpContinue, Home
  <2>2. disp'.st = "owed" /\ disp'.kind = "scan" /\ disp'.step = i.step /\ disp'.after = i.cursor
    BY <2>1, DispatchFields
  <2>3. idp'.step = i.step /\ idp'.cursor = i.cursor
    BY <2>1 DEF IdpType
  <2>4. Ahead(idp)'
    BY <1>1, <2>3 DEF Ahead
  <2>5. \A r \in origIdp' : r[1] >= i.step /\ (r[1] = i.step => r[2] > i.cursor)
    BY <1>1, <1>3, LeftFacts DEF Ahead
  <2>6. AheadOfDispatch'
    BY <1>3, <2>2, <2>3, <2>5 DEF AheadOfDispatch, AheadOfScan, LeftHere
  <2> QED
    BY <1>2, <2>4, <2>6 DEF SweepMissesNone, AheadOfCursor
<1> QED
  BY <1>3, <1>4, <1>5, <1>6 DEF Home

(* What a batch or an empty scan was done with lies behind what goes on.   *)
LEMMA AdvanceMissesNone ==
  ASSUME TypeOK, NEW i \in IdpType, i.step < NSteps, NEW next \in 0..NPos,
         \A r \in origIdp : r[1] > i.step \/ (r[1] = i.step /\ Beyond(r[2], next)),
         IdpAdvance(i, next), phase' = "idp", origIdp' = origIdp \cap idpRows'
  PROVE  SweepMissesNone'
<1>1. i.step \in Nat /\ i.cursor \in Nat /\ NSteps \in Nat /\ next \in Nat
  BY SizesAssumption DEF IdpType
<1>2. CASE next # 0
  <2> DEFINE j == [i EXCEPT !.cursor = next, !.next = 0]
  <2>1. j \in IdpType /\ j.step = i.step /\ j.cursor = next
    BY IdpTypeZero DEF IdpType
  <2>2. IdpContinue(j)
    BY <1>2 DEF IdpAdvance
  <2> HIDE DEF j
  <2>3. Ahead(j)
    BY <2>1 DEF Ahead, Beyond
  <2> QED
    BY <2>1, <2>2, <2>3, ContinueMissesNone
<1>3. CASE next = 0
  <2> DEFINE j == [i EXCEPT !.step = @ + 1, !.cursor = 0, !.next = 0]
  <2>1. j \in IdpType /\ j.step = i.step + 1 /\ j.cursor = 0
    <3>1. i.step + 1 \in 0..NSteps
      BY <1>1
    <3> QED
      BY <3>1, IdpTypeZero DEF IdpType
  <2>2. Ahead(j)
    <3> HIDE DEF j
    <3> QED
      BY <1>1, <1>3, <2>1, LeftFacts DEF Ahead, Beyond
  <2>3. CASE IdpContinue(j)
    <3> HIDE DEF j
    <3> QED
      BY <2>1, <2>2, <2>3, ContinueMissesNone
  <2>4. CASE idp' = j /\ disp' = NoDisp /\ state' = "running" /\ UNCHANGED idpRows
    <3> HIDE DEF j
    <3>1. Ahead(idp)'
      BY <2>2, <2>4 DEF Ahead
    <3> QED
      BY <2>4, <3>1, NoDispType DEF SweepMissesNone, IdentitySwept, AheadOfCursor
  <2> QED
    BY <1>1, <1>3, <2>3, <2>4 DEF IdpAdvance
<1> QED
  BY <1>2, <1>3
(* What the sweep is started with: where it is or, after a retry, at the   *)
(* first step, which is swept when there is an operation of a later one.   *)
StartsAt(i) ==
    /\ i \in IdpType /\ i.did = idp.did /\ i.next = idp.next
    /\ i.step <= idp.step /\ (i.step = idp.step \/ i.step = 0)
    /\ Ahead(i)

(* The harvest of a resolved operation.                                    *)
LEMMA HarvestMissesNone ==
  ASSUME IInv, SweepMissesNone, NEW i, StartsAt(i), i.did = TRUE, disp.st \in {"ok", "bad"},
         IdpHarvest(i), origIdp' = origIdp \cap idpRows', ~isTeam, isTeam' = isTeam
  PROVE  SweepMissesNone'
<1>1. /\ TypeOK /\ i \in IdpType /\ idp \in IdpType /\ disp \in DispType
      /\ AheadOfDispatch /\ (disp.kind # "cooldown" => idp.step < NSteps)
  BY DEF IInv, TypeOK, StartsAt, SweepMissesNone, SweepInRange
<1>2. /\ i.step \in Nat /\ idp.step \in Nat /\ disp.step \in Nat /\ NSteps \in Nat
      /\ i.step <= idp.step /\ i.next = idp.next /\ Ahead(i)
      /\ disp.next \in 0..NPos /\ i.next \in 0..NPos
  BY <1>1, SizesAssumption DEF IdpType, DispType, StartsAt
<1>3. /\ Harvested(i) \in IdpType /\ Harvested(i).step = i.step
      /\ Harvested(i).cursor = i.cursor
  BY <1>1 DEF Harvested, IdpType
<1>4. CASE disp.st = "bad"
  <2>1. state' = "failed" /\ disp' = NoDisp /\ idp' = Harvested(i)
    BY <1>4 DEF IdpHarvest, Freeze
  <2>2. Ahead(idp)'
    BY <1>2, <1>3, <2>1 DEF Ahead
  <2> QED
    BY <2>1, <2>2, NoDispType DEF SweepMissesNone, IdentitySwept, AheadOfCursor
<1>5. CASE disp.st = "ok" /\ disp.kind = "cooldown"
  <2>1. origIdp = {} /\ disp' = NoDisp
    BY <1>1, <1>5 DEF IdpHarvest, AheadOfDispatch
  <2> QED
    BY <2>1, NoDispType DEF SweepMissesNone, IdentitySwept, AheadOfCursor, Ahead
<1>6. CASE disp.st = "ok" /\ disp.kind = "scan" /\ disp.hits # {}
  <2>1. /\ Dispatch([kind |-> "del", home |-> Home(i.step), hits |-> disp.hits,
                     step |-> disp.step, after |-> 0])
        /\ idp' = [i EXCEPT !.next = disp.next]
        /\ state' = "running" /\ UNCHANGED idpRows
    BY <1>6 DEF IdpHarvest
  <2>2. /\ disp'.st = "owed" /\ disp'.kind = "del" /\ disp'.step = disp.step
        /\ disp'.home = Home(i.step) /\ disp'.hits = disp.hits
    BY <2>1, DispatchFields
  <2>3. idp'.step = i.step /\ idp'.cursor = i.cursor /\ idp'.next = disp.next
    BY <1>1, <2>1 DEF IdpType
  <2>4. Ahead(idp)'
    BY <1>2, <2>3 DEF Ahead
  <2>5. \A r \in LeftHere' : Beyond(r[2], disp.next) \/ r[2] \in disp.hits
    BY <1>1, <1>6, <2>2 DEF AheadOfDispatch, AheadOfScan, LeftHere
  <2>6. AheadOfBatch'
    <3>1. CASE i.step < disp.step
      BY <2>2, <2>3, <3>1 DEF AheadOfBatch
    <3>2. CASE i.step = disp.step
      BY <2>2, <2>3, <2>5, <3>2 DEF AheadOfBatch, Home
    <3> QED
      BY <1>1, <1>2, <1>6, <3>1, <3>2 DEF AheadOfDispatch
  <2>7. AheadOfDispatch'
    BY <1>1, <1>2, <1>6, <2>2, <2>3, <2>6 DEF AheadOfDispatch
  <2> QED
    BY <2>1, <2>4, <2>7 DEF SweepMissesNone, IdentitySwept, AheadOfCursor
<1>7. CASE disp.st = "ok" /\ disp.kind \in {"scan", "del"} /\ i.step < disp.step
  <2>1. \A r \in origIdp : r[1] > i.step
    BY <1>1, <1>2, <1>7, LeftFacts DEF AheadOfDispatch
  <2>2. CASE disp.kind = "scan" /\ disp.hits = {}
    BY <1>1, <1>2, <1>3, <1>7, <2>1, <2>2, AdvanceMissesNone DEF IdpHarvest
  <2>3. CASE disp.kind = "del"
    BY <1>1, <1>2, <1>3, <1>7, <2>1, <2>3, AdvanceMissesNone DEF IdpHarvest
  <2> QED
    BY <1>6, <1>7, <2>2, <2>3
<1>8. CASE disp.st = "ok" /\ disp.kind = "scan" /\ disp.hits = {} /\ i.step = disp.step
  <2>1. \A r \in origIdp : r[1] > i.step \/ (r[1] = i.step /\ Beyond(r[2], disp.next))
    BY <1>1, <1>2, <1>8, LeftFacts DEF AheadOfDispatch, AheadOfScan, LeftHere
  <2> QED
    BY <1>1, <1>2, <1>3, <1>8, <2>1, AdvanceMissesNone DEF IdpHarvest
<1>9. CASE disp.st = "ok" /\ disp.kind = "del" /\ i.step = disp.step
  <2>1. \A r \in LeftHere : Beyond(r[2], idp.next)
    BY <1>1, <1>2, <1>9 DEF AheadOfDispatch, AheadOfBatch
  <2>2. \A r \in origIdp : r[1] > i.step \/ (r[1] = i.step /\ Beyond(r[2], i.next))
    BY <1>1, <1>2, <1>9, <2>1, LeftFacts DEF AheadOfDispatch, LeftHere
  <2> QED
    BY <1>1, <1>2, <1>3, <1>9, <2>2, AdvanceMissesNone DEF IdpHarvest
<1>10. disp.kind \in {"scan", "del", "cooldown"}
  BY <1>1 DEF DispType
<1>11. disp.kind # "cooldown" => i.step <= disp.step
  BY <1>1, <1>2 DEF AheadOfDispatch
<1> QED
  BY <1>2, <1>4, <1>5, <1>6, <1>7, <1>8, <1>9, <1>10, <1>11

(* One activation of the sweep, whatever it finds.                         *)
LEMMA IdpStepMissesNone ==
  ASSUME IInv, SweepMissesNone, NEW i, StartsAt(i), IdpStep(i),
         origIdp' = origIdp \cap idpRows', ~isTeam, isTeam' = isTeam
  PROVE  SweepMissesNone'
<1>1. /\ TypeOK /\ disp.st \in {"none", "owed", "ok", "bad"} /\ i \in IdpType /\ idp \in IdpType
      /\ (disp.st # "none") = idp.did /\ i.did = idp.did /\ i.did \in BOOLEAN
  BY DEF IInv, TypeOK, DispType, IdpType, StartsAt, DispatchTracked
<1>2. CASE i.did /\ disp.st = "owed"
  <2>1. idp' = i /\ state' = "running" /\ UNCHANGED <<disp, idpRows>>
    BY <1>1, <1>2 DEF IdpStep
  <2>2. Ahead(idp)' /\ origIdp' \subseteq origIdp
    BY <2>1 DEF StartsAt, Ahead
  <2>3. AheadOfDispatch'
    <3>1. AheadOfDispatch /\ i.step <= idp.step /\ i.next = idp.next
      BY <1>2 DEF SweepMissesNone, StartsAt
    <3>2. i.step \in Nat /\ idp.step \in Nat /\ disp.step \in Nat
      BY <1>1, SizesAssumption DEF IdpType, TypeOK, DispType
    <3>3. disp.kind # "cooldown" =>
            i.step <= disp.step /\ \A r \in origIdp' : r[1] >= disp.step
      BY <2>2, <3>1, <3>2 DEF AheadOfDispatch
    <3>4. disp.kind = "scan" => AheadOfScan'
      BY <2>1, <2>2, <3>1 DEF AheadOfDispatch, AheadOfScan, LeftHere
    <3>5. disp.kind = "del" => AheadOfBatch'
      BY <2>1, <2>2, <3>1, <3>2 DEF AheadOfDispatch, AheadOfBatch, LeftHere
    <3> QED
      BY <2>1, <2>2, <3>1, <3>3, <3>4, <3>5 DEF AheadOfDispatch
  <2> QED
    BY <2>1, <2>2, <2>3 DEF SweepMissesNone, IdentitySwept, AheadOfCursor
<1>3. CASE i.did /\ disp.st # "owed"
  BY <1>1, <1>3, HarvestMissesNone DEF IdpStep
<1>4. CASE ~i.did
  BY <1>1, <1>4, ContinueMissesNone DEF IdpStep, StartsAt
<1> QED
  BY <1>2, <1>3, <1>4

(* The target runs the operation.                                          *)
LEMMA ResolvesMissesNone ==
  ASSUME IInv, SweepMissesNone, DispatchResolves
  PROVE  SweepMissesNone'
<1>1. /\ TypeOK /\ disp \in DispType /\ disp.st = "owed" /\ AheadOfDispatch
      /\ UNCHANGED <<isTeam, state, phase, idp>> /\ origIdp' = origIdp \cap idpRows'
  BY DEF IInv, TypeOK, SweepMissesNone, DispatchResolves, marker
<1>2. IdentitySwept' /\ AheadOfCursor'
  BY <1>1 DEF SweepMissesNone, IdentitySwept, AheadOfCursor, Ahead, Deleting
<1>3. /\ UNCHANGED <<disp.kind, disp.step, disp.home, disp.after>>
      /\ disp.kind # "scan" => UNCHANGED disp.hits
  BY <1>1 DEF DispatchResolves, DispType
<1>4. disp.kind = "scan" => AheadOfScan'
  <2> SUFFICES ASSUME disp.kind = "scan" PROVE AheadOfScan'
    OBVIOUS
  <2>1. \A r \in LeftHere' : r \in LeftHere /\ r[2] > disp.after
    BY <1>1, <1>3 DEF AheadOfDispatch, AheadOfScan, LeftHere
  <2>2. CASE disp'.st # "ok"
    BY <1>3, <2>1, <2>2 DEF AheadOfScan
  <2>3. CASE disp'.st = "ok"
    <3> DEFINE present == {p \in Pos : <<disp.step, p>> \in idpRows \cup Foreign}
    <3> DEFINE Scan(page, k) ==
              /\ IsPage(page, present, disp.after, ScanLimit)
              /\ IF Full(page, ScanLimit) THEN IsLast(k, page) ELSE k = 0
              /\ disp' = [disp EXCEPT !.st = "ok", !.next = k,
                            !.hits = {p \in page : <<disp.step, p>> \in idpRows}]
    <3>a. PICK page \in SUBSET Pos : \E k \in page \cup {0} : Scan(page, k)
      BY <1>1, <2>3 DEF DispatchResolves, DispType
    <3>1. PICK k \in page \cup {0} : Scan(page, k)
      BY <3>a
    <3>2. disp'.next = k /\ disp'.hits = {p \in page : <<disp.step, p>> \in idpRows}
      BY <1>1, <3>1 DEF DispType
    <3>3. \A r \in LeftHere' : r[2] \in present /\ <<disp.step, r[2]>> \in idpRows
      BY <1>1, <2>1, LeftFacts DEF LeftHere
    <3>4. disp.after \in Nat /\ ScanLimit \in Nat
      BY <1>1, SizesAssumption DEF DispType
    <3>5. ASSUME NEW r \in LeftHere', r[2] \notin page PROVE Beyond(r[2], k)
      <4>1. r[2] \in present \ page /\ r[2] > disp.after /\ r[2] \in Nat
        BY <1>1, <2>1, <3>3, <3>5, LeftFacts DEF LeftHere
      <4>a. present \in SUBSET Pos
        OBVIOUS
      <4>b. IsPage(page, present, disp.after, ScanLimit)
        BY <3>1
      <4> HIDE DEF present
      <4>c. /\ \A last \in page : IsLast(last, page) => r[2] > last
            /\ Full(page, ScanLimit)
        <5>1. /\ \A last \in page, x \in present \ page : IsLast(last, page) /\ x > disp.after => x > last
              /\ ~Full(page, ScanLimit) => \A x \in present \ page : x <= disp.after
          BY <3>4, <4>a, <4>b, PosPage
        <5> QED
          BY <3>4, <4>1, <5>1
      <4>2. Full(page, ScanLimit) /\ IsLast(k, page) /\ k \in page
        BY <3>1, <4>c DEF IsLast
      <4>3. k # 0
        BY <4>2, SizesAssumption DEF Pos
      <4> QED
        BY <4>2, <4>3, <4>c DEF Beyond
    <3> QED
      BY <1>3, <2>1, <3>2, <3>3, <3>5 DEF AheadOfScan
  <2> QED
    BY <2>2, <2>3
<1>5. disp.kind = "del" => AheadOfBatch'
  <2> SUFFICES ASSUME disp.kind = "del", ~(idp.step < disp.step) PROVE AheadOfBatch'
    BY <1>1, <1>3 DEF AheadOfBatch
  <2>1. /\ disp.home = Home(disp.step)
        /\ \A r \in LeftHere : Beyond(r[2], idp.next) \/ r[2] \in disp.hits
    BY <1>1 DEF AheadOfDispatch, AheadOfBatch
  <2>2. \A r \in LeftHere' : r \in LeftHere
    BY <1>1, <1>3 DEF LeftHere
  <2>3. CASE disp'.st = "ok"
    <3>1. idpRows' = idpRows \ ({disp.step} \X disp.hits)
      BY <1>1, <2>1, <2>3 DEF DispatchResolves, DispType
    <3>2. \A r \in LeftHere' : r[2] \notin disp.hits
      BY <1>1, <2>2, <3>1, LeftFacts DEF LeftHere
    <3> QED
      BY <1>1, <1>3, <2>1, <2>2, <3>2 DEF AheadOfBatch, Home
  <2>4. CASE disp'.st # "ok"
    BY <1>1, <1>3, <2>1, <2>2, <2>4 DEF AheadOfBatch, Home
  <2> QED
    BY <2>3, <2>4
<1>6. AheadOfDispatch'
  BY <1>1, <1>3, <1>4, <1>5 DEF AheadOfDispatch
<1> QED
  BY <1>2, <1>6 DEF SweepMissesNone

(* Every other step leaves the sweep where it is.                          *)
LEMMA SweepLeftAlone ==
  ASSUME SweepMissesNone, UNCHANGED <<isTeam, idp, disp, origIdp>>,
         state' = "done" => state = "done" \/ isTeam,
         phase' = "idp" => phase = "idp" /\ (Deleting' => Deleting)
  PROVE  SweepMissesNone'
<1>1. IdentitySwept' /\ AheadOfCursor'
  BY DEF SweepMissesNone, IdentitySwept, AheadOfCursor, Ahead
<1>2. AheadOfDispatch' = AheadOfDispatch
  BY DEF AheadOfDispatch, AheadOfScan, AheadOfBatch, LeftHere, Home
<1> QED
  BY <1>1, <1>2 DEF SweepMissesNone

(* A wake in the sweep goes on where it is.                                *)
LEMMA WakeIdpMissesNone == ASSUME IInv, SweepMissesNone, WakeIdp PROVE SweepMissesNone'
<1>1. ~isTeam /\ isTeam' = isTeam /\ Deleting /\ phase = "idp"
      /\ IdpStep(idp) /\ origIdp' = origIdp \cap idpRows'
  BY DEF WakeIdp, Deleting, IInv, SweepInRange
<1>2. StartsAt(idp)
  <2>1. idp \in IdpType /\ Ahead(idp) /\ idp.step \in Nat
    BY <1>1, SizesAssumption DEF IInv, TypeOK, SweepMissesNone, AheadOfCursor, IdpType
  <2> QED
    BY <2>1 DEF StartsAt
<1> QED
  BY <1>1, <1>2, IdpStepMissesNone

(* The rows phase starts the sweep at its first step, with the operation   *)
(* that may be out from before a retry.                                    *)
LEMMA WakeRowsMissesNone == ASSUME IInv, SweepMissesNone, WakeRows PROVE SweepMissesNone'
<1>1. isTeam' = isTeam /\ origIdp' = origIdp \cap idpRows' /\ state = "running"
  BY DEF WakeRows
<1>2. origIdp \subseteq idpRows /\ TypeOK
  BY DEF IInv, TypeOK
<1>3. CASE phase' = "rows" /\ UNCHANGED <<state, idp, inst, disp, idpRows>>
  <2>1. UNCHANGED <<isTeam, idp, disp, origIdp>>
    BY <1>1, <1>2, <1>3
  <2> QED
    BY <1>1, <1>3, <2>1, SweepLeftAlone
<1>4. CASE isTeam /\ Finish /\ UNCHANGED <<idp, disp, idpRows>>
  <2>1. UNCHANGED <<isTeam, idp, disp, origIdp>> /\ phase' = "done"
    BY <1>1, <1>2, <1>4 DEF Finish
  <2> QED
    BY <1>4, <2>1, SweepLeftAlone
<1>5. CASE ~isTeam /\ IdpStep([idp EXCEPT !.step = 0, !.cursor = 0])
  <2> DEFINE i == [idp EXCEPT !.step = 0, !.cursor = 0]
  <2>1. /\ i \in IdpType /\ i.did = idp.did /\ i.next = idp.next
        /\ i.step = 0 /\ i.cursor = 0 /\ 0 <= idp.step
    <3>1. idp \in IdpType
      BY <1>2 DEF TypeOK
    <3>2. idp.step \in 0..NSteps
      BY <3>1 DEF IdpType
    <3>3. i \in IdpType /\ i.did = idp.did /\ i.next = idp.next /\ i.step = 0 /\ i.cursor = 0
      BY <3>1, IdpTypeZero DEF IdpType
    <3> QED
      BY <3>2, <3>3, SizesAssumption
  <2> HIDE DEF i
  <2>2. Ahead(i)
    BY <1>2, <2>1, LeftFacts DEF Ahead
  <2>3. StartsAt(i)
    BY <2>1, <2>2 DEF StartsAt
  <2>4. IdpStep(i)
    BY <1>5 DEF i
  <2> QED
    BY <1>1, <1>5, <2>3, <2>4, IdpStepMissesNone
<1> QED
  BY <1>3, <1>4, <1>5 DEF WakeRows

(* The sweep's invariant is inductive, given the job's.                    *)
LEMMA NextMissesNone == IInv /\ SweepMissesNone /\ [Next]_vars => SweepMissesNone'
<1> SUFFICES ASSUME IInv, SweepMissesNone, [Next]_vars PROVE SweepMissesNone'
  OBVIOUS
<1> DEFINE Kept == /\ UNCHANGED <<isTeam, idp, disp, origIdp>>
                   /\ state' = "done" => state = "done"
                   /\ phase' = "idp" => phase = "idp" /\ (Deleting' => Deleting)
<1>1. ASSUME Kept PROVE SweepMissesNone'
  <2>1. UNCHANGED <<isTeam, idp, disp, origIdp>>
    BY <1>1
  <2>2. state' = "done" => state = "done" \/ isTeam
    BY <1>1
  <2>3. phase' = "idp" => phase = "idp" /\ (Deleting' => Deleting)
    BY <1>1
  <2> QED
    BY <2>1, <2>2, <2>3, SweepLeftAlone
<1>2. CASE RequestDeletion
  <2>1. state' = "running" /\ phase' = "billing" /\ disp'.st = "none"
    BY <1>2 DEF RequestDeletion, job, IInv, JobIsClean
  <2> QED
    BY <2>1 DEF SweepMissesNone, IdentitySwept, AheadOfCursor
<1>3. CASE Materialise \/ Invite \/ StartSubscribe \/ Login
  <2>1. Kept
    BY <1>3 DEF Materialise, Invite, StartSubscribe, Login, marker, job, hist, Deleting
  <2> QED
    BY <1>1, <2>1
<1>4. ASSUME NEW t \in Tenants,
             \/ StartProvision(t) \/ StartUndeploy(t) \/ CpProvision(t) \/ OnProvisioned(t)
             \/ CpUndeploy(t) \/ OnDeprovisioned(t) \/ CpDelete(t)
      PROVE  SweepMissesNone'
  <2>1. Kept
    BY <1>4 DEF StartProvision, StartUndeploy, CpProvision, OnProvisioned, CpUndeploy,
       OnDeprovisioned, CpDelete, marker, job, hist, Deleting
  <2> QED
    BY <1>1, <2>1
<1>5. ASSUME NEW t \in Tenants, OnAcctdelCpDelete(t) PROVE SweepMissesNone'
  <2>1. Kept
    BY <1>5 DEF OnAcctdelCpDelete, Deleting
  <2> QED
    BY <1>1, <2>1
<1>6. CASE WakeIdle \/ WakeSends \/ OnBillingSubscription \/ RetryDeletion
  <2>1. Kept
    BY <1>6 DEF WakeIdle, WakeSends, OnBillingSubscription, RetryDeletion, marker, job, hist,
       Deleting
  <2> QED
    BY <1>1, <2>1
<1>7. CASE UNCHANGED vars
  <2>1. Kept
    BY <1>7 DEF vars, marker, job, hist, Deleting
  <2> QED
    BY <1>1, <2>1
<1> QED
  BY <1>2, <1>3, <1>4, <1>5, <1>6, <1>7, WakeRowsMissesNone, WakeIdpMissesNone,
     ResolvesMissesNone DEF Next, People, Wake, Platform

(* Before the first request there is nothing to miss.                      *)
LEMMA InitMissesNone == Init => SweepMissesNone
  BY NoDispType DEF Init, SweepMissesNone, IdentitySwept, AheadOfCursor, Deleting

(* "done" means that every identity row the owner had at the request is    *)
(* gone, whatever the pages, the sizes of steps, failures and retries.     *)
THEOREM IdentitySweptAlways == Spec => []IdentitySwept
<1>1. SweepMissesNone => IdentitySwept
  BY DEF SweepMissesNone
<1> QED
  BY <1>1, InitMissesNone, NextMissesNone, Inductive, PTL DEF Spec
-----------------------------------------------------------------------------
(* The job implements DeletionJob.                                         *)

(* Nothing comes to what is left while the job is not requested.           *)
Shrinks == isTeam' = isTeam /\ orig' \subseteq orig /\ origLive' \subseteq origLive
           /\ origIdp' \subseteq origIdp

(* What is left of less is less.                                           *)
LEMMA LeftShrinks == Shrinks => Left' \subseteq Left
  BY DEF Shrinks, Left

(* How a step that is not a request moves the marker's state.              *)
Moves ==
    \/ state' = state
    \/ state = "running" /\ state' \in {"failed", "done"}
    \/ state = "failed" /\ state' = "running" /\ UNCHANGED <<isTeam, orig, origLive, origIdp>>

(* One activation of the sweep does not leave the job's states.            *)
LEMMA SweepMoves == ASSUME NEW i, IdpStep(i) PROVE state' \in {"running", "failed", "done"}
<1>1. ASSUME NEW j, IdpContinue(j) PROVE state' = "running"
  BY <1>1 DEF IdpContinue
<1>2. ASSUME NEW j, NEW next, IdpAdvance(j, next) PROVE state' = "running"
  BY <1>1, <1>2 DEF IdpAdvance
<1>3. ASSUME IdpHarvest(i) PROVE state' \in {"running", "failed", "done"}
  BY <1>2, <1>3 DEF IdpHarvest, Freeze, Finish
<1> QED
  BY <1>1, <1>3 DEF IdpStep

(* Every step but a request erases only, and moves the marker as it should.*)
LEMMA StepMoves ==
  ASSUME IInv, Next, ~RequestDeletion PROVE Shrinks /\ Moves
<1>1. CASE Materialise \/ Invite \/ StartSubscribe \/ Login
  BY <1>1 DEF Materialise, Invite, StartSubscribe, Login, marker, hist, Shrinks, Moves
<1>2. ASSUME NEW t \in Tenants, StartProvision(t) \/ StartUndeploy(t) \/ CpProvision(t)
                                \/ OnProvisioned(t) \/ CpDelete(t)
      PROVE  Shrinks /\ Moves
  BY <1>2 DEF StartProvision, StartUndeploy, CpProvision, OnProvisioned, CpDelete, marker, hist,
     Shrinks, Moves
<1>3. ASSUME NEW t \in Tenants, CpUndeploy(t) \/ OnDeprovisioned(t)
      PROVE  Shrinks /\ Moves
  BY <1>3 DEF CpUndeploy, OnDeprovisioned, marker, Shrinks, Moves
<1>4. ASSUME NEW t \in Tenants, OnAcctdelCpDelete(t)
      PROVE  Shrinks /\ Moves
  BY <1>4 DEF OnAcctdelCpDelete, Shrinks, Moves
<1>5. CASE WakeIdle \/ WakeSends \/ OnBillingSubscription \/ RetryDeletion \/ DispatchResolves
  BY <1>5 DEF WakeIdle, WakeSends, OnBillingSubscription, RetryDeletion, DispatchResolves, marker,
     hist, Shrinks, Moves
<1>6. CASE WakeRows \/ WakeIdp
  <2>1. state = "running" /\ Shrinks
    BY <1>6 DEF WakeRows, WakeIdp, Shrinks
  <2>2. state' \in {"running", "failed", "done"}
    BY <1>6, SweepMoves DEF WakeRows, WakeIdp, Finish
  <2> QED
    BY <2>1, <2>2 DEF Moves
<1> QED
  BY <1>1, <1>2, <1>3, <1>4, <1>5, <1>6 DEF Next, People, Wake, Platform
(* The initial states are the abstract job's.                              *)
LEMMA InitJob == Init => Job!Init
  BY DEF Init, Job!Init, Left

(* Every step is one of the abstract job's, or leaves it alone.            *)
LEMMA NextJob ==
  ASSUME IInv, SweepMissesNone, IInv', SweepMissesNone', [Next]_vars
  PROVE  [Job!Next]_(Job!vars)
<1>1. CASE UNCHANGED vars
  BY <1>1 DEF vars, marker, hist, Job!vars, Left
<1>2. CASE RequestDeletion
  <2>1. state \in {"none", "done"} /\ state' = "running"
    BY <1>2 DEF RequestDeletion, Deleting, IInv, TypeOK
  <2>2. /\ orig' \subseteq Keys /\ origLive' \subseteq Tenants /\ origIdp' \subseteq IdpKeys
    BY DEF IInv, TypeOK
  <2>3. Left' \subseteq ({"row"} \X Keys) \cup ({"tenant"} \X Tenants) \cup ({"idp"} \X IdpKeys)
    BY <2>2 DEF Left
  <2> QED
    BY <2>1, <2>3 DEF Job!Next, Job!Start
<1>3. CASE Next /\ ~RequestDeletion
  <2>1. Left' \subseteq Left /\ Moves
    BY <1>3, StepMoves, LeftShrinks
  <2>2. CASE state' = state
    BY <2>1, <2>2 DEF Job!Next, Job!Erase
  <2>3. CASE state = "running" /\ state' = "failed"
    BY <2>1, <2>3 DEF Job!Next, Job!Freeze
  <2>4. CASE state = "running" /\ state' = "done"
    <3>1. Left' = {}
      BY <2>4 DEF IInv, OriginalsErased, TenantsDestroyed, SweepMissesNone, IdentitySwept, Left
    <3> QED
      BY <2>4, <3>1 DEF Job!Next, Job!Finish
  <2>5. CASE state = "failed" /\ state' = "running" /\ UNCHANGED <<isTeam, orig, origLive, origIdp>>
    BY <2>5 DEF Job!Next, Job!Retry, Left
  <2> QED
    BY <2>1, <2>2, <2>3, <2>4, <2>5 DEF Moves
<1> QED
  BY <1>1, <1>2, <1>3

(* AccountDeletion implements DeletionJob: requested, running, frozen and  *)
(* retried, and "done" only when nothing is left of what the account held  *)
(* at the request.                                                         *)
THEOREM JobIsImplemented == Spec => JobSpec
<1>1. IInv /\ SweepMissesNone /\ IInv' /\ SweepMissesNone' /\ [Next]_vars => [Job!Next]_(Job!vars)
  BY NextJob
<1> QED
  BY <1>1, InitJob, InitMissesNone, NextMissesNone, Inductive, PTL DEF Spec, JobSpec, Job!Spec
=============================================================================
