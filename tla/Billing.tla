------------------------------- MODULE Billing -------------------------------
(***************************************************************************)
(* One account's subscription (admin/index.mjs, "Billing state" to         *)
(* "Webhook -> enforcement"): the held subscribe chain, the durable change *)
(* and cancel, Stripe's webhook and the plan pushes it owes, against a     *)
(* Stripe that emits an event for every change of a subscription and       *)
(* delivers events late, in any order and more than once.                  *)
(*                                                                         *)
(* The card-testing guards in front of subscribe and change only refuse;   *)
(* they are BillingGuards.  "trialing" behaves as "active" in every test   *)
(* the code makes and is no state of its own here.                         *)
(***************************************************************************)
EXTENDS Naturals, Sequences, FiniteSets

CONSTANTS
    Tiers,          \* SELLABLE_TIERS
    Tenants,
    Slots,          \* bound: subscribe calls in flight at a time
    Lanes,          \* bound: attempts of one push under way at a time
    MaxSubs,        \* bound: subscriptions Stripe creates
    MaxEvents,      \* bound: changes of a subscription
    MaxChanges,     \* bound: plan changes asked for
    Faults          \* what may happen on top: see FaultKinds

FaultKinds == {"reorder", "same_second", "unpaid", "paused", "lost_answer", "give_up"}

Subs      == 1..MaxSubs
Customers == 1..MaxSubs     \* a subscribe chain creates one of each at most
EventIds  == 1..MaxEvents
Plans     == Tiers \cup {"free"}

ASSUME BillingAssumption ==
    /\ "free" \notin Tiers /\ "none" \notin Tiers
    /\ Faults \subseteq FaultKinds
    /\ MaxSubs \in Nat /\ MaxEvents \in Nat /\ MaxChanges \in Nat

VARIABLES
    row,        \* billing/{customer,subscription,status,last_event_ts}
    linked,     \* customers with a row billing/customer/{cus}
    plan,       \* account/{aid}/plan
    seen,       \* billing/event/{id}
    owned,      \* ownedInstances
    push,       \* the marker of the durable send planpush-{t}: its plan
    wire,       \* attempts of that send that were fired and not answered
    cpPlan,     \* the plan the control plane enforces for a tenant
    call,       \* the subscribe chain in each slot
    sends,      \* durable updates of a subscription, owed to Stripe
    sub,        \* Stripe: its subscriptions
    made,       \* Stripe: how many subscriptions and customers there are
    used,       \* Stripe: idempotency keys it remembers, with the answers
    ev,         \* Stripe: its events, oldest first
    handed,     \* subscriptions whose client secret reached the browser
    applied,    \* history: events that were not refused
    told,       \* history: tenants owned when the plan last moved, unless
                \* their push was dropped since
    raced,      \* history: those of them that had an attempt under way
    asked       \* history: plan changes accepted, and what the last one was

ours   == <<row, linked, plan, seen, owned, push, wire>>
stripe == <<sub, made, used, ev>>
hist   == <<handed, applied, told, raced, asked>>
vars   == <<ours, cpPlan, call, sends, stripe, hist>>

Idle == [st |-> "idle", tier |-> "none", prev |-> 0, cus |-> 0, sub |-> 0,
         link |-> FALSE]
NoSub == [st |-> "none", tier |-> "none", cus |-> 0, ending |-> FALSE]
NoAttempt == [plan |-> "none", landed |-> FALSE]

(* BILLING_ACTIVE_STATUSES and PLAN_DOWN_STATUSES.                         *)
ActiveStatuses == {"active", "past_due", "incomplete"}
DownButCanceled == {"unpaid", "incomplete_expired"}     \* mutant: a status forgotten
DownStatuses == {"canceled", "unpaid", "incomplete_expired"}

PaidOnceInvoiced == {"active", "incomplete"}    \* mutant: access before payment
PaidStatuses == {"active"}

(* The plan an event asks for; "none" leaves it alone.                     *)
Target(e) == IF ev[e].st \in PaidStatuses THEN ev[e].tier
             ELSE IF ev[e].st \in DownStatuses THEN "free" ELSE "none"

-----------------------------------------------------------------------------
(* Stripe.  Every change of a subscription is an event with the second it  *)
(* was created in; two events may share one.                               *)
LastSecond == IF ev = <<>> THEN 0 ELSE ev[Len(ev)].at

Emit(s, st, tier) ==
    /\ Len(ev) < MaxEvents
    /\ \E at \in {LastSecond + 1} \cup
              IF "same_second" \in Faults THEN {LastSecond} ELSE {} :
         ev' = Append(ev, [sub |-> s, st |-> st, tier |-> tier, at |-> at])

(* The statuses a subscription goes through without the dashboard.  A      *)
(* subscription is paid by a browser that holds its secret, and expires 23 *)
(* hours after its creation, long after the call that created it.  It is   *)
(* canceled at the end of a period if it was set to, or by dunning.        *)
Moves(s) ==
    CASE sub[s].st = "incomplete" ->
             (IF s \in handed THEN {"active"} ELSE {})
             \cup (IF \E c \in Slots : call[c].sub = s THEN {} ELSE {"incomplete_expired"})
      [] sub[s].st = "active" ->
             {"past_due"} \cup (IF sub[s].ending THEN {"canceled"} ELSE {})
             \cup IF "paused" \in Faults THEN {"paused"} ELSE {}
      [] sub[s].st = "past_due" ->
             {"active", "canceled"} \cup IF "unpaid" \in Faults THEN {"unpaid"} ELSE {}
      [] sub[s].st \in {"unpaid", "paused"} -> {"active", "canceled"}
      [] OTHER -> {}

StripeMoves(s) ==
    \E st \in Moves(s) :
        /\ sub' = [sub EXCEPT ![s] = [@ EXCEPT !.st = st]]
        /\ Emit(s, st, sub[s].tier)
        /\ UNCHANGED <<ours, cpPlan, call, sends, made, used, hist>>

(* Idempotency keys are forgotten after 24 hours.                          *)
KeysExpire ==
    /\ used # {}
    /\ used' = {}
    /\ UNCHANGED <<ours, cpPlan, call, sends, sub, made, ev, hist>>

-----------------------------------------------------------------------------
(* The held subscribe chain.                                               *)
MaySubscribe == row.status \notin ActiveStatuses

(* subscribeBilling: without a customer the chain creates one first.       *)
Subscribe(c, tier) ==
    /\ call[c] = Idle
    /\ MaySubscribe
    /\ call' = [call EXCEPT ![c] =
                   [st |-> IF row.cus = 0 THEN "customer" ELSE "subscription",
                    tier |-> tier, prev |-> row.sub, cus |-> row.cus, sub |-> 0,
                    link |-> row.cus = 0]]
    /\ UNCHANGED <<ours, cpPlan, sends, stripe, hist>>

(* Stripe creates a customer and onBillingCustomer issues the next hop.    *)
OnBillingCustomer(c) ==
    /\ call[c].st = "customer" /\ made.cus < MaxSubs
    /\ made' = [made EXCEPT !.cus = @ + 1]
    /\ call' = [call EXCEPT ![c] = [@ EXCEPT !.st = "subscription", !.cus = made.cus + 1]]
    /\ UNCHANGED <<ours, cpPlan, sends, sub, used, ev, hist>>

(* issueIncompleteSubscription's key names the tier and the subscription   *)
(* before, so a replay is the answer of the first call with it.            *)
Key(c) == [op |-> "create", tier |-> call[c].tier, sub |-> call[c].prev]
Remembers(k) == \E u \in used : u.key = k

StripeCreates(c) ==
    /\ call[c].st = "subscription" /\ ~Remembers(Key(c)) /\ made.sub < MaxSubs
    /\ LET s == made.sub + 1 IN
         /\ made' = [made EXCEPT !.sub = s]
         /\ sub' = [sub EXCEPT ![s] = [st |-> "incomplete", tier |-> call[c].tier,
                                       cus |-> call[c].cus, ending |-> FALSE]]
         /\ used' = used \cup {[key |-> Key(c), sub |-> s]}
         /\ Emit(s, "incomplete", call[c].tier)
         /\ call' = [call EXCEPT ![c] = [@ EXCEPT !.st = "answered", !.sub = s]]
    /\ UNCHANGED <<ours, cpPlan, sends, hist>>

StripeReplays(c) ==
    /\ call[c].st = "subscription"
    /\ \E u \in used :
         /\ u.key = Key(c) /\ sub[u.sub].cus = call[c].cus
         /\ call' = [call EXCEPT ![c] = [@ EXCEPT !.st = "answered", !.sub = u.sub]]
    /\ UNCHANGED <<ours, cpPlan, sends, stripe, hist>>

(* A hop fails (stripeHopFailed) before Stripe did anything, or Stripe did *)
(* it and the answer is lost.                                              *)
HopFails(c) ==
    /\ \/ call[c].st \in {"customer", "subscription"}
       \/ call[c].st = "answered" /\ "lost_answer" \in Faults
    /\ call' = [call EXCEPT ![c] = Idle]
    /\ UNCHANGED <<ours, cpPlan, sends, stripe, hist>>

(* The terminal hop writes the links of a new customer and the             *)
(* subscription as the answer has it, and hands out its secret.            *)
OnBillingSubscription(c) ==
    /\ call[c].st = "answered"
    /\ row' = [row EXCEPT !.cus = IF call[c].link THEN call[c].cus ELSE @,
                          !.sub = call[c].sub, !.status = "incomplete"]
    /\ linked' = linked \cup IF call[c].link THEN {call[c].cus} ELSE {}
    /\ handed' = handed \cup {call[c].sub}
    /\ call' = [call EXCEPT ![c] = Idle]
    /\ UNCHANGED <<plan, seen, owned, push, wire, cpPlan, sends, stripe, applied, told,
                   raced, asked>>

-----------------------------------------------------------------------------
Paid(s) == sub[s].st = "active"

(* Durable updates.  changeBilling and cancelBilling only look for a       *)
(* subscription row.                                                       *)
ChangeBilling(tier) ==
    /\ row.sub # 0
    /\ asked.n < MaxChanges
    /\ sends' = sends \cup {[op |-> "change", tier |-> tier, sub |-> row.sub]}
    /\ asked' = [n |-> asked.n + 1, sub |-> row.sub,
                  tier |-> IF sends = {} /\ Paid(row.sub) THEN tier ELSE "none"]
    /\ UNCHANGED <<ours, cpPlan, call, stripe, handed, applied, told, raced>>

CancelBilling ==
    /\ row.sub # 0
    /\ sends' = sends \cup {[op |-> "cancel", tier |-> "none", sub |-> row.sub]}
    /\ sends' # sends
    /\ UNCHANGED <<ours, cpPlan, call, stripe, hist>>

(* The key of a change names the account and the tier, that of a cancel    *)
(* the account and the subscription.                                       *)
SendKey(m) == IF m.op = "change" THEN [m EXCEPT !.sub = 0] ELSE m

Updated(m) == IF m.op = "change" THEN [sub[m.sub] EXCEPT !.tier = m.tier]
              ELSE [sub[m.sub] EXCEPT !.ending = TRUE]
Effective(m) == /\ ~Remembers(SendKey(m))
                /\ sub[m.sub].st \in {"active", "past_due"}
                /\ Updated(m) # sub[m.sub]

UpdateLands(m) ==
    /\ m \in sends /\ Effective(m)
    /\ sends' = sends \ {m}
    /\ used' = used \cup {[key |-> SendKey(m), sub |-> m.sub]}
    /\ sub' = [sub EXCEPT ![m.sub] = Updated(m)]
    /\ Emit(m.sub, sub[m.sub].st, Updated(m).tier)
    /\ UNCHANGED <<ours, cpPlan, call, made, hist>>

(* Stripe replays an earlier answer, refuses, or has nothing to change.    *)
UpdateIsNoOp(m) ==
    /\ m \in sends /\ ~Effective(m)
    /\ sends' = sends \ {m}
    /\ UNCHANGED <<ours, cpPlan, call, stripe, hist>>

-----------------------------------------------------------------------------
(* handleStripeWebhook.  An event is marked seen whatever becomes of it;   *)
(* a delivery of a seen event changes nothing.                             *)
AlwaysFresh(e) == TRUE      \* mutant: no watermark
NotStale(e) == ev[e].at >= row.ts
Deliverable(e) == /\ e \in DOMAIN ev \ seen
                  /\ "reorder" \in Faults \/ \A f \in DOMAIN ev : f < e => f \in seen
Known(e) == sub[ev[e].sub].cus \in linked

WebhookIgnored(e) ==
    /\ Deliverable(e)
    /\ ~Known(e) \/ ~NotStale(e)
    /\ seen' = seen \cup {e}
    /\ UNCHANGED <<row, linked, plan, owned, push, wire, cpPlan, call, sends, stripe, hist>>

(* pushPlanToTenant: a keyed durable send.  Its marker overwrites that of  *)
(* a send still owed, and a first attempt is fired at once, whatever       *)
(* attempts of the send before are still under way.                        *)
Free(t) == {i \in Lanes : wire[t][i] = NoAttempt}
Fired(t, p) == [wire[t] EXCEPT ![CHOOSE i \in Free(t) : TRUE] =
                   [plan |-> p, landed |-> FALSE]]

FirstPushStays(target) ==   \* mutant: an owed push is not overwritten
    [t \in Tenants |-> IF t \in owned /\ push[t] = "none" THEN target ELSE push[t]]
Pushed(target) == [t \in Tenants |-> IF t \in owned THEN target ELSE push[t]]

(* applyPlanFromSubscription: nothing to do, or the plan row moves and a   *)
(* push to every owned tenant is owed.                                     *)
ApplyPlan(target) ==
    \/ /\ target \in {"none", plan}
       /\ UNCHANGED <<plan, push, wire, told, raced>>
    \/ /\ target \notin {"none", plan}
       /\ \A t \in owned : Free(t) # {}
       /\ plan' = target
       /\ push' = Pushed(target)
       /\ wire' = [t \in Tenants |-> IF t \in owned THEN Fired(t, target) ELSE wire[t]]
       /\ told' = owned
       /\ raced' = {t \in owned : Free(t) # Lanes}

WebhookApplied(e) ==
    /\ Deliverable(e)
    /\ Known(e) /\ NotStale(e)
    /\ seen' = seen \cup {e}
    /\ applied' = applied \cup {e}
    /\ row' = [row EXCEPT !.ts = ev[e].at, !.sub = ev[e].sub, !.status = ev[e].st]
    /\ ApplyPlan(Target(e))
    /\ UNCHANGED <<linked, owned, cpPlan, call, sends, stripe, handed, asked>>

-----------------------------------------------------------------------------
(* The attempts of a push.  The control plane takes one in any order; the  *)
(* attempt is then answered, or fails.  What timed out on our side may     *)
(* still be on its way, so a failure need not end an attempt.              *)
PushLands(t, i) ==
    /\ wire[t][i] # NoAttempt /\ ~wire[t][i].landed
    /\ cpPlan' = [cpPlan EXCEPT ![t] = wire[t][i].plan]
    /\ wire' = [wire EXCEPT ![t][i] = [plan |-> @.plan, landed |-> TRUE]]
    /\ UNCHANGED <<row, linked, plan, seen, owned, push, call, sends, stripe, hist>>

(* webhook_onresult: a success deletes the marker of the send, whatever    *)
(* the marker carries by now.                                              *)
PushAnswered(t, i) ==
    /\ wire[t][i].landed
    /\ wire' = [wire EXCEPT ![t][i] = NoAttempt]
    /\ push' = [push EXCEPT ![t] = "none"]
    /\ UNCHANGED <<row, linked, plan, seen, owned, cpPlan, call, sends, stripe, hist>>

(* A failure with attempts left keeps the marker.                          *)
PushFails(t, i) ==
    /\ wire[t][i] # NoAttempt
    /\ wire' = [wire EXCEPT ![t][i] = NoAttempt]
    /\ UNCHANGED <<row, linked, plan, seen, owned, push, cpPlan, call, sends, stripe, hist>>

(* webhook_fire, for a retry or the watchdog: the body is read again from  *)
(* the marker.                                                             *)
PushRefires(t) ==
    /\ push[t] # "none" /\ Free(t) # {}
    /\ wire' = [wire EXCEPT ![t] = Fired(t, push[t])]
    /\ UNCHANGED <<row, linked, plan, seen, owned, push, cpPlan, call, sends, stripe, hist>>

(* A refusal, or the last of 8 attempts failed.                            *)
PushGivesUp(t) ==
    /\ "give_up" \in Faults /\ push[t] # "none"
    /\ push' = [push EXCEPT ![t] = "none"]
    /\ told' = told \ {t}
    /\ UNCHANGED <<row, linked, plan, seen, owned, wire, cpPlan, call, sends, stripe,
                   handed, applied, raced, asked>>

(* onProvisioned: a tenant of this account, which the control plane formed *)
(* without being told a plan.                                              *)
OnProvisioned(t) ==
    /\ t \notin owned
    /\ owned' = owned \cup {t}
    /\ UNCHANGED <<row, linked, plan, seen, push, wire, cpPlan, call, sends, stripe, hist>>

Init ==
    /\ row = [cus |-> 0, sub |-> 0, status |-> "none", ts |-> 0]
    /\ linked = {} /\ plan = "free" /\ seen = {}
    /\ owned = {} /\ push = [t \in Tenants |-> "none"]
    /\ wire = [t \in Tenants |-> [i \in Lanes |-> NoAttempt]]
    /\ cpPlan = [t \in Tenants |-> "free"]
    /\ call = [c \in Slots |-> Idle]
    /\ sends = {}
    /\ sub = [s \in Subs |-> NoSub]
    /\ made = [sub |-> 0, cus |-> 0] /\ used = {} /\ ev = <<>>
    /\ handed = {} /\ applied = {} /\ told = {} /\ raced = {}
    /\ asked = [n |-> 0, sub |-> 0, tier |-> "none"]

Next ==
    \/ \E s \in Subs : StripeMoves(s)
    \/ KeysExpire
    \/ \E c \in Slots :
         \/ \E tier \in Tiers : Subscribe(c, tier)
         \/ OnBillingCustomer(c) \/ StripeCreates(c) \/ StripeReplays(c)
         \/ HopFails(c) \/ OnBillingSubscription(c)
    \/ \E tier \in Tiers : ChangeBilling(tier)
    \/ CancelBilling
    \/ \E m \in sends : UpdateLands(m) \/ UpdateIsNoOp(m)
    \/ \E e \in EventIds : WebhookIgnored(e) \/ WebhookApplied(e)
    \/ \E t \in Tenants :
         \/ \E i \in Lanes : PushLands(t, i) \/ PushAnswered(t, i) \/ PushFails(t, i)
         \/ PushRefires(t) \/ PushGivesUp(t) \/ OnProvisioned(t)

Spec == Init /\ [][Next]_vars

-----------------------------------------------------------------------------
Statuses == {"none", "incomplete", "active", "past_due", "unpaid", "paused", "canceled",
             "incomplete_expired"}
MaybeTier == Tiers \cup {"none"}
Keys == [op : {"create", "change", "cancel"}, tier : MaybeTier, sub : 0..MaxSubs]
SendType == [op : {"change", "cancel"}, tier : MaybeTier, sub : Subs]
CallType == [st : {"idle", "customer", "subscription", "answered"}, tier : MaybeTier,
             prev : 0..MaxSubs, cus : 0..MaxSubs, sub : 0..MaxSubs, link : BOOLEAN]
SubType == [st : Statuses, tier : MaybeTier, cus : 0..MaxSubs, ending : BOOLEAN]
EventType == [sub : Subs, st : Statuses, tier : Tiers, at : Nat]
AttemptType == [plan : Plans \cup {"none"}, landed : BOOLEAN]
RowType == [cus : 0..MaxSubs, sub : 0..MaxSubs, status : Statuses, ts : Nat]

(* Type correctness of the billing rows, the calls, the sends and Stripe.  *)
TypeOK ==
    /\ row \in RowType
    /\ linked \subseteq Customers /\ plan \in Plans /\ seen \subseteq DOMAIN ev
    /\ owned \subseteq Tenants /\ push \in [Tenants -> Plans \cup {"none"}]
    /\ wire \in [Tenants -> [Lanes -> AttemptType]]
    /\ cpPlan \in [Tenants -> Plans]
    /\ call \in [Slots -> CallType]
    /\ sends \subseteq SendType
    /\ sub \in [Subs -> SubType]
    /\ made \in [sub : 0..MaxSubs, cus : 0..MaxSubs]
    /\ used \subseteq [key : Keys, sub : Subs]
    /\ ev \in Seq(EventType)
    /\ handed \subseteq Subs /\ applied \subseteq seen
    /\ told \subseteq owned /\ raced \subseteq owned
    /\ asked \in [n : Nat, sub : 0..MaxSubs, tier : MaybeTier]

(* However Stripe's deliveries are reordered, an event that was applied is *)
(* overruled only by an applied event created in the same second or later: *)
(* the watermark last_event_ts.                                            *)
PlanNotStale ==
    \A e \in applied : Target(e) \notin {"none", plan} =>
        \E f \in applied : Target(f) = plan /\ ev[f].at >= ev[e].at

(* No paid plan without a payment: a plan row other than free was earned   *)
(* by a subscription of that tier that became active.                      *)
NoPlanUnpaid ==
    plan # "free" => \E e \in DOMAIN ev : ev[e].st = "active" /\ ev[e].tier = plan

(* A push owed carries the plan.  A tenant that was there when the plan    *)
(* moved, with no attempt of an older push under way, enforces the plan or *)
(* is owed it until its push is given up: whichever of the attempts land,  *)
(* are answered, fail or are repeated, and in whatever order.              *)
NoStalePush ==
    /\ \A t \in Tenants : push[t] = "none" \/ (t \in owned /\ push[t] = plan)
    /\ \A t \in told \ raced : plan \in {push[t], cpPlan[t]}

(* The same of every tenant: what the comment on the push promises ("a     *)
(* NEWER push for a tenant overwrites an undelivered older one instead of  *)
(* racing it").  An older attempt under way breaks it.                     *)
PushConverges ==
    \A t \in told : Free(t) = Lanes => plan \in {push[t], cpPlan[t]}

(* What is under way to such a tenant is the plan, and has been enforced   *)
(* when it landed.                                                         *)
UnderWay ==
    /\ \A t \in Tenants : Free(t) # Lanes => t \in owned
    /\ \A t \in told \ raced, i \in Lanes : wire[t][i] # NoAttempt =>
         /\ wire[t][i].plan = plan
         /\ wire[t][i].landed => cpPlan[t] = plan

(* No event that was applied is later than the watermark.                  *)
Watermark == \A e \in applied : ev[e].at <= row.ts

(* What is in flight has what its stage needs.                             *)
WellFormed ==
    /\ \A s \in Subs : sub[s].st # "none" => sub[s].tier \in Tiers
    /\ \A c \in Slots :
         /\ call[c].st # "idle" => call[c].tier \in Tiers
         /\ call[c].st \in {"subscription", "answered"} => call[c].cus \in Customers
         /\ call[c].st = "answered" => call[c].sub \in Subs
    /\ \A m \in sends : m.op = "change" => m.tier \in Tiers

(* The inductive invariant of them.                                        *)
IInv == TypeOK /\ WellFormed /\ Watermark /\ PlanNotStale /\ NoPlanUnpaid /\ NoStalePush
        /\ UnderWay

-----------------------------------------------------------------------------
(* Once nothing is in flight.                                              *)
Quiet == /\ \A c \in Slots : call[c] = Idle
         /\ sends = {} /\ seen = DOMAIN ev

Ended(s) == sub[s].st \in {"unpaid", "incomplete_expired", "canceled"}

(* A step that keeps an account to one subscription after another: a       *)
(* subscribe is only begun with no other under way and no subscription     *)
(* that Stripe may still revive (unpaid, paused), no answer is lost, and   *)
(* no two events are of one second.                                        *)
Over == {"none", "canceled", "incomplete_expired"}
OneAfterTheOther ==
    /\ \A c \in Slots : call[c].st = "idle" /\ call'[c].st # "idle" =>
         row.status \in Over /\ \A d \in Slots : call[d].st = "idle"
    /\ \A c \in Slots : call[c].st = "answered" /\ call'[c] # call[c] =>
         call[c].sub \in handed'
    /\ ev' # ev => LastSecond' # LastSecond

(* While that is so the rows at rest are what Stripe has, in whatever      *)
(* order its events came: the last subscription, its status, and the plan  *)
(* it pays for.                                                            *)
RowsFollowStripe ==
    Quiet /\ linked # {} =>
        /\ row.sub = made.sub
        /\ row.status = sub[made.sub].st
        /\ Paid(made.sub) => plan = sub[made.sub].tier
        /\ Ended(made.sub) => plan = "free"

(* "An account already subscribed cannot subscribe again": what is behind  *)
(* it, a paid-up subscription keeps its plan.                              *)
PaidKeepsPlan == Quiet /\ (\E s \in Subs : Paid(s)) => plan # "free"

(* The last plan change takes effect, when it was accepted for a paid-up   *)
(* subscription and nothing else was owed to Stripe.                       *)
ChangeTakes ==
    Quiet /\ asked.tier # "none" /\ Paid(asked.sub) => sub[asked.sub].tier = asked.tier
=============================================================================
