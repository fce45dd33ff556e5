---------------------------- MODULE BillingProofs ----------------------------
(***************************************************************************)
(* The invariants of Billing that hold whatever Stripe's deliveries and    *)
(* the control plane do, for every set of tiers, tenants and calls; that   *)
(* the rows end up at what Stripe has; and the invariants of BillingGuards.*)
(*                                                                         *)
(* The watermark is what makes the plan current: an event is applied only  *)
(* when it is no older than every event applied before it, so whatever it  *)
(* decides overrules them.  Pushes carry the plan because the plan row and *)
(* all owed pushes move in one step.                                       *)
(***************************************************************************)
EXTENDS Billing, BillingGuards, TLAPS

USE BillingAssumption

(* An account without a subscription satisfies the invariant.              *)
LEMMA InitIInv == Init => IInv
  BY DEF Init, IInv, TypeOK, WellFormed, Watermark, PlanNotStale, NoPlanUnpaid, NoStalePush,
         RowType, CallType, SubType, Idle, NoSub, Statuses, MaybeTier, Plans, Subs,
         Customers, SendType, UnderWay, Free, NoAttempt, AttemptType

(* Stripe's history only grows, by an event of the type of all others.     *)
LEMMA EmitGrows ==
  ASSUME TypeOK, NEW s \in Subs, NEW st \in Statuses, NEW tier \in Tiers,
         Emit(s, st, tier)
  PROVE  /\ ev' \in Seq(EventType)
         /\ DOMAIN ev \subseteq DOMAIN ev'
         /\ \A e \in DOMAIN ev : ev'[e] = ev[e]
<1>1. ev \in Seq(EventType)
  BY DEF TypeOK
<1>2. LastSecond \in Nat
  <2>1. CASE ev = <<>>
    BY <2>1 DEF LastSecond
  <2>2. CASE ev # <<>>
    <3>1. Len(ev) \in 1..Len(ev)
      BY <1>1, <2>2
    <3>2. ev[Len(ev)] \in EventType
      BY <1>1, <3>1
    <3> QED
      BY <2>2, <3>2 DEF LastSecond, EventType
  <2> QED
    BY <2>1, <2>2
<1>3. PICK at \in Nat : ev' = Append(ev, [sub |-> s, st |-> st, tier |-> tier, at |-> at])
  BY <1>2 DEF Emit
<1> DEFINE x == [sub |-> s, st |-> st, tier |-> tier, at |-> at]
<1>4. x \in EventType
  BY DEF EventType
<1>5. ev' = Append(ev, x)
  BY <1>3
<1> HIDE DEF x
<1> QED
  BY <1>1, <1>4, <1>5

(* While the plan, the watermark and what was applied stay, a history that *)
(* grows changes nothing.                                                  *)
LEMMA PlanFrame ==
  ASSUME IInv, UNCHANGED <<plan, applied, row.ts>>,
         DOMAIN ev \subseteq DOMAIN ev', \A e \in DOMAIN ev : ev'[e] = ev[e]
  PROVE  Watermark' /\ PlanNotStale' /\ NoPlanUnpaid'
<1>1. applied \subseteq DOMAIN ev
  BY DEF IInv, TypeOK
<1>2. \A e \in applied : ev'[e] = ev[e] /\ Target(e)' = Target(e)
  BY <1>1 DEF Target
<1>3. Watermark'
  BY <1>2 DEF IInv, Watermark
<1>4. PlanNotStale'
  BY <1>2 DEF IInv, PlanNotStale
<1>5. NoPlanUnpaid'
  BY DEF IInv, NoPlanUnpaid
<1> QED
  BY <1>3, <1>4, <1>5

(* Without a push, a plan or a control plane in motion, none goes stale.   *)
LEMMA PushFrame ==
  ASSUME IInv, UNCHANGED <<plan, push, wire, cpPlan, told, raced>>, owned \subseteq owned'
  PROVE  NoStalePush' /\ UnderWay'
  BY DEF IInv, NoStalePush, UnderWay, Free
-----------------------------------------------------------------------------
(* A change of one subscription that Stripe makes on its own.              *)
LEMMA StripeMovesStep ==
  ASSUME IInv, NEW s \in Subs, StripeMoves(s)
  PROVE  IInv'
<1>1. PICK st \in Moves(s) : /\ sub' = [sub EXCEPT ![s] = [@ EXCEPT !.st = st]]
                             /\ Emit(s, st, sub[s].tier)
                             /\ UNCHANGED <<ours, cpPlan, call, sends, made, used, hist>>
  BY DEF StripeMoves
<1>2. TypeOK /\ WellFormed
  BY DEF IInv
<1>3. st \in Statuses /\ sub[s].st # "none"
  BY DEF Moves, Statuses
<1>4. sub[s].tier \in Tiers /\ sub[s] \in SubType
  BY <1>2, <1>3 DEF WellFormed, TypeOK
<1>5. /\ ev' \in Seq(EventType) /\ DOMAIN ev \subseteq DOMAIN ev'
      /\ \A e \in DOMAIN ev : ev'[e] = ev[e]
  BY <1>1, <1>2, <1>3, <1>4, EmitGrows
<1> DEFINE x == [sub[s] EXCEPT !.st = st]
<1>6. x \in SubType /\ x.tier \in Tiers
  BY <1>3, <1>4 DEF SubType
<1>7. sub' = [sub EXCEPT ![s] = x]
  BY <1>1
<1> HIDE DEF x
<1>8. sub' \in [Subs -> SubType] /\ \A r \in Subs : sub'[r] = IF r = s THEN x ELSE sub[r]
  BY <1>2, <1>6, <1>7 DEF TypeOK
<1>9. TypeOK'
  BY <1>1, <1>2, <1>5, <1>8 DEF TypeOK, ours, hist
<1>10. WellFormed'
  BY <1>1, <1>2, <1>6, <1>8 DEF WellFormed
<1>11. Watermark' /\ PlanNotStale' /\ NoPlanUnpaid'
  <2>1. UNCHANGED <<plan, applied, row.ts>>
    BY <1>1 DEF ours, hist
  <2> QED
    BY <2>1, <1>5, PlanFrame
<1>12. NoStalePush' /\ UnderWay'
  BY <1>1, PushFrame DEF ours, hist
<1> QED
  BY <1>9, <1>10, <1>11, <1>12 DEF IInv

(* A step that only moves one call, to an answer or on to the next hop,    *)
(* and what idempotency and creation remember.                             *)
LEMMA CallStep ==
  ASSUME IInv, NEW c \in Slots, NEW x \in CallType,
         call' = [call EXCEPT ![c] = x],
         x.st # "idle" => x.tier \in Tiers,
         x.st \in {"subscription", "answered"} => x.cus \in Customers,
         x.st = "answered" => x.sub \in Subs,
         made' \in [sub : 0..MaxSubs, cus : 0..MaxSubs],
         UNCHANGED <<ours, cpPlan, sends, sub, used, ev, hist>>
  PROVE  IInv'
<1>1. TypeOK /\ WellFormed
  BY DEF IInv
<1>2. call' \in [Slots -> CallType] /\ \A d \in Slots : call'[d] = IF d = c THEN x ELSE call[d]
  BY <1>1 DEF TypeOK
<1>3. TypeOK'
  BY <1>1, <1>2 DEF TypeOK, ours, hist
<1>4. WellFormed'
  BY <1>1, <1>2 DEF WellFormed
<1>5. Watermark' /\ PlanNotStale' /\ NoPlanUnpaid'
  BY PlanFrame DEF ours, hist
<1>6. NoStalePush' /\ UnderWay'
  BY PushFrame DEF ours, hist
<1> QED
  BY <1>3, <1>4, <1>5, <1>6 DEF IInv

(* The hops of the subscribe chain before its last.                        *)
LEMMA SubscribeStep ==
  ASSUME IInv, NEW c \in Slots, NEW tier \in Tiers, Subscribe(c, tier)
  PROVE  IInv'
<1> DEFINE x == [st |-> IF row.cus = 0 THEN "customer" ELSE "subscription",
                 tier |-> tier, prev |-> row.sub, cus |-> row.cus, sub |-> 0,
                 link |-> row.cus = 0]
<1>1. row \in RowType /\ made \in [sub : 0..MaxSubs, cus : 0..MaxSubs]
  BY DEF IInv, TypeOK
<1>2. x \in CallType /\ x.tier \in Tiers /\ x.st \in {"customer", "subscription"}
      /\ (x.st = "subscription" => x.cus \in Customers)
  <2>1. row.sub \in 0..MaxSubs /\ row.cus \in 0..MaxSubs /\ 0 \in 0..MaxSubs
    BY <1>1 DEF RowType
  <2>2. x \in CallType
    BY <2>1 DEF CallType, MaybeTier
  <2>3. row.cus # 0 => row.cus \in Customers
    BY <2>1 DEF Customers
  <2> QED
    BY <2>2, <2>3
<1>3. call' = [call EXCEPT ![c] = x] /\ UNCHANGED <<ours, cpPlan, sends, sub, made, used, ev, hist>>
  BY DEF Subscribe, stripe
<1> HIDE DEF x
<1> QED
  BY <1>1, <1>2, <1>3, CallStep

LEMMA CustomerStep ==
  ASSUME IInv, NEW c \in Slots, OnBillingCustomer(c)
  PROVE  IInv'
<1> DEFINE x == [call[c] EXCEPT !.st = "subscription", !.cus = made.cus + 1]
<1>1. call[c] \in CallType /\ made \in [sub : 0..MaxSubs, cus : 0..MaxSubs] /\ WellFormed
  BY DEF IInv, TypeOK
<1>2. made.cus + 1 \in Customers /\ call[c].tier \in Tiers
  BY <1>1 DEF OnBillingCustomer, WellFormed, Customers
<1>3. x \in CallType /\ x.tier \in Tiers /\ x.st = "subscription" /\ x.cus \in Customers
  <2>1. made.cus + 1 \in 0..MaxSubs
    BY <1>2 DEF Customers
  <2>2. x \in CallType
    BY <1>1, <2>1 DEF CallType
  <2> QED
    BY <1>1, <1>2, <2>2 DEF CallType
<1>4. made' \in [sub : 0..MaxSubs, cus : 0..MaxSubs]
  BY <1>1 DEF OnBillingCustomer
<1>5. call' = [call EXCEPT ![c] = x] /\ UNCHANGED <<ours, cpPlan, sends, sub, used, ev, hist>>
  BY DEF OnBillingCustomer
<1> HIDE DEF x
<1> QED
  BY <1>3, <1>4, <1>5, CallStep

LEMMA ReplayStep ==
  ASSUME IInv, NEW c \in Slots, StripeReplays(c)
  PROVE  IInv'
<1>1. PICK u \in used : call' = [call EXCEPT ![c] = [@ EXCEPT !.st = "answered", !.sub = u.sub]]
  BY DEF StripeReplays
<1> DEFINE x == [call[c] EXCEPT !.st = "answered", !.sub = u.sub]
<1>2. call[c] \in CallType /\ made \in [sub : 0..MaxSubs, cus : 0..MaxSubs] /\ WellFormed
      /\ u.sub \in Subs
  BY DEF IInv, TypeOK
<1>3. call[c].tier \in Tiers /\ call[c].cus \in Customers
  BY <1>2 DEF StripeReplays, WellFormed
<1>4. x \in CallType /\ x.tier \in Tiers /\ x.st = "answered" /\ x.cus \in Customers /\ x.sub \in Subs
  <2>1. u.sub \in 0..MaxSubs
    BY <1>2 DEF Subs
  <2>2. x \in CallType
    BY <1>2, <2>1 DEF CallType
  <2> QED
    BY <1>2, <1>3, <2>2 DEF CallType
<1>5. call' = [call EXCEPT ![c] = x] /\ UNCHANGED <<ours, cpPlan, sends, sub, made, used, ev, hist>>
  BY <1>1 DEF StripeReplays, stripe
<1> HIDE DEF x
<1> QED
  BY <1>2, <1>4, <1>5, CallStep

LEMMA HopFailsStep ==
  ASSUME IInv, NEW c \in Slots, HopFails(c)
  PROVE  IInv'
<1>1. Idle \in CallType /\ Idle.st = "idle"
  BY DEF Idle, CallType, MaybeTier
<1>2. made \in [sub : 0..MaxSubs, cus : 0..MaxSubs]
  BY DEF IInv, TypeOK
<1>3. call' = [call EXCEPT ![c] = Idle] /\ UNCHANGED <<ours, cpPlan, sends, sub, made, used, ev, hist>>
  BY DEF HopFails, stripe
<1> QED
  BY <1>1, <1>2, <1>3, CallStep
(* Stripe creates a subscription.                                          *)
LEMMA StripeCreatesStep ==
  ASSUME IInv, NEW c \in Slots, StripeCreates(c)
  PROVE  IInv'
<1> DEFINE s == made.sub + 1
<1> DEFINE x == [call[c] EXCEPT !.st = "answered", !.sub = s]
<1> DEFINE n == [st |-> "incomplete", tier |-> call[c].tier, cus |-> call[c].cus,
                 ending |-> FALSE]
<1> DEFINE u == [key |-> Key(c), sub |-> s]
<1>1. TypeOK /\ WellFormed
  BY DEF IInv
<1>2. /\ call[c] \in CallType /\ made \in [sub : 0..MaxSubs, cus : 0..MaxSubs]
      /\ call[c].tier \in Tiers /\ call[c].cus \in Customers
  BY <1>1 DEF TypeOK, WellFormed, StripeCreates
<1>3. s \in Subs /\ s \in 0..MaxSubs
  BY <1>2 DEF StripeCreates, Subs
<1>4. /\ made' = [made EXCEPT !.sub = s] /\ sub' = [sub EXCEPT ![s] = n]
      /\ used' = used \cup {u} /\ Emit(s, "incomplete", call[c].tier)
      /\ call' = [call EXCEPT ![c] = x]
      /\ UNCHANGED <<ours, cpPlan, sends, hist>>
  BY DEF StripeCreates
<1>5. made' \in [sub : 0..MaxSubs, cus : 0..MaxSubs]
  BY <1>2, <1>3, <1>4
<1>6. /\ x \in CallType /\ x.st = "answered" /\ x.tier \in Tiers
      /\ x.cus \in Customers /\ x.sub \in Subs
  <2>1. x \in CallType
    BY <1>2, <1>3 DEF CallType
  <2> QED
    BY <1>2, <1>3, <2>1 DEF CallType
<1>7. n \in SubType /\ n.tier \in Tiers
  <2>1. call[c].cus \in 0..MaxSubs
    BY <1>2 DEF Customers
  <2> QED
    BY <1>2, <2>1 DEF SubType, Statuses, MaybeTier
<1>8. u \in [key : Keys, sub : Subs]
  BY <1>2, <1>3 DEF Key, Keys, MaybeTier, CallType
<1> HIDE DEF s, x, n, u
<1>9. /\ ev' \in Seq(EventType) /\ DOMAIN ev \subseteq DOMAIN ev'
      /\ \A e \in DOMAIN ev : ev'[e] = ev[e]
  <2>1. "incomplete" \in Statuses
    BY DEF Statuses
  <2> QED
    BY <1>1, <1>2, <1>3, <1>4, <2>1, EmitGrows
<1>10. sub' \in [Subs -> SubType] /\ \A r \in Subs : sub'[r] = IF r = s THEN n ELSE sub[r]
  BY <1>1, <1>3, <1>4, <1>7 DEF TypeOK
<1>11. call' \in [Slots -> CallType] /\ \A d \in Slots : call'[d] = IF d = c THEN x ELSE call[d]
  BY <1>1, <1>4, <1>6 DEF TypeOK
<1>12. TypeOK'
  BY <1>1, <1>4, <1>5, <1>8, <1>9, <1>10, <1>11 DEF TypeOK, ours, hist
<1>13. WellFormed'
  BY <1>1, <1>4, <1>6, <1>7, <1>10, <1>11 DEF WellFormed
<1>14. Watermark' /\ PlanNotStale' /\ NoPlanUnpaid'
  <2>1. UNCHANGED <<plan, applied, row.ts>>
    BY <1>4 DEF ours, hist
  <2> QED
    BY <2>1, <1>9, PlanFrame
<1>15. NoStalePush' /\ UnderWay'
  BY <1>4, PushFrame DEF ours, hist
<1> QED
  BY <1>12, <1>13, <1>14, <1>15 DEF IInv

(* The terminal hop writes rows, and none of those the plan depends on.    *)
LEMMA OnBillingSubscriptionStep ==
  ASSUME IInv, NEW c \in Slots, OnBillingSubscription(c)
  PROVE  IInv'
<1>1. TypeOK /\ WellFormed
  BY DEF IInv
<1>2. call[c] \in CallType /\ call[c].cus \in Customers /\ call[c].sub \in Subs /\ row \in RowType
  BY <1>1 DEF TypeOK, WellFormed, OnBillingSubscription
<1>3. row' \in RowType /\ row'.ts = row.ts
  BY <1>2 DEF OnBillingSubscription, RowType, CallType, Statuses
<1>4. call' \in [Slots -> CallType] /\ \A d \in Slots : call'[d] = IF d = c THEN Idle ELSE call[d]
  <2>1. Idle \in CallType
    BY DEF Idle, CallType, MaybeTier
  <2> QED
    BY <1>1, <2>1 DEF TypeOK, OnBillingSubscription
<1>5. TypeOK'
  BY <1>1, <1>2, <1>3, <1>4 DEF TypeOK, OnBillingSubscription, stripe
<1>6. WellFormed'
  BY <1>1, <1>4 DEF WellFormed, OnBillingSubscription, stripe, Idle
<1>7. Watermark' /\ PlanNotStale' /\ NoPlanUnpaid'
  BY <1>3, PlanFrame DEF OnBillingSubscription, stripe
<1>8. NoStalePush' /\ UnderWay'
  BY PushFrame DEF OnBillingSubscription
<1> QED
  BY <1>5, <1>6, <1>7, <1>8 DEF IInv
-----------------------------------------------------------------------------
(* Asking for a change or a cancellation owes Stripe an update.            *)
LEMMA AskStep ==
  ASSUME IInv, (\E tier \in Tiers : ChangeBilling(tier)) \/ CancelBilling
  PROVE  IInv'
<1>1. TypeOK /\ WellFormed /\ row \in RowType
  BY DEF IInv, TypeOK
<1>2. row.sub \in Subs
  BY <1>1 DEF ChangeBilling, CancelBilling, RowType, Subs
<1>3. \E m \in SendType : sends' = sends \cup {m} /\ (m.op = "change" => m.tier \in Tiers)
  <2>1. ASSUME NEW tier \in Tiers, ChangeBilling(tier)
        PROVE  \E m \in SendType : sends' = sends \cup {m} /\ (m.op = "change" => m.tier \in Tiers)
    <3> DEFINE m == [op |-> "change", tier |-> tier, sub |-> row.sub]
    <3>1. m \in SendType /\ m.tier \in Tiers
      BY <1>2 DEF SendType, MaybeTier
    <3>2. sends' = sends \cup {m}
      BY <2>1 DEF ChangeBilling
    <3> HIDE DEF m
    <3> QED
      BY <3>1, <3>2
  <2>2. ASSUME CancelBilling
        PROVE  \E m \in SendType : sends' = sends \cup {m} /\ (m.op = "change" => m.tier \in Tiers)
    <3> DEFINE m == [op |-> "cancel", tier |-> "none", sub |-> row.sub]
    <3>1. m \in SendType /\ m.op # "change"
      BY <1>2 DEF SendType, MaybeTier
    <3>2. sends' = sends \cup {m}
      BY <2>2 DEF CancelBilling
    <3> HIDE DEF m
    <3> QED
      BY <3>1, <3>2
  <2> QED
    BY <2>1, <2>2
<1>4. asked' \in [n : Nat, sub : 0..MaxSubs, tier : MaybeTier]
  BY <1>1 DEF ChangeBilling, CancelBilling, hist, TypeOK, MaybeTier, RowType
<1>5. UNCHANGED <<ours, cpPlan, call, stripe, handed, applied, told, raced>>
  BY DEF ChangeBilling, CancelBilling, hist
<1>6. TypeOK'
  <2>1. sends' \subseteq SendType
    BY <1>1, <1>3 DEF TypeOK
  <2> QED
    BY <1>1, <1>4, <1>5, <2>1 DEF TypeOK, ours, stripe
<1>7. WellFormed'
  BY <1>1, <1>3, <1>5 DEF WellFormed, stripe
<1>8. Watermark' /\ PlanNotStale' /\ NoPlanUnpaid'
  BY <1>5, PlanFrame DEF ours, stripe
<1>9. NoStalePush' /\ UnderWay'
  BY <1>5, PushFrame DEF ours
<1> QED
  BY <1>6, <1>7, <1>8, <1>9 DEF IInv

(* An update that takes effect is an event; any other is only done with.   *)
LEMMA UpdateLandsStep ==
  ASSUME IInv, NEW m \in sends, UpdateLands(m)
  PROVE  IInv'
<1> DEFINE x == Updated(m)
<1> DEFINE u == [key |-> SendKey(m), sub |-> m.sub]
<1>1. TypeOK /\ WellFormed
  BY DEF IInv
<1>2. m \in SendType /\ m.sub \in Subs /\ sub[m.sub] \in SubType
  BY <1>1 DEF TypeOK, SendType
<1>3. sub[m.sub].tier \in Tiers /\ (m.op = "change" => m.tier \in Tiers)
  BY <1>1, <1>2 DEF WellFormed, UpdateLands, Effective
<1>4. x \in SubType /\ x.tier \in Tiers /\ x.st = sub[m.sub].st
  <2>1. CASE m.op = "change"
    BY <1>2, <1>3, <2>1 DEF Updated, SubType, MaybeTier
  <2>2. CASE m.op # "change"
    BY <1>2, <1>3, <2>2 DEF Updated, SubType
  <2> QED
    BY <2>1, <2>2
<1>5. u \in [key : Keys, sub : Subs]
  <2>1. SendKey(m) \in Keys
    <3>1. CASE m.op = "change"
      BY <1>2, <3>1 DEF SendKey, SendType, Keys, MaybeTier, Subs
    <3>2. CASE m.op # "change"
      BY <1>2, <3>2 DEF SendKey, SendType, Keys, MaybeTier, Subs
    <3> QED
      BY <3>1, <3>2
  <2> QED
    BY <1>2, <2>1
<1>6. /\ sends' = sends \ {m} /\ used' = used \cup {u}
      /\ sub' = [sub EXCEPT ![m.sub] = x] /\ Emit(m.sub, sub[m.sub].st, x.tier)
      /\ UNCHANGED <<ours, cpPlan, call, made, hist>>
  BY DEF UpdateLands
<1> HIDE DEF x, u
<1>7. /\ ev' \in Seq(EventType) /\ DOMAIN ev \subseteq DOMAIN ev'
      /\ \A e \in DOMAIN ev : ev'[e] = ev[e]
  <2>1. sub[m.sub].st \in Statuses
    BY <1>2 DEF SubType
  <2> QED
    BY <1>1, <1>2, <1>4, <1>6, <2>1, EmitGrows
<1>8. sub' \in [Subs -> SubType] /\ \A r \in Subs : sub'[r] = IF r = m.sub THEN x ELSE sub[r]
  BY <1>1, <1>2, <1>4, <1>6 DEF TypeOK
<1>9. TypeOK'
  BY <1>1, <1>5, <1>6, <1>7, <1>8 DEF TypeOK, ours, hist
<1>10. WellFormed'
  BY <1>1, <1>4, <1>6, <1>8 DEF WellFormed
<1>11. Watermark' /\ PlanNotStale' /\ NoPlanUnpaid'
  <2>1. UNCHANGED <<plan, applied, row.ts>>
    BY <1>6 DEF ours, hist
  <2> QED
    BY <2>1, <1>7, PlanFrame
<1>12. NoStalePush' /\ UnderWay'
  BY <1>6, PushFrame DEF ours, hist
<1> QED
  BY <1>9, <1>10, <1>11, <1>12 DEF IInv

LEMMA QuietStep ==
  ASSUME IInv, KeysExpire \/ (\E m \in sends : UpdateIsNoOp(m)) \/ UNCHANGED vars
  PROVE  IInv'
<1>1. /\ UNCHANGED <<ours, cpPlan, call, sub, made, ev, hist>>
      /\ sends' \subseteq sends /\ used' \subseteq used
  BY DEF KeysExpire, UpdateIsNoOp, stripe, vars
<1>2. TypeOK /\ WellFormed
  BY DEF IInv
<1>3. TypeOK'
  BY <1>1, <1>2 DEF TypeOK, ours, hist
<1>4. WellFormed'
  BY <1>1, <1>2 DEF WellFormed
<1>5. Watermark' /\ PlanNotStale' /\ NoPlanUnpaid'
  BY <1>1, PlanFrame DEF ours, hist
<1>6. NoStalePush' /\ UnderWay'
  BY <1>1, PushFrame DEF ours, hist
<1> QED
  BY <1>3, <1>4, <1>5, <1>6 DEF IInv

-----------------------------------------------------------------------------
(* A delivery that is refused leaves its mark and nothing else.            *)
LEMMA WebhookIgnoredStep ==
  ASSUME IInv, NEW e \in EventIds, WebhookIgnored(e)
  PROVE  IInv'
<1>1. TypeOK /\ WellFormed
  BY DEF IInv
<1>2. TypeOK'
  BY <1>1 DEF TypeOK, WebhookIgnored, Deliverable, stripe, hist
<1>3. WellFormed'
  BY <1>1 DEF WellFormed, WebhookIgnored, stripe
<1>4. Watermark' /\ PlanNotStale' /\ NoPlanUnpaid'
  BY PlanFrame DEF WebhookIgnored, stripe, hist
<1>5. NoStalePush' /\ UnderWay'
  BY PushFrame DEF WebhookIgnored, hist
<1> QED
  BY <1>2, <1>3, <1>4, <1>5 DEF IInv

(* An attempt is fired on a lane that is free; the others stay.            *)
LEMMA FiredIs ==
  ASSUME TypeOK, NEW t \in Tenants, Free(t) # {}, NEW p \in Plans
  PROVE  /\ Fired(t, p) \in [Lanes -> AttemptType]
         /\ \E k \in Lanes : /\ wire[t][k] = NoAttempt
                            /\ \A i \in Lanes : Fired(t, p)[i] =
                                 IF i = k THEN [plan |-> p, landed |-> FALSE] ELSE wire[t][i]
<1> DEFINE k == CHOOSE i \in Free(t) : TRUE
<1> DEFINE x == [plan |-> p, landed |-> FALSE]
<1>1. k \in Free(t)
  OBVIOUS
<1>2. wire[t] \in [Lanes -> AttemptType] /\ x \in AttemptType
  BY DEF TypeOK, AttemptType
<1>3. Fired(t, p) = [wire[t] EXCEPT ![k] = x]
  BY DEF Fired
<1>4. k \in Lanes /\ wire[t][k] = NoAttempt
  BY <1>1 DEF Free
<1> HIDE DEF k, x
<1>5. /\ Fired(t, p) \in [Lanes -> AttemptType]
      /\ \A i \in Lanes : Fired(t, p)[i] = IF i = k THEN x ELSE wire[t][i]
  BY <1>2, <1>3, <1>4
<1> QED
  BY <1>4, <1>5 DEF x

(* What a status asks for is a tier that was paid, free, or nothing.       *)
LEMMA TargetFacts ==
  ASSUME TypeOK, NEW e \in DOMAIN ev
  PROVE  /\ ev[e] \in EventType
         /\ Target(e) \in Plans \cup {"none"}
         /\ Target(e) \notin {"none", "free"} => ev[e].st = "active" /\ ev[e].tier = Target(e)
<1>1. ev[e] \in EventType
  BY DEF TypeOK
<1> QED
  BY <1>1 DEF Target, EventType, Plans, PaidStatuses

(* An event that is applied is no older than any applied before it, so     *)
(* what it decides overrules them all.                                     *)
LEMMA WebhookAppliedStep ==
  ASSUME IInv, NEW e \in EventIds, WebhookApplied(e)
  PROVE  IInv'
<1>1. TypeOK /\ WellFormed /\ Watermark /\ PlanNotStale /\ NoPlanUnpaid /\ NoStalePush
  BY DEF IInv
<1>2. e \in DOMAIN ev /\ e \notin seen /\ ev[e].at >= row.ts
  BY DEF WebhookApplied, Deliverable, NotStale
<1>3. /\ seen' = seen \cup {e} /\ applied' = applied \cup {e}
      /\ row' = [row EXCEPT !.ts = ev[e].at, !.sub = ev[e].sub, !.status = ev[e].st]
      /\ ApplyPlan(Target(e))
      /\ UNCHANGED <<linked, owned, cpPlan, call, sends, stripe, handed, asked>>
  BY DEF WebhookApplied
<1>4. /\ ev[e] \in EventType /\ row \in RowType
      /\ Target(e) \in Plans \cup {"none"}
      /\ Target(e) \notin {"none", "free"} => ev[e].st = "active" /\ ev[e].tier = Target(e)
  BY <1>1, <1>2, TargetFacts DEF TypeOK
<1>5. /\ ev' = ev /\ \A f \in DOMAIN ev : Target(f)' = Target(f) /\ ev[f].at \in Nat
  <2>1. ev' = ev /\ ev \in Seq(EventType)
    BY <1>1, <1>3 DEF stripe, TypeOK
  <2>2. \A f \in DOMAIN ev : ev[f] \in EventType
    BY <2>1
  <2> QED
    BY <2>1, <2>2 DEF Target, EventType
<1>6. row' \in RowType /\ row'.ts = ev[e].at
  <2>1. ev[e].sub \in 0..MaxSubs /\ ev[e].st \in Statuses /\ ev[e].at \in Nat
    BY <1>4 DEF EventType, Subs
  <2>2. row' \in RowType
    BY <1>3, <1>4, <2>1 DEF RowType
  <2> QED
    BY <1>3, <1>4, <2>2 DEF RowType
<1>7. /\ plan' \in Plans /\ push' \in [Tenants -> Plans \cup {"none"}] /\ told' \subseteq owned
      /\ \A t \in Tenants : push'[t] = "none" \/ (t \in owned /\ push'[t] = plan')
      /\ \A t \in told' \ raced' : plan' \in {push'[t], cpPlan[t]}
      /\ \/ plan' = plan /\ Target(e) \in {"none", plan}
         \/ plan' = Target(e) /\ Target(e) # "none"
  <2>1. CASE Target(e) \in {"none", plan} /\ UNCHANGED <<plan, push, wire, told, raced>>
    BY <1>1, <2>1 DEF TypeOK, NoStalePush
  <2>2. CASE /\ Target(e) \notin {"none", plan} /\ plan' = Target(e)
             /\ push' = Pushed(Target(e)) /\ told' = owned
    <3>1. plan' \in Plans /\ owned \subseteq Tenants /\ push \in [Tenants -> Plans \cup {"none"}]
      BY <1>1, <1>4, <2>2 DEF TypeOK
    <3>2. \A t \in owned : push'[t] = plan'
      BY <2>2, <3>1 DEF Pushed
    <3>3. push' \in [Tenants -> Plans \cup {"none"}]
      BY <2>2, <3>1 DEF Pushed
    <3>4. \A t \in Tenants : t \notin owned => push'[t] = "none"
      BY <1>1, <2>2, <3>1 DEF Pushed, NoStalePush
    <3> QED
      BY <2>2, <3>1, <3>2, <3>3, <3>4
  <2> QED
    BY <1>3, <2>1, <2>2 DEF ApplyPlan
<1>15. wire' \in [Tenants -> [Lanes -> AttemptType]] /\ raced' \subseteq owned /\ UnderWay'
  <2>1. CASE Target(e) \in {"none", plan} /\ UNCHANGED <<plan, push, wire, told, raced>>
    <3>1. cpPlan' = cpPlan /\ owned' = owned
      BY <1>3
    <3>2. UnderWay'
      BY <1>1, <2>1, <3>1 DEF IInv, UnderWay, Free
    <3> QED
      BY <1>1, <2>1, <3>2 DEF TypeOK
  <2>2. CASE /\ Target(e) \notin {"none", plan} /\ plan' = Target(e) /\ told' = owned
             /\ \A t \in owned : Free(t) # {}
             /\ wire' = [t \in Tenants |-> IF t \in owned THEN Fired(t, Target(e)) ELSE wire[t]]
             /\ raced' = {t \in owned : Free(t) # Lanes}
    <3>1. /\ Target(e) \in Plans /\ owned \subseteq Tenants /\ owned' = owned
          /\ wire \in [Tenants -> [Lanes -> AttemptType]] /\ cpPlan' = cpPlan
      BY <1>1, <1>3, <1>4, <2>2 DEF TypeOK
    <3>2. ASSUME NEW t \in owned
          PROVE  Fired(t, Target(e)) \in [Lanes -> AttemptType]
      <4>1. t \in Tenants /\ Free(t) # {}
        BY <2>2, <3>1
      <4> QED
        BY <1>1, <3>1, <4>1, FiredIs
    <3>3. wire' \in [Tenants -> [Lanes -> AttemptType]]
      BY <2>2, <3>1, <3>2
    <3>4. \A t \in Tenants : Free(t)' # Lanes => t \in owned'
      <4>1. \A t \in Tenants : t \notin owned => Free(t)' = Free(t)
        BY <2>2, <3>1 DEF Free
      <4> QED
        BY <3>1, <4>1 DEF IInv, UnderWay
    <3>5. ASSUME NEW t \in told' \ raced', NEW i \in Lanes, wire'[t][i] # NoAttempt
          PROVE  wire'[t][i].plan = plan' /\ ~wire'[t][i].landed
      <4>1. t \in owned /\ Free(t) = Lanes /\ wire'[t] = Fired(t, Target(e))
        BY <2>2, <3>1
      <4>2. wire[t][i] = NoAttempt
        BY <4>1 DEF Free
      <4>3. \/ Fired(t, Target(e))[i] = wire[t][i]
            \/ Fired(t, Target(e))[i] = [plan |-> Target(e), landed |-> FALSE]
        <5>1. t \in Tenants /\ Free(t) # {}
          BY <2>2, <3>1, <4>1
        <5> QED
          BY <1>1, <3>1, <5>1, FiredIs
      <4> QED
        BY <2>2, <3>5, <4>1, <4>2, <4>3
    <3>6. UnderWay'
      BY <3>4, <3>5 DEF UnderWay
    <3> QED
      BY <2>2, <3>3, <3>6
  <2> QED
    BY <1>3, <2>1, <2>2 DEF ApplyPlan
<1>8. TypeOK'
  BY <1>1, <1>2, <1>3, <1>6, <1>7, <1>15 DEF TypeOK, stripe
<1>9. WellFormed'
  BY <1>1, <1>3 DEF WellFormed, stripe
<1>10. applied \subseteq DOMAIN ev /\ row.ts \in Nat /\ \A f \in applied : ev[f].at <= ev[e].at
  <2>1. applied \subseteq DOMAIN ev /\ row.ts \in Nat
    BY <1>1 DEF TypeOK, RowType
  <2>2. \A f \in applied : ev[f].at <= row.ts /\ ev[f].at \in Nat
    BY <1>1, <1>5, <2>1 DEF Watermark
  <2>3. ev[e].at \in Nat
    BY <1>2, <1>5
  <2> QED
    BY <1>2, <2>1, <2>2, <2>3
<1>11. Watermark'
  BY <1>2, <1>3, <1>5, <1>6, <1>10 DEF Watermark
<1>12. PlanNotStale'
  <2> SUFFICES ASSUME NEW g \in applied', Target(g)' \notin {"none", plan'}
               PROVE  \E f \in applied' : Target(f)' = plan' /\ (ev'[f].at >= ev'[g].at)
    BY DEF PlanNotStale
  <2>1. g \in DOMAIN ev /\ ev'[g].at = ev[g].at /\ Target(g)' = Target(g)
    BY <1>2, <1>3, <1>5, <1>10
  <2>2. CASE plan' = Target(e) /\ Target(e) # "none"
    <3>1. g # e
      BY <2>1, <2>2
    <3>2. g \in applied /\ ev[e].at >= ev[g].at
      BY <1>2, <1>3, <1>5, <1>10, <2>1, <3>1
    <3> QED
      BY <1>2, <1>3, <1>5, <2>2, <3>2
  <2>3. CASE plan' = plan /\ Target(e) \in {"none", plan}
    <3>1. g \in applied
      BY <1>3, <2>1, <2>3
    <3>2. PICK f \in applied : Target(f) = plan /\ ev[f].at >= ev[g].at
      BY <1>1, <2>1, <2>3, <3>1 DEF PlanNotStale
    <3> QED
      BY <1>3, <1>5, <1>10, <2>3, <3>2
  <2> QED
    BY <1>7, <2>2, <2>3
<1>13. NoPlanUnpaid'
  BY <1>1, <1>2, <1>4, <1>5, <1>7 DEF NoPlanUnpaid
<1>14. NoStalePush'
  BY <1>3, <1>7 DEF NoStalePush
<1> QED
  BY <1>8, <1>9, <1>11, <1>12, <1>13, <1>14, <1>15 DEF IInv
-----------------------------------------------------------------------------
(* A step of the attempts of one push: the marker and the attempts change, *)
(* and nothing the plan depends on.                                        *)
LEMMA PushStep ==
  ASSUME IInv, NEW t \in Tenants,
         UNCHANGED <<row, linked, plan, seen, owned, call, sends, stripe, hist>>,
         push' \in [Tenants -> Plans \cup {"none"}],
         wire' \in [Tenants -> [Lanes -> AttemptType]],
         cpPlan' \in [Tenants -> Plans],
         NoStalePush', UnderWay'
  PROVE  IInv'
<1>1. TypeOK /\ WellFormed
  BY DEF IInv
<1>2. TypeOK'
  BY <1>1 DEF TypeOK, stripe, hist
<1>3. WellFormed'
  BY <1>1 DEF WellFormed, stripe
<1>4. Watermark' /\ PlanNotStale' /\ NoPlanUnpaid'
  BY PlanFrame DEF stripe, hist
<1> QED
  BY <1>2, <1>3, <1>4 DEF IInv

(* What the attempts and the marker of a push look like.                   *)
LEMMA PushTypes ==
  ASSUME IInv
  PROVE  /\ push \in [Tenants -> Plans \cup {"none"}] /\ cpPlan \in [Tenants -> Plans]
         /\ wire \in [Tenants -> [Lanes -> AttemptType]]
         /\ told \subseteq owned /\ owned \subseteq Tenants /\ plan \in Plans
         /\ NoAttempt \in AttemptType /\ ~NoAttempt.landed /\ "none" \notin Plans
         /\ \A x \in AttemptType : /\ x.landed \in BOOLEAN /\ x.plan \in Plans \cup {"none"}
                                  /\ x = [plan |-> x.plan, landed |-> x.landed]
  BY DEF IInv, TypeOK, AttemptType, NoAttempt, Plans

(* An attempt lands.  The tenant it lands at has no other plan under way,  *)
(* or had when the plan moved.                                             *)
LEMMA PushLandsStep ==
  ASSUME IInv, NEW t \in Tenants, NEW i \in Lanes, PushLands(t, i)
  PROVE  IInv'
<1> DEFINE x == [plan |-> wire[t][i].plan, landed |-> TRUE]
<1>1. /\ wire[t][i] \in AttemptType /\ wire[t] \in [Lanes -> AttemptType]
      /\ wire[t][i] # NoAttempt /\ ~wire[t][i].landed
  BY PushTypes DEF PushLands
<1>2. wire[t][i].plan \in Plans
  BY <1>1 DEF AttemptType, NoAttempt
<1>3. x \in AttemptType /\ x # NoAttempt
  BY <1>2 DEF AttemptType, NoAttempt
<1>5. wire' = [wire EXCEPT ![t] = [wire[t] EXCEPT ![i] = x]]
  BY DEF PushLands
<1> HIDE DEF x
<1>6. /\ wire' \in [Tenants -> [Lanes -> AttemptType]]
      /\ \A q \in Tenants, j \in Lanes : wire'[q][j] = IF q = t /\ j = i THEN x ELSE wire[q][j]
  BY <1>1, <1>3, <1>5, PushTypes
<1>7. /\ cpPlan' \in [Tenants -> Plans]
      /\ \A q \in Tenants : cpPlan'[q] = IF q = t THEN wire[t][i].plan ELSE cpPlan[q]
  BY <1>2, PushTypes DEF PushLands
<1>8. UNCHANGED <<row, linked, plan, seen, owned, push, call, sends, stripe, hist>>
  BY DEF PushLands
<1>9. told' = told /\ raced' = raced
  BY <1>8 DEF hist
<1>10. t \in owned
  <2>1. i \notin Free(t)
    BY <1>1 DEF Free
  <2> QED
    BY <2>1 DEF IInv, UnderWay
<1>11. t \in told \ raced => wire[t][i].plan = plan
  BY <1>1 DEF IInv, UnderWay
<1>12. NoStalePush'
  BY <1>7, <1>8, <1>9, <1>11, PushTypes DEF IInv, NoStalePush
<1>13. UnderWay'
  <2>1. \A q \in Tenants : Free(q)' # Lanes => q \in owned'
    <3>1. \A q \in Tenants : q # t => Free(q)' = Free(q)
      BY <1>6 DEF Free
    <3> QED
      BY <1>8, <1>10, <3>1 DEF IInv, UnderWay
  <2>2. ASSUME NEW q \in told \ raced, NEW j \in Lanes, wire'[q][j] # NoAttempt
        PROVE  wire'[q][j].plan = plan /\ (wire'[q][j].landed => cpPlan'[q] = plan)
    <3>1. q \in Tenants
      BY PushTypes
    <3>2. CASE q = t
      <4>1. cpPlan'[q] = plan
        BY <1>7, <1>11, <2>2, <3>1, <3>2
      <4>2. wire'[q][j].plan = plan
        <5>1. CASE j = i
          BY <1>6, <1>11, <2>2, <3>1, <3>2, <5>1 DEF x
        <5>2. CASE j # i
          BY <1>6, <2>2, <3>1, <3>2, <5>2 DEF IInv, UnderWay
        <5> QED
          BY <5>1, <5>2
      <4> QED
        BY <4>1, <4>2
    <3>3. CASE q # t
      BY <1>6, <1>7, <2>2, <3>1, <3>3 DEF IInv, UnderWay
    <3> QED
      BY <3>2, <3>3
  <2> QED
    BY <1>8, <1>9, <2>1, <2>2 DEF UnderWay
<1> QED
  BY <1>6, <1>7, <1>8, <1>12, <1>13, PushTypes, PushStep

(* An attempt that is gone leaves the others as they were.                 *)
LEMMA GoneAttempt ==
  ASSUME IInv, NEW t \in Tenants, NEW i \in Lanes,
         wire' = [wire EXCEPT ![t][i] = NoAttempt], UNCHANGED <<plan, cpPlan, owned, hist>>
  PROVE  wire' \in [Tenants -> [Lanes -> AttemptType]] /\ UnderWay'
<1>1. wire[t] \in [Lanes -> AttemptType]
  BY PushTypes
<1>2. wire' = [wire EXCEPT ![t] = [wire[t] EXCEPT ![i] = NoAttempt]]
  OBVIOUS
<1>3. /\ wire' \in [Tenants -> [Lanes -> AttemptType]]
      /\ \A q \in Tenants, j \in Lanes :
           wire'[q][j] = IF q = t /\ j = i THEN NoAttempt ELSE wire[q][j]
  BY <1>1, <1>2, PushTypes
<1>4. told' = told /\ raced' = raced
  BY DEF hist
<1>5. \A q \in Tenants : Free(q) \subseteq Free(q)' /\ Free(q)' \subseteq Lanes
  BY <1>3 DEF Free
<1>6. \A q \in Tenants : Free(q)' # Lanes => q \in owned'
  BY <1>5 DEF IInv, UnderWay, Free
<1>7. \A q \in told \ raced, j \in Lanes : wire'[q][j] # NoAttempt =>
         wire'[q][j].plan = plan /\ (wire'[q][j].landed => cpPlan[q] = plan)
  BY <1>3, PushTypes DEF IInv, UnderWay
<1> QED
  BY <1>3, <1>4, <1>6, <1>7 DEF UnderWay

(* The answer of an attempt deletes the marker.  Where no older attempt    *)
(* was under way the plan has landed by then.                              *)
LEMMA PushAnsweredStep ==
  ASSUME IInv, NEW t \in Tenants, NEW i \in Lanes, PushAnswered(t, i)
  PROVE  IInv'
<1>1. /\ wire' = [wire EXCEPT ![t][i] = NoAttempt] /\ wire[t][i].landed
      /\ UNCHANGED <<row, linked, plan, seen, owned, cpPlan, call, sends, stripe, hist>>
  BY DEF PushAnswered
<1>2. /\ push' \in [Tenants -> Plans \cup {"none"}]
      /\ \A q \in Tenants : push'[q] = IF q = t THEN "none" ELSE push[q]
  BY PushTypes DEF PushAnswered
<1>3. wire' \in [Tenants -> [Lanes -> AttemptType]] /\ UnderWay'
  BY <1>1, GoneAttempt
<1>4. t \in told \ raced => cpPlan[t] = plan
  <2>1. wire[t][i] # NoAttempt
    BY <1>1, PushTypes
  <2> QED
    BY <1>1, <2>1 DEF IInv, UnderWay
<1>5. NoStalePush'
  BY <1>1, <1>2, <1>4, PushTypes DEF IInv, NoStalePush, hist
<1> QED
  BY <1>1, <1>2, <1>3, <1>5, PushTypes, PushStep

LEMMA PushFailsStep ==
  ASSUME IInv, NEW t \in Tenants, NEW i \in Lanes, PushFails(t, i)
  PROVE  IInv'
<1>1. /\ wire' = [wire EXCEPT ![t][i] = NoAttempt]
      /\ UNCHANGED <<row, linked, plan, seen, owned, push, cpPlan, call, sends, stripe, hist>>
  BY DEF PushFails
<1>2. wire' \in [Tenants -> [Lanes -> AttemptType]] /\ UnderWay'
  BY <1>1, GoneAttempt
<1>3. NoStalePush'
  BY <1>1 DEF IInv, NoStalePush, hist
<1> QED
  BY <1>1, <1>2, <1>3, PushTypes, PushStep

(* What is fired again is what the marker carries, which is the plan.      *)
LEMMA PushRefiresStep ==
  ASSUME IInv, NEW t \in Tenants, PushRefires(t)
  PROVE  IInv'
<1>1. /\ wire' = [wire EXCEPT ![t] = Fired(t, push[t])] /\ push[t] # "none" /\ Free(t) # {}
      /\ UNCHANGED <<row, linked, plan, seen, owned, push, cpPlan, call, sends, stripe, hist>>
  BY DEF PushRefires
<1>2. push[t] = plan /\ t \in owned /\ plan \in Plans
  BY <1>1, PushTypes DEF IInv, NoStalePush
<1>3. TypeOK
  BY DEF IInv
<1>4. Fired(t, plan) \in [Lanes -> AttemptType]
  BY <1>1, <1>2, <1>3, FiredIs
<1>5. \A i \in Lanes : Fired(t, plan)[i] \in {wire[t][i], [plan |-> plan, landed |-> FALSE]}
  BY <1>1, <1>2, <1>3, FiredIs
<1>6. /\ wire' \in [Tenants -> [Lanes -> AttemptType]]
      /\ \A q \in Tenants : wire'[q] = IF q = t THEN Fired(t, plan) ELSE wire[q]
  BY <1>1, <1>2, <1>4, PushTypes
<1>7. told' = told /\ raced' = raced
  BY <1>1 DEF hist
<1>8. \A q \in Tenants : Free(q)' # Lanes => q \in owned'
  <2>1. \A q \in Tenants : q # t => Free(q)' = Free(q)
    BY <1>6 DEF Free
  <2> QED
    BY <1>1, <1>2, <2>1 DEF IInv, UnderWay
<1>9. ASSUME NEW q \in told \ raced, NEW j \in Lanes, wire'[q][j] # NoAttempt
      PROVE  wire'[q][j].plan = plan /\ (wire'[q][j].landed => cpPlan[q] = plan)
  <2>1. q \in Tenants
    BY PushTypes
  <2>2. wire'[q][j] = wire[q][j] \/ wire'[q][j] = [plan |-> plan, landed |-> FALSE]
    BY <1>5, <1>6, <2>1
  <2> QED
    BY <1>9, <2>1, <2>2 DEF IInv, UnderWay
<1>10. UnderWay'
  BY <1>1, <1>7, <1>8, <1>9 DEF UnderWay
<1>11. NoStalePush'
  BY <1>1, <1>7 DEF IInv, NoStalePush
<1> QED
  BY <1>1, <1>6, <1>10, <1>11, PushTypes, PushStep

LEMMA PushGivesUpStep ==
  ASSUME IInv, NEW t \in Tenants, PushGivesUp(t)
  PROVE  IInv'
<1>1. TypeOK /\ WellFormed /\ NoStalePush
  BY DEF IInv
<1>2. /\ \A q \in Tenants : push'[q] = IF q = t THEN "none" ELSE push[q]
      /\ told' = told \ {t} /\ told \subseteq Tenants
  BY <1>1 DEF PushGivesUp, TypeOK
<1>3. TypeOK'
  <2>1. push' \in [Tenants -> Plans \cup {"none"}]
    BY <1>1 DEF PushGivesUp, TypeOK
  <2> QED
    BY <1>1, <1>2, <2>1 DEF TypeOK, PushGivesUp, stripe
<1>4. WellFormed'
  BY <1>1 DEF WellFormed, PushGivesUp, stripe
<1>5. Watermark' /\ PlanNotStale' /\ NoPlanUnpaid'
  BY PlanFrame DEF PushGivesUp, stripe
<1>6. NoStalePush' /\ UnderWay'
  BY <1>1, <1>2 DEF NoStalePush, PushGivesUp, IInv, UnderWay, Free
<1> QED
  BY <1>3, <1>4, <1>5, <1>6 DEF IInv

LEMMA OnProvisionedStep ==
  ASSUME IInv, NEW t \in Tenants, OnProvisioned(t)
  PROVE  IInv'
<1>1. TypeOK /\ WellFormed
  BY DEF IInv
<1>2. TypeOK'
  BY <1>1 DEF TypeOK, OnProvisioned, stripe, hist
<1>3. WellFormed'
  BY <1>1 DEF WellFormed, OnProvisioned, stripe
<1>4. Watermark' /\ PlanNotStale' /\ NoPlanUnpaid'
  BY PlanFrame DEF OnProvisioned, stripe, hist
<1>5. NoStalePush' /\ UnderWay'
  BY PushFrame DEF OnProvisioned, hist
<1> QED
  BY <1>2, <1>3, <1>4, <1>5 DEF IInv

-----------------------------------------------------------------------------
(* Every step preserves the invariant.                                     *)
LEMMA NextIInv == IInv /\ [Next]_vars => IInv'
<1> SUFFICES ASSUME IInv, [Next]_vars PROVE IInv'
  OBVIOUS
<1>1. ASSUME NEW s \in Subs, StripeMoves(s) PROVE IInv'
  BY <1>1, StripeMovesStep
<1>2. CASE KeysExpire
  BY <1>2, QuietStep
<1>3. ASSUME NEW c \in Slots,
             \/ \E tier \in Tiers : Subscribe(c, tier)
             \/ OnBillingCustomer(c) \/ StripeCreates(c) \/ StripeReplays(c)
             \/ HopFails(c) \/ OnBillingSubscription(c)
      PROVE  IInv'
  BY <1>3, SubscribeStep, CustomerStep, StripeCreatesStep, ReplayStep, HopFailsStep,
     OnBillingSubscriptionStep
<1>4. CASE (\E tier \in Tiers : ChangeBilling(tier)) \/ CancelBilling
  BY <1>4, AskStep
<1>5. ASSUME NEW m \in sends, UpdateLands(m) \/ UpdateIsNoOp(m) PROVE IInv'
  BY <1>5, UpdateLandsStep, QuietStep
<1>6. ASSUME NEW e \in EventIds, WebhookIgnored(e) \/ WebhookApplied(e) PROVE IInv'
  BY <1>6, WebhookIgnoredStep, WebhookAppliedStep
<1>7. ASSUME NEW t \in Tenants,
             \/ \E i \in Lanes : PushLands(t, i) \/ PushAnswered(t, i) \/ PushFails(t, i)
             \/ PushRefires(t) \/ PushGivesUp(t) \/ OnProvisioned(t)
      PROVE  IInv'
  BY <1>7, PushLandsStep, PushAnsweredStep, PushFailsStep, PushRefiresStep, PushGivesUpStep,
     OnProvisionedStep
<1>8. CASE UNCHANGED vars
  BY <1>8, QuietStep
<1> QED
  BY <1>1, <1>2, <1>3, <1>4, <1>5, <1>6, <1>7, <1>8 DEF Next

(* The inductive invariant of the subscription.                            *)
THEOREM Inductive == Spec => []IInv
  BY InitIInv, NextIInv, PTL DEF Spec

(* Type correctness of the billing rows, the calls and Stripe's state.     *)
THEOREM TypeCorrect == Spec => []TypeOK
<1>1. IInv => TypeOK
  BY DEF IInv
<1> QED
  BY <1>1, Inductive, PTL

(* In whatever order, and however often, Stripe's events are delivered, an *)
(* applied one is overruled only by one created no earlier                 *)
(* (handleStripeWebhook's watermark).                                      *)
THEOREM PlanNotStaleAlways == Spec => []PlanNotStale
<1>1. IInv => PlanNotStale
  BY DEF IInv
<1> QED
  BY <1>1, Inductive, PTL

(* A plan other than free was earned by a subscription of that tier that   *)
(* became active (applyPlanFromSubscription).                              *)
THEOREM NoPlanUnpaidAlways == Spec => []NoPlanUnpaid
<1>1. IInv => NoPlanUnpaid
  BY DEF IInv
<1> QED
  BY <1>1, Inductive, PTL

(* Whatever becomes of the attempts, no push owed carries an older plan;   *)
(* and a tenant that was there when the plan moved, with no older attempt  *)
(* under way, has the plan or is owed it until its push is given up        *)
(* (pushPlanToTenant's key).                                               *)
THEOREM NoStalePushAlways == Spec => []NoStalePush
<1>1. IInv => NoStalePush
  BY DEF IInv
<1> QED
  BY <1>1, Inductive, PTL

-----------------------------------------------------------------------------
(* The rows follow Stripe, in a behaviour that keeps an account to one     *)
(* subscription after another.  A second one is only created when the rows *)
(* show the end of the first, and they show it only when its last event    *)
(* was applied; so the events still to come of an ended subscription *)
(* are all older than the watermark, and the newest event Stripe has is of *)
(* the newest subscription and is applied whenever it comes.               *)

Ends == {"canceled", "incomplete_expired"}
Newest == ev[Len(ev)]
Answered == \E c \in Slots : call[c].st = "answered"

(* Subscriptions come one after another: all but the last have ended.      *)
InTurn ==
    /\ \A s \in Subs : s > made.sub => sub[s].st = "none"
    /\ \A s \in Subs : s < made.sub => sub[s].st \in Ends
    /\ made.sub # 0 => sub[made.sub].st # "none"
    /\ \A s \in handed : s <= made.sub
    /\ row.sub <= made.sub
    /\ \A u \in used : u.key.op = "create" => u.key.sub < made.sub

(* Stripe's history ends with what the last subscription is.               *)
Chronicle ==
    /\ made.sub = 0 <=> ev = <<>>
    /\ ev # <<>> => /\ Newest.sub = made.sub
                    /\ Newest.st = sub[made.sub].st /\ Newest.tier = sub[made.sub].tier
    /\ \A e, f \in DOMAIN ev : e < f => ev[e].at < ev[f].at
    /\ \A e \in DOMAIN ev : ev[e].sub <= made.sub /\ ev[e].st # "none"
    /\ \A e \in DOMAIN ev : ev[e].sub = made.sub /\ ev[e].st \in Ends => e = Len(ev)

(* The customer's row is written with the first subscription's.            *)
Linking ==
    /\ linked = IF row.cus = 0 THEN {} ELSE {row.cus}
    /\ row.cus = 0 => /\ row.sub = 0 /\ row.status = "none" /\ row.ts = 0
                      /\ made.sub <= 1 /\ Len(ev) <= 1
                      /\ made.sub # 0 => Answered
    /\ row.cus # 0 => /\ row.sub # 0 /\ row.status # "none"
                      /\ \A s \in Subs : s <= made.sub => sub[s].cus = row.cus

(* What a call in flight knows.                                            *)
CallKnows(k) ==
    /\ k.st # "idle" => (k.link <=> row.cus = 0)
    /\ k.st = "customer" => k.link
    /\ k.st \in {"customer", "subscription"} =>
         row.status \in Over /\ k.prev = row.sub
    /\ k.st \in {"subscription", "answered"} /\ ~k.link => k.cus = row.cus
    /\ k.st = "answered" =>
         /\ k.sub = made.sub /\ made.sub # 0 /\ made.sub \notin handed
         /\ sub[made.sub].st = "incomplete" /\ sub[made.sub].cus = k.cus
CallsKnow == \A c \in Slots : CallKnows(call[c])
OneCall == \A c, d \in Slots : call[c].st # "idle" /\ call[d].st # "idle" => c = d

(* Once the newest event is handled the rows are what it says.             *)
Caught ==
    /\ row.ts <= LastSecond
    /\ row.cus # 0 =>
         /\ \A e \in DOMAIN ev \ seen : ev[e].sub # made.sub => ev[e].at < row.ts
         /\ ev # <<>> /\ Len(ev) \in seen =>
              /\ row.sub = made.sub /\ row.status = Newest.st
              /\ Newest.st = "active" => plan = Newest.tier
              /\ Newest.st \in DownStatuses => plan = "free"
              /\ row.ts = Newest.at \/ (Len(ev) = 1 /\ Newest.st = "incomplete")
         /\ ~Answered /\ row.status \in Ends => Len(ev) \in seen

RowsInv == InTurn /\ Chronicle /\ Linking /\ OneCall /\ CallsKnow /\ Caught

LEMMA RowsInit == Init => RowsInv
  BY DEF Init, RowsInv, InTurn, Chronicle, Linking, OneCall, CallsKnow, CallKnows, Caught, Idle, NoSub,
         Subs, LastSecond

(* Facts about the slots and the newest event that every step uses.        *)
LEMMA RowsTypes ==
  ASSUME IInv, RowsInv
  PROVE  /\ row \in RowType /\ row.ts \in Nat /\ row.cus \in 0..MaxSubs /\ row.sub \in 0..MaxSubs
         /\ made \in [sub : 0..MaxSubs, cus : 0..MaxSubs] /\ made.sub \in Nat
         /\ ev \in Seq(EventType) /\ Len(ev) \in Nat /\ DOMAIN ev = 1..Len(ev)
         /\ \A e \in DOMAIN ev : ev[e].at \in Nat /\ ev[e].sub \in Subs
         /\ seen \subseteq DOMAIN ev
         /\ sub \in [Subs -> SubType] /\ Subs = 1..MaxSubs
         /\ ev # <<>> => /\ Len(ev) \in DOMAIN ev /\ Newest.at = LastSecond
                         /\ \A e \in DOMAIN ev : ev[e].at <= LastSecond
         /\ ev = <<>> => LastSecond = 0
         /\ LastSecond \in Nat
<1>1. /\ row \in RowType /\ made \in [sub : 0..MaxSubs, cus : 0..MaxSubs] /\ ev \in Seq(EventType)
      /\ seen \subseteq DOMAIN ev /\ sub \in [Subs -> SubType]
  BY DEF IInv, TypeOK
<1>2. row.ts \in Nat /\ row.cus \in 0..MaxSubs /\ row.sub \in 0..MaxSubs /\ made.sub \in Nat
  BY <1>1 DEF RowType
<1>3. Len(ev) \in Nat /\ DOMAIN ev = 1..Len(ev)
  BY <1>1
<1>4. \A e \in DOMAIN ev : ev[e].at \in Nat /\ ev[e].sub \in Subs
  <2>1. \A e \in DOMAIN ev : ev[e] \in EventType
    BY <1>1, <1>3
  <2> QED
    BY <2>1 DEF EventType
<1>5. ev # <<>> => Len(ev) \in DOMAIN ev /\ Newest.at = LastSecond
  BY <1>1, <1>3 DEF Newest, LastSecond
<1>6. ev = <<>> => LastSecond = 0
  BY DEF LastSecond
<1>7. LastSecond \in Nat
  BY <1>4, <1>5, <1>6 DEF Newest
<1>8. ev # <<>> => \A e \in DOMAIN ev : ev[e].at <= LastSecond
  <2>1. ASSUME ev # <<>>, NEW e \in DOMAIN ev, e # Len(ev) PROVE ev[e].at < ev[Len(ev)].at
    BY <2>1, <1>3, <1>5 DEF RowsInv, Chronicle
  <2> QED
    BY <2>1, <1>4, <1>5 DEF Newest
<1> QED
  BY <1>1, <1>2, <1>3, <1>4, <1>5, <1>6, <1>7, <1>8 DEF Subs

(* An event is one second after all others.                                *)
LEMMA EmitIs ==
  ASSUME IInv, RowsInv, OneAfterTheOther, NEW s \in Subs, NEW st \in Statuses,
         NEW tier \in Tiers, Emit(s, st, tier)
  PROVE  /\ Len(ev') = Len(ev) + 1 /\ DOMAIN ev' = 1..(Len(ev) + 1) /\ ev' # <<>>
         /\ \A e \in DOMAIN ev : ev'[e] = ev[e]
         /\ Newest'.sub = s /\ Newest'.st = st /\ Newest'.tier = tier
         /\ Newest'.at = LastSecond + 1 /\ LastSecond' = LastSecond + 1
         /\ Newest' = ev'[Len(ev) + 1]
         /\ Len(ev') \notin seen
<1>1. /\ ev \in Seq(EventType) /\ LastSecond \in Nat /\ Len(ev) \in Nat /\ seen \subseteq DOMAIN ev
      /\ DOMAIN ev = 1..Len(ev)
  BY RowsTypes
<1>2. PICK at \in {LastSecond, LastSecond + 1} :
        ev' = Append(ev, [sub |-> s, st |-> st, tier |-> tier, at |-> at])
  BY DEF Emit
<1> DEFINE x == [sub |-> s, st |-> st, tier |-> tier, at |-> at]
<1>3. x \in EventType /\ x.sub = s /\ x.st = st /\ x.tier = tier /\ x.at = at
  BY <1>1, <1>2 DEF EventType
<1>4. ev' = Append(ev, x)
  BY <1>2
<1> HIDE DEF x
<1>5. /\ Len(ev') = Len(ev) + 1 /\ DOMAIN ev' = 1..(Len(ev) + 1)
      /\ \A e \in DOMAIN ev : ev'[e] = ev[e]
      /\ ev'[Len(ev) + 1] = x
  BY <1>1, <1>3, <1>4
<1>6. ev' # <<>> /\ ev' # ev
  BY <1>1, <1>5
<1>7. Newest' = x
  BY <1>5 DEF Newest
<1>8. LastSecond' = at
  BY <1>3, <1>5, <1>6 DEF LastSecond
<1>9. at = LastSecond + 1
  BY <1>6, <1>8 DEF OneAfterTheOther
<1> QED
  BY <1>1, <1>3, <1>5, <1>6, <1>7, <1>8, <1>9

(* A change of the newest subscription while no answer is awaited.         *)
LEMMA NewestMoves ==
  ASSUME IInv, RowsInv, OneAfterTheOther, NEW s \in Subs, s = made.sub, ~Answered,
         NEW st \in Statuses \ {"none"}, NEW tier \in Tiers, NEW x \in SubType,
         sub[s].st \notin Ends, x.st = st, x.tier = tier, x.cus = sub[s].cus,
         Emit(s, st, tier), sub' = [sub EXCEPT ![s] = x],
         UNCHANGED <<row, linked, plan, seen, call, made, handed>>,
         \A u \in used' : u \in used \/ u.key.op # "create"
  PROVE  RowsInv'
<1>1. st \in Statuses /\ sub \in [Subs -> SubType]
  BY RowsTypes
<1>2. sub'[s] = x /\ \A r \in Subs : r # s => sub'[r] = sub[r]
  BY <1>1
<1>3. s # 0 /\ s \in Nat /\ made.sub \in Nat
  BY DEF Subs
<1>4. ev # <<>> /\ Newest.st = sub[s].st /\ Newest.sub = s
  BY <1>3 DEF RowsInv, Chronicle
<1>5. row.cus # 0
  BY <1>3 DEF RowsInv, Linking
<1>6. \A e \in DOMAIN ev : ev[e].sub = s => ev[e].st \notin Ends
  BY <1>4 DEF RowsInv, Chronicle, Newest
<1>7. InTurn'
  BY <1>2, <1>3 DEF RowsInv, InTurn
<1>8. Chronicle'
  <2>1. \A e \in DOMAIN ev' : \/ e \in DOMAIN ev /\ ev'[e] = ev[e]
                              \/ e = Len(ev) + 1 /\ ev'[e] = Newest'
    BY <1>1, EmitIs, RowsTypes
  <2>2. \A e \in DOMAIN ev : ev[e].at < Newest'.at
    BY <1>1, <1>4, EmitIs, RowsTypes
  <2>3. \A e, f \in DOMAIN ev' : e < f => ev'[e].at < ev'[f].at
    BY <2>1, <2>2, RowsTypes DEF RowsInv, Chronicle
  <2>4. \A e \in DOMAIN ev' : ev'[e].sub <= made.sub /\ ev'[e].st # "none"
    BY <1>1, <1>3, <2>1, EmitIs DEF RowsInv, Chronicle
  <2>5. \A e \in DOMAIN ev' : ev'[e].sub = made.sub /\ ev'[e].st \in Ends => e = Len(ev')
    BY <1>1, <1>6, <2>1, EmitIs
  <2> QED
    BY <1>1, <1>2, <1>3, <2>3, <2>4, <2>5, EmitIs DEF Chronicle
<1>9. Linking'
  BY <1>2, <1>5 DEF RowsInv, Linking
<1>10. CallsKnow' /\ OneCall'
  BY DEF RowsInv, OneCall, CallsKnow, CallKnows, Answered
<1>11. Caught'
  <2>1. row.status \notin Ends
    BY <1>4, <1>5 DEF RowsInv, Caught
  <2>2. row.ts <= LastSecond'
    BY <1>1, EmitIs, RowsTypes DEF RowsInv, Caught
  <2>3. \A e \in DOMAIN ev' \ seen' : ev'[e].sub # made'.sub => ev'[e].at < row'.ts
    BY <1>1, <1>5, EmitIs, RowsTypes DEF RowsInv, Caught
  <2>4. Len(ev') \notin seen'
    BY <1>1, EmitIs
  <2> QED
    BY <2>1, <2>2, <2>3, <2>4 DEF Caught
<1> QED
  BY <1>7, <1>8, <1>9, <1>10, <1>11 DEF RowsInv

(* While the history, the rows, the counts and what is answered stay, only *)
(* what the calls know may change.                                         *)
LEMMA RowsFrame ==
  ASSUME RowsInv, OneCall', CallsKnow', Answered' = Answered,
         UNCHANGED <<row, linked, plan, seen, made.sub, sub, ev, handed>>,
         \A u \in used' : u \in used \/ u.key.op # "create"
  PROVE  RowsInv'
<1>1. InTurn'
  BY DEF RowsInv, InTurn
<1>2. Chronicle'
  BY DEF RowsInv, Chronicle, Newest
<1>3. Linking'
  BY DEF RowsInv, Linking
<1>4. Caught'
  BY DEF RowsInv, Caught, Newest, LastSecond
<1> QED
  BY <1>1, <1>2, <1>3, <1>4 DEF RowsInv

LEMMA StripeMovesRows ==
  ASSUME IInv, RowsInv, OneAfterTheOther, NEW s \in Subs, StripeMoves(s) PROVE RowsInv'
<1>1. PICK st \in Moves(s) : /\ sub' = [sub EXCEPT ![s] = [@ EXCEPT !.st = st]]
                             /\ Emit(s, st, sub[s].tier)
                             /\ UNCHANGED <<ours, cpPlan, call, sends, made, used, hist>>
  BY DEF StripeMoves
<1>2. /\ sub[s].st \notin Ends \cup {"none"}
      /\ sub[s].st = "incomplete" => \/ s \in handed
                                     \/ ~\E c \in Slots : call[c].sub = s
      /\ st \in Statuses \ {"none"}
  BY DEF Moves, Ends, Statuses
<1>3. s \in Nat /\ s # 0 /\ made.sub \in Nat
  BY RowsTypes DEF Subs
<1>4. s = made.sub
  BY <1>2, <1>3 DEF RowsInv, InTurn
<1>5. ~Answered
  BY <1>2, <1>4 DEF RowsInv, CallsKnow, CallKnows, Answered
<1>6. sub[s].st \notin Ends
  BY <1>2
<1> DEFINE x == [sub[s] EXCEPT !.st = st]
<1>7. sub[s] \in SubType /\ sub[s].tier \in Tiers
  BY <1>2 DEF IInv, TypeOK, WellFormed
<1>8. x \in SubType /\ x.st = st /\ x.tier = sub[s].tier /\ x.cus = sub[s].cus
  <2>1. st \in Statuses
    BY <1>2
  <2> QED
    BY <1>7, <2>1 DEF SubType
<1>9. sub' = [sub EXCEPT ![s] = x]
  BY <1>1
<1> HIDE DEF x
<1>10. UNCHANGED <<row, linked, plan, seen, call, made, handed, used>>
  BY <1>1 DEF ours, hist
<1> QED
  BY <1>1, <1>2, <1>4, <1>5, <1>6, <1>7, <1>8, <1>9, <1>10, NewestMoves

LEMMA KeysExpireRows == ASSUME IInv, RowsInv, KeysExpire PROVE RowsInv'
<1>1. OneCall' /\ CallsKnow' /\ Answered' = Answered
  BY DEF RowsInv, OneCall, CallsKnow, CallKnows, Answered, KeysExpire, ours, hist
<1> QED
  BY <1>1, RowsFrame DEF KeysExpire, ours, hist

(* The steps of a call that Stripe does not answer.                        *)
LEMMA CallMoves ==
  ASSUME IInv, RowsInv, OneAfterTheOther, NEW c \in Slots, NEW x \in CallType,
         call[c].st # "answered", x.st # "answered", call' = [call EXCEPT ![c] = x], CallKnows(x),
         \A d \in Slots \ {c} : call[d].st = "idle",
         UNCHANGED <<row, linked, plan, seen, made.sub, sub, ev, handed, used>>
  PROVE  RowsInv'
<1>1. call'[c] = x /\ \A d \in Slots \ {c} : call'[d].st = "idle"
  BY DEF IInv, TypeOK
<1>2. Answered' = Answered
  BY <1>1 DEF Answered
<1>3. CallsKnow'
  BY <1>1 DEF CallsKnow, CallKnows
<1>4. OneCall'
  BY <1>1 DEF OneCall
<1> QED
  BY <1>2, <1>3, <1>4, RowsFrame

LEMMA SubscribeRows ==
  ASSUME IInv, RowsInv, OneAfterTheOther, NEW c \in Slots, NEW tier \in Tiers, Subscribe(c, tier)
  PROVE  RowsInv'
<1> DEFINE x == [st |-> IF row.cus = 0 THEN "customer" ELSE "subscription",
                 tier |-> tier, prev |-> row.sub, cus |-> row.cus, sub |-> 0,
                 link |-> row.cus = 0]
<1>1. row.sub \in 0..MaxSubs /\ row.cus \in 0..MaxSubs /\ 0 \in 0..MaxSubs
  BY RowsTypes
<1>2. x \in CallType
  BY <1>1 DEF CallType, MaybeTier
<1>5. row.status \in Over /\ \A d \in Slots \ {c} : call[d].st = "idle"
  <2>1. call[c].st = "idle" /\ call'[c].st # "idle"
    BY DEF Subscribe, Idle, IInv, TypeOK
  <2> QED
    BY <2>1 DEF OneAfterTheOther
<1>3. CallKnows(x) /\ x.st # "answered" /\ call[c].st # "answered"
  <2>1. call[c].st # "answered" /\ row.status \in Over
    BY <1>5 DEF Subscribe, Idle
  <2>2. CASE row.cus = 0
    BY <2>1, <2>2 DEF CallKnows
  <2>3. CASE row.cus # 0
    BY <2>1, <2>3 DEF CallKnows
  <2> QED
    BY <2>2, <2>3
<1>4. call' = [call EXCEPT ![c] = x]
  BY DEF Subscribe
<1> HIDE DEF x
<1>6. UNCHANGED <<row, linked, plan, seen, made.sub, sub, ev, handed, used>>
  BY DEF Subscribe, ours, stripe, hist
<1> QED
  BY <1>2, <1>3, <1>4, <1>5, <1>6, CallMoves

LEMMA CustomerRows ==
  ASSUME IInv, RowsInv, OneAfterTheOther, NEW c \in Slots, OnBillingCustomer(c) PROVE RowsInv'
<1> DEFINE x == [call[c] EXCEPT !.st = "subscription", !.cus = made.cus + 1]
<1>1. call[c] \in CallType /\ made \in [sub : 0..MaxSubs, cus : 0..MaxSubs]
  BY DEF IInv, TypeOK
<1>2. x \in CallType
  <2>1. made.cus + 1 \in 0..MaxSubs
    BY <1>1 DEF OnBillingCustomer
  <2> QED
    BY <1>1, <2>1 DEF CallType
<1>3. x.st = "subscription" /\ x.link = call[c].link /\ x.prev = call[c].prev
  BY <1>1 DEF CallType
<1>4. call' = [call EXCEPT ![c] = x] /\ call[c].st = "customer"
  BY DEF OnBillingCustomer
<1> HIDE DEF x
<1>5. CallKnows(x)
  BY <1>3, <1>4 DEF RowsInv, CallsKnow, CallKnows
<1>6. made'.sub = made.sub
  BY <1>1 DEF OnBillingCustomer
<1>7. UNCHANGED <<row, linked, plan, seen, made.sub, sub, ev, handed, used>>
  BY <1>6 DEF OnBillingCustomer, ours, hist
<1>8. \A d \in Slots \ {c} : call[d].st = "idle"
  BY <1>4 DEF RowsInv, OneCall
<1> QED
  BY <1>2, <1>3, <1>4, <1>5, <1>7, <1>8, CallMoves

LEMMA HopFailsRows ==
  ASSUME IInv, RowsInv, OneAfterTheOther, NEW c \in Slots, HopFails(c) PROVE RowsInv'
<1>1. Idle \in CallType /\ CallKnows(Idle) /\ Idle.st # "answered"
  BY DEF Idle, CallType, MaybeTier, CallKnows
<1>2. call[c].st # "idle" /\ call' = [call EXCEPT ![c] = Idle]
  BY DEF HopFails
<1>3. UNCHANGED <<row, linked, plan, seen, made.sub, sub, ev, handed, used>>
  BY DEF HopFails, ours, stripe, hist
<1>4. call[c].st # "answered"
  <2>1. SUFFICES ASSUME call[c].st = "answered" PROVE FALSE
    OBVIOUS
  <2>2. call[c].sub \notin handed
    BY <2>1 DEF RowsInv, CallsKnow, CallKnows
  <2>3. call'[c] # call[c]
    BY <1>1, <1>2, <2>1 DEF IInv, TypeOK
  <2> QED
    BY <1>3, <2>1, <2>2, <2>3 DEF OneAfterTheOther
<1>5. \A d \in Slots \ {c} : call[d].st = "idle"
  BY <1>2 DEF RowsInv, OneCall
<1> QED
  BY <1>1, <1>2, <1>3, <1>4, <1>5, CallMoves

(* A call under way found the rows at the end of the last subscription.    *)
LEMMA CallFoundTheEnd ==
  ASSUME IInv, RowsInv, NEW c \in Slots, call[c].st \in {"customer", "subscription"}
  PROVE  /\ ~Answered /\ call[c].prev = made.sub
         /\ row.cus = 0 => made.sub = 0
         /\ row.cus # 0 => /\ made.sub # 0 /\ sub[made.sub].st \in Ends
                           /\ Len(ev) \in seen /\ row.ts = LastSecond
                           /\ \A e \in DOMAIN ev \ {Len(ev)} : ev[e].at < row.ts
<1>1. ~Answered
  BY DEF Answered, RowsInv, OneCall
<1>2. row.status \in Over /\ call[c].prev = row.sub
  BY DEF RowsInv, CallsKnow, CallKnows
<1>3. row.cus = 0 => made.sub = 0 /\ row.sub = 0
  BY <1>1 DEF RowsInv, Linking
<1>4. ASSUME row.cus # 0
      PROVE  /\ made.sub # 0 /\ sub[made.sub].st \in Ends /\ row.sub = made.sub
             /\ Len(ev) \in seen /\ row.ts = LastSecond
             /\ \A e \in DOMAIN ev \ {Len(ev)} : ev[e].at < row.ts
  <2>0. row.status \in Ends
    BY <1>2, <1>4 DEF RowsInv, Linking, Over, Ends
  <2>1. Len(ev) \in seen
    BY <1>1, <1>4, <2>0 DEF RowsInv, Caught
  <2>2. ev # <<>>
    BY <2>1, RowsTypes
  <2>3. row.sub = made.sub /\ row.status = Newest.st /\ row.status \in Ends
        /\ (row.ts = Newest.at \/ Newest.st = "incomplete")
    BY <1>4, <2>0, <2>1, <2>2 DEF RowsInv, Caught
  <2>4. row.ts = LastSecond
    BY <2>2, <2>3, RowsTypes DEF Ends
  <2>5. made.sub # 0 /\ sub[made.sub].st \in Ends
    BY <2>2, <2>3 DEF RowsInv, Chronicle
  <2>6. \A e \in DOMAIN ev : e # Len(ev) => ev[e].at < Newest.at
    BY <2>2, RowsTypes DEF RowsInv, Chronicle, Newest
  <2> QED
    BY <2>1, <2>2, <2>3, <2>4, <2>5, <2>6, RowsTypes
<1> QED
  BY <1>1, <1>2, <1>3, <1>4

(* So the key of the next creation is new: nothing is replayed.            *)
LEMMA ReplayRows ==
  ASSUME IInv, RowsInv, OneAfterTheOther, NEW c \in Slots, StripeReplays(c) PROVE FALSE
<1>1. PICK u \in used : u.key = Key(c)
  BY DEF StripeReplays
<1>2. u.key.op = "create" /\ u.key.sub = call[c].prev
  BY <1>1 DEF Key
<1>3. call[c].prev = made.sub
  BY CallFoundTheEnd DEF StripeReplays
<1> QED
  BY <1>2, <1>3, RowsTypes DEF RowsInv, InTurn

LEMMA CreatesRows ==
  ASSUME IInv, RowsInv, OneAfterTheOther, NEW c \in Slots, StripeCreates(c) PROVE RowsInv'
<1> DEFINE s == made.sub + 1
<1> DEFINE x == [call[c] EXCEPT !.st = "answered", !.sub = s]
<1> DEFINE n == [st |-> "incomplete", tier |-> call[c].tier, cus |-> call[c].cus,
                 ending |-> FALSE]
<1>1. /\ call[c] \in CallType /\ made \in [sub : 0..MaxSubs, cus : 0..MaxSubs]
      /\ call[c].tier \in Tiers /\ call \in [Slots -> CallType]
  BY DEF IInv, TypeOK, WellFormed, StripeCreates
<1>2. s \in Subs /\ s \in 0..MaxSubs /\ s # 0 /\ made.sub \in Nat /\ s = made.sub + 1
  BY <1>1 DEF StripeCreates, Subs
<1>3. /\ made'.sub = s /\ sub' = [sub EXCEPT ![s] = n]
      /\ used' = used \cup {[key |-> Key(c), sub |-> s]}
      /\ Emit(s, "incomplete", call[c].tier)
      /\ call' = [call EXCEPT ![c] = x]
      /\ UNCHANGED <<row, linked, plan, seen, handed>>
  BY <1>1 DEF StripeCreates, ours, hist
<1>4. x.st = "answered" /\ x.sub = s /\ x.link = call[c].link /\ x.cus = call[c].cus
  BY <1>1 DEF CallType
<1>5. n.st = "incomplete" /\ n.tier = call[c].tier /\ n.cus = call[c].cus
  OBVIOUS
<1> HIDE DEF s, x, n
<1>6. /\ sub'[s] = n /\ \A r \in Subs : r # s => sub'[r] = sub[r]
  BY <1>2, <1>3, RowsTypes
<1>9. call[c].st = "subscription"
  BY DEF StripeCreates
<1>7. call'[c] = x /\ \A d \in Slots \ {c} : call'[d].st = "idle"
  BY <1>1, <1>3, <1>9 DEF RowsInv, OneCall
<1>8. Answered' /\ OneCall'
  BY <1>4, <1>7 DEF Answered, OneCall
<1>10. "incomplete" \in Statuses \ {"none"} /\ "incomplete" \notin Ends
  BY DEF Statuses, Ends
<1>11. /\ Len(ev') = Len(ev) + 1 /\ DOMAIN ev' = 1..(Len(ev) + 1) /\ ev' # <<>>
       /\ \A e \in DOMAIN ev : ev'[e] = ev[e]
       /\ Newest'.sub = s /\ Newest'.st = "incomplete" /\ Newest'.tier = call[c].tier
       /\ Newest'.at = LastSecond + 1 /\ LastSecond' = LastSecond + 1
       /\ Newest' = ev'[Len(ev) + 1] /\ Len(ev') \notin seen
  BY <1>1, <1>2, <1>3, <1>10, EmitIs
<1>12. \A e \in DOMAIN ev' : \/ e \in DOMAIN ev /\ ev'[e] = ev[e]
                             \/ e = Len(ev) + 1 /\ ev'[e] = Newest'
  BY <1>11, RowsTypes
<1>13. InTurn'
  <2>1. \A r \in Subs : r > s => sub'[r].st = "none"
    BY <1>2, <1>6 DEF RowsInv, InTurn, Subs
  <2>2. \A r \in Subs : r < s => sub'[r].st \in Ends
    <3>1. made.sub # 0 => sub[made.sub].st \in Ends
      BY <1>9, CallFoundTheEnd
    <3> QED
      BY <1>2, <1>6, <3>1 DEF RowsInv, InTurn, Subs
  <2>3. \A u \in used' : u.key.op = "create" => u.key.sub < s
    <3>1. call[c].prev = made.sub
      BY <1>9, CallFoundTheEnd
    <3>2. Key(c).sub < s
      BY <1>2, <3>1 DEF Key
    <3>3. \A u \in used : u.key.op = "create" => u.key.sub < made.sub /\ u.key.sub \in 0..MaxSubs
      BY DEF RowsInv, InTurn, IInv, TypeOK, Keys
    <3> QED
      BY <1>2, <1>3, <3>2, <3>3
  <2>4. row.sub <= s /\ \A r \in handed : r <= s
    <3>1. row.sub \in Nat /\ \A r \in handed : r \in Nat
      BY RowsTypes DEF IInv, TypeOK, Subs
    <3> QED
      BY <1>2, <3>1 DEF RowsInv, InTurn
  <2>5. sub'[s].st # "none"
    BY <1>5, <1>6, <1>10
  <2> QED
    BY <1>3, <2>1, <2>2, <2>3, <2>4, <2>5 DEF InTurn
<1>14. Chronicle'
  <2>1. \A e \in DOMAIN ev : ev[e].at < Newest'.at
    BY <1>11, RowsTypes
  <2>2. \A e, f \in DOMAIN ev' : e < f => ev'[e].at < ev'[f].at
    BY <1>12, <2>1, RowsTypes DEF RowsInv, Chronicle
  <2>3. \A e \in DOMAIN ev : ev[e].sub < s
    BY <1>2, RowsTypes DEF RowsInv, Chronicle
  <2>4. \A e \in DOMAIN ev' : ev'[e].sub <= s /\ ev'[e].st # "none"
    <3>1. \A e \in DOMAIN ev : ev[e].sub <= s
      BY <1>2, <2>3, RowsTypes DEF Subs
    <3>2. \A e \in DOMAIN ev : ev[e].st # "none"
      BY DEF RowsInv, Chronicle
    <3>3. Newest'.sub <= s /\ Newest'.st # "none"
      BY <1>2, <1>10, <1>11
    <3> QED
      BY <1>12, <3>1, <3>2, <3>3
  <2>5. \A e \in DOMAIN ev' : ev'[e].sub = s /\ ev'[e].st \in Ends => e = Len(ev')
    BY <1>2, <1>11, <1>12, <2>3, RowsTypes
  <2> QED
    BY <1>2, <1>3, <1>5, <1>6, <1>11, <2>2, <2>4, <2>5 DEF Chronicle
<1>15. Linking'
  <2>1. row.cus = 0 => s = 1 /\ Len(ev') = 1
    <3>1. row.cus = 0 => made.sub = 0
      BY <1>9, CallFoundTheEnd
    <3>2. made.sub = 0 => Len(ev) = 0
      BY DEF RowsInv, Chronicle
    <3> QED
      BY <1>2, <1>11, <3>1, <3>2
  <2>2. row.cus # 0 => n.cus = row.cus
    BY <1>5, <1>9 DEF RowsInv, CallsKnow, CallKnows
  <2>3. row.cus # 0 => \A r \in Subs : r <= s => sub'[r].cus = row.cus
    <3>1. \A r \in Subs : r <= s => r = s \/ r <= made.sub
      BY <1>2, RowsTypes
    <3> QED
      BY <1>2, <1>6, <2>2, <3>1 DEF RowsInv, Linking
  <2>4. /\ linked = IF row.cus = 0 THEN {} ELSE {row.cus}
        /\ row.cus = 0 => row.sub = 0 /\ row.status = "none" /\ row.ts = 0
        /\ row.cus # 0 => row.sub # 0 /\ row.status # "none"
    BY DEF RowsInv, Linking
  <2>5. row.cus = 0 => s <= 1 /\ Len(ev') <= 1
    <3>1. 1 <= 1
      OBVIOUS
    <3> QED
      BY <2>1, <3>1, Zenon
  <2> QED
    BY <1>3, <1>8, <2>3, <2>4, <2>5 DEF Linking
<1>16. CallsKnow'
  <2>1. CallKnows(call[c])
    BY DEF RowsInv, CallsKnow
  <2>2. s \notin handed
    BY <1>2 DEF RowsInv, InTurn
  <2>3. /\ x.link <=> row.cus = 0
        /\ ~x.link => x.cus = row.cus
    BY <1>4, <1>9, <2>1 DEF CallKnows
  <2>4. sub'[s].st = "incomplete" /\ sub'[s].cus = x.cus
    BY <1>4, <1>5, <1>6
  <2>5. ASSUME NEW d \in Slots PROVE CallKnows(call[d])'
    BY <1>2, <1>3, <1>4, <1>7, <2>2, <2>3, <2>4 DEF CallKnows
  <2> QED
    BY <2>5 DEF CallsKnow
<1>17. Caught'
  <2>1. row.ts <= LastSecond'
    BY <1>11, RowsTypes DEF RowsInv, Caught
  <2>2. row.cus # 0 => \A e \in DOMAIN ev' \ seen : ev'[e].sub # s => ev'[e].at < row.ts
    <3>1. row.cus # 0 => /\ Len(ev) \in seen
                         /\ \A e \in DOMAIN ev \ {Len(ev)} : ev[e].at < row.ts
      BY <1>9, CallFoundTheEnd
    <3> QED
      BY <1>11, <1>12, <3>1
  <2> QED
    BY <1>3, <1>8, <1>11, <2>1, <2>2 DEF Caught
<1> QED
  BY <1>8, <1>13, <1>14, <1>15, <1>16, <1>17 DEF RowsInv

LEMMA AnswerRows ==
  ASSUME IInv, RowsInv, OneAfterTheOther, NEW c \in Slots, OnBillingSubscription(c) PROVE RowsInv'
<1>1. /\ CallKnows(call[c]) /\ call[c].st = "answered" /\ call[c].cus \in Customers
      /\ call[c].link \in BOOLEAN
  BY DEF RowsInv, CallsKnow, OnBillingSubscription, IInv, TypeOK, WellFormed, CallType
<1>2. /\ call[c].sub = made.sub /\ made.sub # 0 /\ sub[made.sub].st = "incomplete"
      /\ sub[made.sub].cus = call[c].cus /\ (call[c].link <=> row.cus = 0)
      /\ ~call[c].link => call[c].cus = row.cus
  BY <1>1 DEF CallKnows
<1>3. /\ row'.cus = call[c].cus /\ row'.sub = made.sub /\ row'.status = "incomplete"
      /\ row'.ts = row.ts
      /\ linked' = {call[c].cus} /\ call[c].cus # 0
  <2>1. call[c].cus # 0
    BY <1>1 DEF Customers
  <2>2. row'.cus = IF call[c].link THEN call[c].cus ELSE row.cus
    BY <1>2, RowsTypes DEF OnBillingSubscription, RowType
  <2>3. linked' = linked \cup IF call[c].link THEN {call[c].cus} ELSE {}
    BY DEF OnBillingSubscription
  <2>4. linked = IF row.cus = 0 THEN {} ELSE {row.cus}
    BY DEF RowsInv, Linking
  <2>5. row'.sub = made.sub /\ row'.status = "incomplete" /\ row'.ts = row.ts
    BY <1>2, RowsTypes DEF OnBillingSubscription, RowType
  <2> QED
    BY <1>2, <2>1, <2>2, <2>3, <2>4, <2>5
<1>4. /\ UNCHANGED <<plan, seen, sub, made, used, ev>>
      /\ handed' = handed \cup {made.sub}
      /\ \A d \in Slots : call'[d].st = "idle"
  <2>1. \A d \in Slots \ {c} : call[d].st = "idle"
    BY <1>1 DEF RowsInv, OneCall
  <2>2. \A d \in Slots : call'[d].st = "idle"
    BY <2>1 DEF OnBillingSubscription, Idle, IInv, TypeOK
  <2> QED
    BY <1>2, <2>2 DEF OnBillingSubscription, stripe
<1>5. ~Answered' /\ OneCall'
  BY <1>4 DEF Answered, OneCall
<1>6. InTurn'
  BY <1>3, <1>4, RowsTypes DEF RowsInv, InTurn
<1>7. Chronicle'
  BY <1>4 DEF RowsInv, Chronicle, Newest
<1>8. row.cus = 0 => made.sub = 1 /\ Len(ev) = 1
  <2>1. row.cus = 0 => made.sub <= 1 /\ Len(ev) <= 1
    BY DEF RowsInv, Linking
  <2>2. ev # <<>>
    BY <1>2 DEF RowsInv, Chronicle
  <2> QED
    BY <1>2, <2>1, <2>2, RowsTypes
<1>9. Linking'
  <2>1. \A r \in Subs : r <= made.sub => sub[r].cus = call[c].cus
    BY <1>2, <1>8, RowsTypes DEF RowsInv, Linking
  <2> QED
    BY <1>2, <1>3, <1>4, <2>1 DEF Linking
<1>10. CallsKnow'
  BY <1>4 DEF CallsKnow, CallKnows
<1>11. Caught'
  <2>1. row.ts <= LastSecond /\ LastSecond' = LastSecond
    BY <1>4 DEF RowsInv, Caught, LastSecond
  <2>2. \A e \in DOMAIN ev \ seen : ev[e].sub # made.sub => ev[e].at < row.ts
    <3>1. CASE row.cus = 0
      <4>1. \A e \in DOMAIN ev : ev[e].sub = 1
        BY <1>8, <3>1, RowsTypes DEF RowsInv, Chronicle
      <4> QED
        BY <1>8, <3>1, <4>1
    <3>2. CASE row.cus # 0
      BY <3>2 DEF RowsInv, Caught
    <3> QED
      BY <3>1, <3>2
  <2>3. Newest.st = "incomplete" /\ Newest' = Newest
    BY <1>2, <1>4 DEF RowsInv, Chronicle, Newest
  <2>4. Len(ev) \in seen => row.ts = Newest.at \/ Len(ev) = 1
    BY <1>2, <1>8 DEF RowsInv, Caught, Chronicle
  <2> QED
    BY <1>3, <1>4, <2>1, <2>2, <2>3, <2>4 DEF Caught, DownStatuses, Ends
<1> QED
  BY <1>5, <1>6, <1>7, <1>9, <1>10, <1>11 DEF RowsInv

(* What asks Stripe for an update, and an update that does nothing, are    *)
(* known to nobody else.                                                   *)
LEMMA AskRows ==
  ASSUME RowsInv, UNCHANGED <<row, linked, plan, seen, call, made, sub, used, ev, handed>>
  PROVE  RowsInv'
<1>1. OneCall' /\ CallsKnow' /\ Answered' = Answered
  BY DEF RowsInv, OneCall, CallsKnow, CallKnows, Answered
<1> QED
  BY <1>1, RowsFrame

LEMMA UpdateRows ==
  ASSUME IInv, RowsInv, OneAfterTheOther, NEW m \in sends, UpdateLands(m) PROVE RowsInv'
<1> DEFINE s == m.sub
<1> DEFINE x == Updated(m)
<1>1. m \in SendType /\ (m.op = "change" => m.tier \in Tiers)
  BY DEF IInv, TypeOK, WellFormed
<1>2. s \in Subs /\ sub[s] \in SubType /\ m.tier \in MaybeTier
  BY <1>1, RowsTypes DEF SendType
<1>3. sub[s].st \in {"active", "past_due"} /\ sub[s].tier \in Tiers
  BY <1>2 DEF UpdateLands, Effective, IInv, WellFormed
<1>4. /\ x \in SubType /\ x.tier \in Tiers /\ x.st = sub[s].st /\ x.cus = sub[s].cus
  <2>1. CASE m.op = "change"
    BY <1>1, <1>2, <2>1 DEF Updated, SubType
  <2>2. CASE m.op # "change"
    BY <1>2, <1>3, <2>2 DEF Updated, SubType
  <2> QED
    BY <2>1, <2>2
<1>5. /\ sub' = [sub EXCEPT ![s] = x] /\ Emit(s, sub[s].st, x.tier)
      /\ used' = used \cup {[key |-> SendKey(m), sub |-> s]}
      /\ UNCHANGED <<row, linked, plan, seen, call, made, handed>>
  BY DEF UpdateLands, ours, hist
<1>6. SendKey(m).op # "create"
  BY <1>1 DEF SendKey, SendType
<1> HIDE DEF x
<1>7. s \in Nat /\ s # 0 /\ made.sub \in Nat
  BY <1>2, RowsTypes DEF Subs
<1>8. s = made.sub
  BY <1>2, <1>3, <1>7 DEF RowsInv, InTurn, Ends
<1>9. ~Answered
  BY <1>3, <1>8 DEF RowsInv, CallsKnow, CallKnows, Answered
<1>10. sub[s].st \in Statuses \ {"none"} /\ sub[s].st \notin Ends
  BY <1>3 DEF Statuses, Ends
<1>11. \A u \in used' : u \in used \/ u.key.op # "create"
  BY <1>5, <1>6
<1> HIDE DEF s
<1> QED
  BY <1>2, <1>4, <1>5, <1>8, <1>9, <1>10, <1>11, NewestMoves

(* A delivery that is refused is not of the newest event, once linked.     *)
LEMMA IgnoredRows ==
  ASSUME IInv, RowsInv, NEW e \in EventIds, WebhookIgnored(e) PROVE RowsInv'
<1>1. e \in DOMAIN ev \ seen /\ seen' = seen \cup {e} /\ (~Known(e) \/ ~NotStale(e))
      /\ UNCHANGED <<row, linked, plan, call, sub, made, used, ev, handed>>
  BY DEF WebhookIgnored, Deliverable, stripe, hist
<1>2. OneCall' /\ CallsKnow' /\ Answered' = Answered
  BY <1>1 DEF RowsInv, OneCall, CallsKnow, CallKnows, Answered
<1>3. InTurn' /\ Chronicle' /\ Linking'
  <2>1. InTurn'
    BY <1>1 DEF RowsInv, InTurn
  <2>2. Chronicle'
    BY <1>1 DEF RowsInv, Chronicle, Newest
  <2>3. Linking'
    BY <1>1, <1>2 DEF RowsInv, Linking
  <2> QED
    BY <2>1, <2>2, <2>3
<1>4. row.cus # 0 => e # Len(ev)
  <2>1. SUFFICES ASSUME row.cus # 0, e = Len(ev) PROVE FALSE
    OBVIOUS
  <2>2. ev # <<>>
    BY <1>1, RowsTypes
  <2>3. linked = {row.cus} /\ \A s \in Subs : s <= made.sub => sub[s].cus = row.cus
    BY <2>1 DEF RowsInv, Linking
  <2>4. ev[e].sub \in Subs /\ ev[e].sub <= made.sub
    BY <1>1, RowsTypes DEF RowsInv, Chronicle
  <2>5. Known(e)
    BY <2>3, <2>4 DEF Known
  <2>6. ev[e].at = LastSecond
    BY <2>1, <2>2, RowsTypes DEF Newest
  <2>7. row.ts <= LastSecond
    BY DEF RowsInv, Caught
  <2> QED
    BY <1>1, <2>5, <2>6, <2>7, RowsTypes DEF NotStale
<1>5. Caught'
  BY <1>1, <1>2, <1>4 DEF RowsInv, Caught, Newest, LastSecond
<1> QED
  BY <1>2, <1>3, <1>5 DEF RowsInv

LEMMA AppliedRows ==
  ASSUME IInv, RowsInv, OneAfterTheOther, NEW e \in EventIds, WebhookApplied(e) PROVE RowsInv'
<1>1. /\ e \in DOMAIN ev \ seen /\ seen' = seen \cup {e} /\ Known(e) /\ NotStale(e)
      /\ ApplyPlan(Target(e))
      /\ UNCHANGED <<linked, call, sub, made, used, ev, handed>>
  BY DEF WebhookApplied, Deliverable, stripe
<1>2. /\ row'.ts = ev[e].at /\ row'.sub = ev[e].sub /\ row'.status = ev[e].st
      /\ row'.cus = row.cus
  BY RowsTypes DEF WebhookApplied, RowType
<1>3. row.cus # 0
  BY <1>1 DEF RowsInv, Linking, Known
<1>4. /\ ev # <<>> /\ ev[e].at >= row.ts /\ ev[e].at \in Nat /\ ev[e].sub \in Subs
      /\ ev[e].st # "none"
      /\ ev[e].at <= LastSecond
  BY <1>1, RowsTypes DEF NotStale, RowsInv, Chronicle
<1>5. ev[e].sub = made.sub
  BY <1>1, <1>3, <1>4, RowsTypes DEF RowsInv, Caught
<1>6. e # Len(ev) => ev[e].at < Newest.at
  BY <1>1, <1>4, RowsTypes DEF RowsInv, Chronicle, Newest
<1>7. Len(ev) \notin seen
  <2>1. SUFFICES ASSUME Len(ev) \in seen PROVE FALSE
    OBVIOUS
  <2>2. row.ts = Newest.at \/ Len(ev) = 1
    BY <1>3, <1>4, <2>1 DEF RowsInv, Caught
  <2>3. e # Len(ev)
    BY <1>1, <2>1
  <2>4. Len(ev) # 1
    BY <1>1, <2>3, RowsTypes
  <2> QED
    BY <1>4, <1>6, <2>2, <2>3, <2>4, RowsTypes
<1>8. \A c \in Slots : call[c].st \notin {"customer", "subscription"}
  BY <1>3, <1>7, CallFoundTheEnd
<1>9. Answered' = Answered /\ OneCall'
  BY <1>1 DEF Answered, RowsInv, OneCall
<1>10. InTurn'
  BY <1>1, <1>2, <1>5, RowsTypes DEF RowsInv, InTurn
<1>11. Chronicle'
  BY <1>1 DEF RowsInv, Chronicle, Newest
<1>12. Linking'
  BY <1>1, <1>2, <1>3, <1>4, <1>5 DEF RowsInv, Linking, Subs
<1>13. CallsKnow'
  BY <1>1, <1>2, <1>8 DEF RowsInv, CallsKnow, CallKnows
<1>14. Caught'
  <2>1. row'.ts <= LastSecond'
    BY <1>1, <1>2, <1>4 DEF LastSecond
  <2>2. \A f \in DOMAIN ev \ seen' : ev[f].sub # made.sub => ev[f].at < row'.ts
    <3>1. \A f \in DOMAIN ev \ seen : ev[f].sub # made.sub => ev[f].at < row.ts
      BY <1>3 DEF RowsInv, Caught
    <3> QED
      BY <1>1, <1>2, <1>4, <3>1, RowsTypes
  <2>3. ASSUME Len(ev) \in seen'
        PROVE  /\ row'.sub = made.sub /\ row'.status = Newest.st /\ row'.ts = Newest.at
               /\ Newest.st = "active" => plan' = Newest.tier
               /\ Newest.st \in DownStatuses => plan' = "free"
    <3>1. e = Len(ev) /\ Newest = ev[e]
      BY <1>1, <1>7, <2>3 DEF Newest
    <3>2. ev[e].tier # "none"
      <4>1. ev[e] \in EventType
        BY <1>1, RowsTypes
      <4> QED
        BY <4>1 DEF EventType
    <3>3. Newest.st = "active" => Target(e) = Newest.tier
      BY <3>1 DEF Target, PaidStatuses
    <3>4. Newest.st \in DownStatuses => Target(e) = "free"
      BY <3>1 DEF Target, PaidStatuses, DownStatuses
    <3> QED
      BY <1>1, <1>2, <1>5, <3>1, <3>2, <3>3, <3>4 DEF ApplyPlan
  <2>4. row'.status \in Ends => Len(ev) \in seen'
    <3>1. ev[e].st \in Ends => e = Len(ev)
      BY <1>1, <1>5 DEF RowsInv, Chronicle
    <3> QED
      BY <1>1, <1>2, <1>4, <3>1
  <2> QED
    BY <1>1, <2>1, <2>2, <2>3, <2>4 DEF Caught, Newest
<1> QED
  BY <1>9, <1>10, <1>11, <1>12, <1>13, <1>14 DEF RowsInv

LEMMA RowsStep ==
  ASSUME IInv, RowsInv, [Next]_vars, [OneAfterTheOther]_vars PROVE RowsInv'
<1>1. CASE UNCHANGED vars
  BY <1>1, AskRows DEF vars, ours, stripe, hist
<1>2. ASSUME NEW tier \in Tiers, ChangeBilling(tier) PROVE RowsInv'
  BY <1>2, AskRows DEF ChangeBilling, ours, stripe
<1>3. CASE CancelBilling
  BY <1>3, AskRows DEF CancelBilling, ours, stripe, hist
<1>4. ASSUME NEW m \in sends, UpdateIsNoOp(m) PROVE RowsInv'
  BY <1>4, AskRows DEF UpdateIsNoOp, ours, stripe, hist
<1>5. ASSUME NEW t \in Tenants,
             \/ \E i \in Lanes : PushLands(t, i) \/ PushAnswered(t, i) \/ PushFails(t, i)
             \/ PushRefires(t) \/ PushGivesUp(t) \/ OnProvisioned(t)
      PROVE  RowsInv'
  BY <1>5, AskRows DEF PushLands, PushAnswered, PushFails, PushRefires, PushGivesUp,
     OnProvisioned, stripe, hist
<1>6. CASE Next /\ OneAfterTheOther
  BY <1>2, <1>3, <1>4, <1>5, <1>6, StripeMovesRows, KeysExpireRows, SubscribeRows, CustomerRows,
     CreatesRows, ReplayRows, HopFailsRows, AnswerRows, UpdateRows, IgnoredRows, AppliedRows
  DEF Next
<1> QED
  BY <1>1, <1>6

LEMMA RowsConclude == ASSUME IInv, RowsInv PROVE RowsFollowStripe
<1> SUFFICES ASSUME Quiet, linked # {}
             PROVE  /\ row.sub = made.sub /\ row.status = sub[made.sub].st
                    /\ Paid(made.sub) => plan = sub[made.sub].tier
                    /\ Ended(made.sub) => plan = "free"
  BY DEF RowsFollowStripe
<1>1. row.cus # 0 /\ row.sub # 0
  BY DEF RowsInv, Linking
<1>2. made.sub # 0
  BY <1>1, RowsTypes DEF RowsInv, InTurn
<1>3. ev # <<>> /\ Len(ev) \in seen
  BY <1>2, RowsTypes DEF Quiet, RowsInv, Chronicle
<1>4. /\ row.sub = made.sub /\ row.status = Newest.st
      /\ Newest.st = "active" => plan = Newest.tier
      /\ Newest.st \in DownStatuses => plan = "free"
  BY <1>1, <1>3 DEF RowsInv, Caught
<1>5. Newest.st = sub[made.sub].st /\ Newest.tier = sub[made.sub].tier
  BY <1>3 DEF RowsInv, Chronicle
<1>6. Ended(made.sub) => sub[made.sub].st \in DownStatuses
  BY DEF Ended, DownStatuses
<1> QED
  BY <1>4, <1>5, <1>6 DEF Paid

(* In every behaviour that keeps an account to one subscription after      *)
(* another (OneAfterTheOther names its parts), once nothing is in flight   *)
(* the rows show the newest subscription, its status and the plan it pays  *)
(* for, in whatever order Stripe's events were delivered.                  *)
THEOREM RowsFollowStripeAlways ==
  Spec /\ [][OneAfterTheOther]_vars => []RowsFollowStripe
<1>1. Init => IInv /\ RowsInv
  BY InitIInv, RowsInit
<1>2. IInv /\ RowsInv /\ [Next]_vars /\ [OneAfterTheOther]_vars => (IInv /\ RowsInv)'
  BY NextIInv, RowsStep
<1>3. IInv /\ RowsInv => RowsFollowStripe
  BY RowsConclude
<1> QED
  BY <1>1, <1>2, <1>3, PTL DEF Spec

------------------------------------------------------------------------------
(* BillingGuards.  What the card-testing guards promise, for every window   *)
(* length and limit.  The windows are not sliding: one begins with its      *)
(* first attempt.  What holds of any window's time follows from two facts   *)
(* about them: windows are a window apart, and the next one begins after    *)
(* everything in this one.  Twice the limit of attempts reaches over two    *)
(* window boundaries, or over one whose window began with the first of      *)
(* them.                                                                    *)

HIDE BillingAssumption
USE GuardsAssumption

(* An account nobody charged satisfies the invariant.                      *)
LEMMA GuardsInitInv == GuardsInit => GuardsInv
<1> SUFFICES ASSUME GuardsInit PROVE GuardsInv
  OBVIOUS
<1>1. NoRow \in CounterType /\ NoRow.win = 0 /\ ~NoRow.there
  BY DEF NoRow, CounterType
<1>2. GuardsTypeOK
  <2>1. /\ <<>> \in Seq([at : Nat, win : Nat])
        /\ <<>> \in Seq([at : Nat, card : Cards \cup {NoCard}])
    OBVIOUS
  <2>2. minted = <<>> /\ failed = <<>>
    BY DEF GuardsInit
  <2>3. now \in Nat /\ hold \in Nat /\ cleared \in BOOLEAN /\ corrupted \in Nat
        /\ attempts \in CounterType /\ declines \in CounterType
    BY <1>1 DEF GuardsInit
  <2> QED
    BY <2>1, <2>2, <2>3 DEF GuardsTypeOK
<1>3. Charged /\ OutlastsWindow
  BY <1>1 DEF GuardsInit, Charged, OutlastsWindow
<1>4. WindowsApart
  BY <1>1 DEF GuardsInit, WindowsApart
<1> QED
  BY <1>2, <1>3, <1>4 DEF GuardsInv, GuardsInit

(* An entry of a sequence.                                                 *)
LEMMA EntryOf ==
  ASSUME NEW S, NEW s \in Seq(S)
  PROVE  Len(s) \in Nat /\ DOMAIN s = 1..Len(s) /\ \A i \in 1..Len(s) : s[i] \in S
  OBVIOUS

(* The admitted attempts.                                                  *)
LEMMA MintedEntries ==
  ASSUME GuardsTypeOK
  PROVE  /\ Len(minted) \in Nat /\ DOMAIN minted = 1..Len(minted)
         /\ \A i \in DOMAIN minted : minted[i].at \in Nat /\ minted[i].win \in Nat
<1> DEFINE S == [at : Nat, win : Nat]
<1>1. minted \in Seq(S)
  BY DEF GuardsTypeOK
<1>2. \A x \in S : x.at \in Nat /\ x.win \in Nat
  OBVIOUS
<1> HIDE DEF S
<1>3. Len(minted) \in Nat /\ DOMAIN minted = 1..Len(minted) /\ \A i \in 1..Len(minted) : minted[i] \in S
  BY <1>1, EntryOf
<1> QED
  BY <1>2, <1>3

(* A row read through billingWindowRow is a row of an open window.         *)
LEMMA RowFacts ==
  ASSUME NEW ctr \in CounterType, NEW window \in Nat \ {0}, now \in Nat, ctr.win <= now
  PROVE  /\ Row(ctr, window) \in CounterType /\ Row(ctr, window).there
         /\ Row(ctr, window).win <= now
         /\ now - Row(ctr, window).win < window
         /\ Row(ctr, window) = ctr \/ (/\ Row(ctr, window).win = now
                                       /\ Row(ctr, window).n = 0
                                       /\ ctr.there => now >= ctr.win + window)
<1>1. ctr.win \in Nat
  BY DEF CounterType
<1>2. CASE Open(ctr, window)
  BY <1>1, <1>2 DEF Open, Row
<1>3. CASE ~Open(ctr, window)
  <2> DEFINE x == [there |-> TRUE, win |-> now, n |-> 0, cards |-> {}]
  <2>1. Row(ctr, window) = x
    BY <1>3 DEF Row
  <2>2. x \in CounterType
    BY DEF CounterType
  <2>3. ctr.there => now >= ctr.win + window
    BY <1>1, <1>3 DEF Open
  <2> QED
    BY <2>1, <2>2, <2>3
<1> QED
  BY <1>2, <1>3

(* One more admitted attempt.                                              *)
LEMMA MintFacts ==
  ASSUME GuardsTypeOK, NEW x \in [at : Nat, win : Nat], minted' = Append(minted, x)
  PROVE  /\ minted' \in Seq([at : Nat, win : Nat])
         /\ Len(minted) \in Nat /\ Len(minted') = Len(minted) + 1
         /\ DOMAIN minted = 1..Len(minted) /\ DOMAIN minted' = 1..(Len(minted) + 1)
         /\ \A i \in 1..Len(minted) : /\ minted'[i] = minted[i]
                                      /\ minted[i].at \in Nat /\ minted[i].win \in Nat
         /\ minted'[Len(minted) + 1] = x
<1>1. minted \in Seq([at : Nat, win : Nat])
  BY DEF GuardsTypeOK
<1>2. /\ Len(minted) \in Nat /\ DOMAIN minted = 1..Len(minted)
      /\ \A i \in 1..Len(minted) : minted[i].at \in Nat /\ minted[i].win \in Nat
  BY MintedEntries
<1> DEFINE S == [at : Nat, win : Nat]
<1>3. minted \in Seq(S) /\ x \in S
  BY <1>1
<1> HIDE DEF S
<1>4. /\ minted' \in Seq(S) /\ Len(minted') = Len(minted) + 1
      /\ \A i \in 1..Len(minted) : minted'[i] = minted[i]
      /\ minted'[Len(minted) + 1] = x
  BY <1>2, <1>3
<1>5. DOMAIN minted' = 1..(Len(minted) + 1)
  BY <1>4, EntryOf
<1> QED
  BY <1>2, <1>4, <1>5 DEF S

(* An admitted attempt keeps the windows apart.                            *)
LEMMA SubscribeWindows ==
  ASSUME GuardsInv, WindowsApart, Attempt
  PROVE  WindowsApart'
<1> DEFINE ctr == Row(attempts, AttemptWindow)
<1> DEFINE x == [at |-> now, win |-> ctr.win]
<1> DEFINE L == Len(minted)
<1>1. GuardsTypeOK /\ Charged /\ now \in Nat /\ attempts \in CounterType /\ attempts.win <= now
  BY DEF GuardsInv, GuardsTypeOK, Charged
<1>2. /\ ctr \in CounterType /\ ctr.there /\ ctr.win <= now /\ now - ctr.win < AttemptWindow
      /\ ctr = attempts \/ (ctr.win = now /\ ctr.n = 0
                              /\ (attempts.there => now >= attempts.win + AttemptWindow))
  BY <1>1, RowFacts
<1>3. /\ attempts' = [ctr EXCEPT !.n = @ + 1] /\ ctr.n < AttemptsPerWindow
      /\ minted' = Append(minted, x) /\ now' = now
  BY DEF Attempt, RateLimited, Allowed
<1>4. ctr.win \in Nat /\ ctr.n \in Nat /\ attempts.win \in Nat
  BY <1>1, <1>2 DEF CounterType
<1>5. attempts'.n = ctr.n + 1 /\ attempts'.win = ctr.win /\ attempts'.there
  BY <1>2, <1>3 DEF CounterType
<1>6. x \in [at : Nat, win : Nat] /\ x.at = now /\ x.win = ctr.win
  BY <1>1, <1>4
<1> HIDE DEF ctr, x
<1>7. /\ L \in Nat /\ Len(minted') = L + 1
      /\ DOMAIN minted = 1..L /\ DOMAIN minted' = 1..(L + 1)
      /\ \A i \in 1..L : minted'[i] = minted[i] /\ minted[i].at \in Nat /\ minted[i].win \in Nat
      /\ minted'[L + 1] = x
  BY <1>1, <1>3, <1>6, MintFacts
<1> HIDE DEF L
<1>8. \A i \in 1..L : (minted[i].win = ctr.win) <=> (i > L - ctr.n)
  <2>1. CASE ctr = attempts
    BY <1>2, <1>7, <2>1 DEF WindowsApart, L
  <2>2. CASE ctr # attempts /\ ~attempts.there
    BY <1>7, <2>2 DEF WindowsApart, L
  <2>3. CASE ctr # attempts /\ attempts.there
    <3> SUFFICES ASSUME NEW i \in 1..L PROVE minted[i].win < ctr.win /\ ctr.n = 0
      BY <1>4, <1>7
    <3>1. ctr.win >= attempts.win + AttemptWindow /\ ctr.n = 0
      BY <1>2, <2>3
    <3>2. attempts.n \in 1..AttemptsPerWindow /\ minted[L].win = attempts.win
      BY <1>1, <1>7, <2>3 DEF Charged, WindowsApart, L
    <3>3. minted[i].win <= attempts.win
      <4>1. CASE i = L
        BY <3>2, <4>1, <1>4
      <4>2. CASE i < L
        <5>0. L \in DOMAIN minted /\ i \in DOMAIN minted
          BY <1>7, <4>2
        <5>1. minted[i].win = minted[L].win \/ minted[L].win >= minted[i].win + AttemptWindow
          BY <4>2, <5>0 DEF WindowsApart
        <5> QED
          BY <3>2, <5>1, <1>4, <1>7
      <4> QED
        BY <4>1, <4>2, <1>7
    <3> QED
      BY <3>1, <3>3, <1>4, <1>7
  <2> QED
    BY <2>1, <2>2, <2>3
<1>9. \A i \in 1..L : /\ minted[i].at <= now
                      /\ minted[i].win = ctr.win
                         \/ (ctr.win >= minted[i].win + AttemptWindow /\ ctr.win >= minted[i].at)
  <2> SUFFICES ASSUME NEW i \in 1..L, minted[i].win # ctr.win
               PROVE  ctr.win >= minted[i].win + AttemptWindow /\ ctr.win >= minted[i].at
    BY <1>7 DEF WindowsApart
  <2>0. minted # <<>>
    BY <1>7 DEF L
  <2>1. attempts.there /\ minted[L].win = attempts.win
    BY <1>1, <1>7, <2>0 DEF Charged, WindowsApart, L
  <2>2. \/ minted[i].win = attempts.win
        \/ (attempts.win >= minted[i].win + AttemptWindow /\ attempts.win >= minted[i].at)
    <3>1. CASE i = L
      BY <2>1, <3>1
    <3>2. CASE i < L
      BY <1>7, <2>1, <3>2 DEF WindowsApart
    <3> QED
      BY <3>1, <3>2, <1>7
  <2>3. CASE ctr = attempts
    BY <2>2, <2>3
  <2>4. CASE ctr # attempts
    <3>1. ctr.win = now /\ now >= attempts.win + AttemptWindow
      BY <1>2, <2>1, <2>4
    <3>2. minted[i].at <= now
      BY <1>7 DEF WindowsApart
    <3> QED
      BY <1>4, <1>7, <2>2, <3>1, <3>2
  <2> QED
    BY <2>3, <2>4
<1>10. \A i \in DOMAIN minted' : minted'[i].win <= minted'[i].at /\ minted'[i].at <= now'
  BY <1>1, <1>2, <1>3, <1>6, <1>7 DEF WindowsApart
<1>11. ASSUME NEW i \in DOMAIN minted', NEW j \in DOMAIN minted', i < j
       PROVE  /\ minted'[i].at <= minted'[j].at
              /\ minted'[i].win = minted'[j].win
                 \/ (/\ minted'[j].win >= minted'[i].win + AttemptWindow
                     /\ minted'[j].win >= minted'[i].at)
  <2>1. CASE j \in 1..L
    BY <1>7, <1>11, <2>1 DEF WindowsApart
  <2>2. CASE j = L + 1
    BY <1>6, <1>7, <1>9, <1>11, <2>2
  <2> QED
    BY <1>7, <2>1, <2>2
<1>12. ASSUME NEW i \in DOMAIN minted', NEW j \in DOMAIN minted', j = i + AttemptsPerWindow
       PROVE  minted'[i].win # minted'[j].win
  <2>1. CASE j \in 1..L
    BY <1>7, <1>12, <2>1 DEF WindowsApart
  <2>2. CASE j = L + 1
    <3>1. i \in 1..L /\ ~(i > L - ctr.n)
      BY <1>3, <1>4, <1>7, <1>12, <2>2
    <3> QED
      BY <1>6, <1>7, <1>8, <2>2, <3>1
  <2> QED
    BY <1>7, <2>1, <2>2
<1>13. ASSUME NEW i \in DOMAIN minted'
       PROVE  minted'[i].at = minted'[i].win \/ (i > 1 /\ minted'[i - 1].win = minted'[i].win)
  <2>1. CASE i \in 1..L
    <3>1. minted[i].at = minted[i].win \/ (i > 1 /\ minted[i - 1].win = minted[i].win)
      BY <1>7, <2>1 DEF WindowsApart
    <3>2. i > 1 => i - 1 \in 1..L
      BY <1>7, <2>1
    <3> QED
      BY <1>7, <2>1, <3>1, <3>2
  <2>2. CASE i = L + 1 /\ ctr.win = now
    BY <1>6, <1>7, <2>2
  <2>3. CASE i = L + 1 /\ ctr.win # now
    <3>1. ctr = attempts /\ attempts.there
      BY <1>2, <2>3
    <3>2. L \in 1..L /\ L > L - ctr.n
      BY <1>1, <1>7, <3>1 DEF Charged, L
    <3> QED
      BY <1>6, <1>7, <1>8, <2>3, <3>2
  <2> QED
    BY <1>7, <2>1, <2>2, <2>3
<1>14. \A i \in DOMAIN minted' :
         (minted'[i].win = attempts'.win) <=> (i > Len(minted') - attempts'.n)
  BY <1>4, <1>5, <1>6, <1>7, <1>8
<1> QED
  BY <1>5, <1>10, <1>11, <1>12, <1>13, <1>14 DEF WindowsApart
-----------------------------------------------------------------------------
(* An admitted attempt is charged to the window it falls in.               *)
LEMMA GuardsSubscribeStep ==
  ASSUME GuardsInv, Attempt
  PROVE  GuardsInv'
<1> DEFINE ctr == Row(attempts, AttemptWindow)
<1> DEFINE x == [at |-> now, win |-> ctr.win]
<1> DEFINE L == Len(minted)
<1>1. GuardsTypeOK /\ Charged /\ now \in Nat /\ attempts \in CounterType /\ attempts.win <= now
  BY DEF GuardsInv, GuardsTypeOK, Charged
<1>2. /\ ctr \in CounterType /\ ctr.there /\ ctr.win <= now
      /\ ctr = attempts \/ (ctr.win = now /\ ctr.n = 0)
  BY <1>1, RowFacts
<1>3. /\ attempts' = [ctr EXCEPT !.n = @ + 1] /\ ctr.n < AttemptsPerWindow
      /\ minted' = Append(minted, x)
      /\ UNCHANGED <<now, declines, hold, failed, cleared, corrupted>>
  BY DEF Attempt, RateLimited, Allowed
<1>4. ctr.win \in Nat /\ ctr.n \in Nat
  BY <1>2 DEF CounterType
<1>5. /\ attempts' \in CounterType
      /\ attempts'.n = ctr.n + 1 /\ attempts'.win = ctr.win /\ attempts'.there
  <2>1. ctr.n + 1 \in Nat
    BY <1>4
  <2> HIDE DEF ctr
  <2> QED
    BY <1>2, <1>3, <2>1 DEF CounterType
<1>6. x \in [at : Nat, win : Nat] /\ x.at = now
  BY <1>1, <1>4
<1> HIDE DEF ctr, x
<1>7. /\ minted' \in Seq([at : Nat, win : Nat])
      /\ L \in Nat /\ Len(minted') = L + 1
      /\ DOMAIN minted = 1..L /\ DOMAIN minted' = 1..(L + 1)
      /\ \A i \in 1..L : minted'[i] = minted[i]
      /\ minted'[L + 1] = x
  BY <1>1, <1>3, <1>6, MintFacts
<1> HIDE DEF L
<1>8. GuardsTypeOK'
  BY <1>1, <1>3, <1>5, <1>7 DEF GuardsTypeOK
<1>9. Charged'
  <2>1. attempts'.n \in 1..AttemptsPerWindow
    BY <1>3, <1>4, <1>5
  <2>2. ctr.n <= L
    <3>1. CASE ctr = attempts
      BY <1>1, <1>2, <3>1 DEF Charged, L
    <3>2. CASE ctr.n = 0
      BY <1>7, <3>2
    <3> QED
      BY <1>2, <3>1, <3>2
  <2>3. ASSUME NEW i \in DOMAIN minted', i > Len(minted') - attempts'.n
        PROVE  minted'[i].at >= attempts'.win
    <3>1. CASE i = L + 1
      BY <1>1, <1>2, <1>4, <1>5, <1>6, <1>7, <3>1
    <3>2. CASE i \in 1..L
      <4>1. i > L - ctr.n
        BY <1>4, <1>5, <1>7, <2>3
      <4>2. ctr = attempts
        BY <1>2, <1>7, <3>2, <4>1
      <4> QED
        BY <1>1, <1>2, <1>5, <1>7, <3>2, <4>1, <4>2 DEF Charged, L
    <3> QED
      BY <1>7, <3>1, <3>2
  <2>4. attempts'.win <= now' /\ attempts'.n <= Len(minted')
    BY <1>2, <1>3, <1>4, <1>5, <1>7, <2>2
  <2> HIDE DEF L
  <2> QED
    BY <2>1, <2>3, <2>4 DEF Charged
<1>10. OutlastsWindow' /\ corrupted' <= Corruptions
  BY <1>3 DEF GuardsInv, OutlastsWindow, Tripped
<1>11. corrupted' = 0 => WindowsApart'
  BY <1>3, SubscribeWindows DEF GuardsInv
<1> QED
  BY <1>8, <1>9, <1>10, <1>11 DEF GuardsInv

(* A decline leaves the row of an open window, and a hold from now on when *)
(* it trips.                                                               *)
LEMMA DeclineStep ==
  ASSUME GuardsInv, NEW card \in Cards \cup {NoCard}, Decline(card)
  PROVE  GuardsInv'
<1> DEFINE ctr == Row(declines, DeclineWindow)
<1> DEFINE f == [at |-> now, card |-> card]
<1>1. GuardsTypeOK /\ now \in Nat /\ declines \in CounterType /\ declines.win <= now
  BY DEF GuardsInv, GuardsTypeOK, OutlastsWindow
<1>2. ctr \in CounterType /\ ctr.win <= now
  BY <1>1, RowFacts
<1>3. /\ declines' = Counted(ctr, card) /\ failed' = Append(failed, f)
      /\ IF Tripped(declines') THEN hold' = now + HoldTime /\ cleared' = FALSE
         ELSE UNCHANGED <<hold, cleared>>
      /\ UNCHANGED <<now, attempts, minted, corrupted>>
  BY DEF Decline
<1>4. declines' \in CounterType /\ declines'.win = ctr.win
  <2>1. ctr.n + 1 \in Nat /\ ctr.cards \cup ({card} \ {NoCard}) \in SUBSET Cards
    BY <1>2 DEF CounterType
  <2> HIDE DEF ctr
  <2> QED
    BY <1>2, <1>3, <2>1 DEF Counted, CounterType
<1>5. f \in [at : Nat, card : Cards \cup {NoCard}]
  BY <1>1
<1>6. ctr.win \in Nat
  BY <1>2 DEF CounterType
<1> HIDE DEF ctr, f
<1>7. failed' \in Seq([at : Nat, card : Cards \cup {NoCard}])
  <2>1. failed \in Seq([at : Nat, card : Cards \cup {NoCard}])
    BY <1>1 DEF GuardsTypeOK
  <2> QED
    BY <1>3, <1>5, <2>1
<1>8. hold' \in Nat /\ cleared' \in BOOLEAN
  <2>1. now + HoldTime \in Nat /\ hold \in Nat /\ cleared \in BOOLEAN
    BY <1>1 DEF GuardsTypeOK
  <2>2. \/ hold' = now + HoldTime /\ cleared' = FALSE
        \/ UNCHANGED <<hold, cleared>>
    BY <1>3
  <2> QED
    BY <2>1, <2>2
<1>9. GuardsTypeOK'
  BY <1>1, <1>3, <1>4, <1>7, <1>8 DEF GuardsTypeOK
<1>10. OutlastsWindow'
  <2>1. Tripped(declines)' = Tripped(declines')
    BY DEF Tripped
  <2> QED
    BY <1>1, <1>2, <1>3, <1>4, <1>6, <2>1 DEF OutlastsWindow
<1>11. Charged' /\ corrupted' <= Corruptions /\ (corrupted' = 0 => WindowsApart')
  BY <1>3 DEF GuardsInv, Charged, WindowsApart
<1> QED
  BY <1>9, <1>10, <1>11 DEF GuardsInv

(* A dispute holds for at least what is left of a window.                  *)
LEMMA DisputeStep == ASSUME GuardsInv, Dispute PROVE GuardsInv'
<1>1. /\ hold' = now + HoldTime /\ cleared' = FALSE
      /\ UNCHANGED <<now, attempts, declines, minted, failed, corrupted>>
  BY DEF Dispute
<1>2. GuardsTypeOK'
  <2>1. GuardsTypeOK /\ now + HoldTime \in Nat
    BY DEF GuardsInv, GuardsTypeOK
  <2> QED
    BY <1>1, <2>1 DEF GuardsTypeOK
<1>3. OutlastsWindow'
  <2>1. now \in Nat /\ declines.win \in Nat /\ declines.win <= now
    BY DEF GuardsInv, GuardsTypeOK, OutlastsWindow, CounterType
  <2> QED
    BY <1>1, <2>1 DEF OutlastsWindow
<1>4. Charged' /\ corrupted' <= Corruptions /\ (corrupted' = 0 => WindowsApart')
  BY <1>1 DEF GuardsInv, Charged, WindowsApart
<1> QED
  BY <1>2, <1>3, <1>4 DEF GuardsInv

LEMMA OperatorClearsStep == ASSUME GuardsInv, OperatorClears PROVE GuardsInv'
<1>1. /\ hold' = 0 /\ cleared' = TRUE
      /\ UNCHANGED <<now, attempts, declines, minted, failed, corrupted>>
  BY DEF OperatorClears
<1>2. GuardsTypeOK'
  BY <1>1 DEF GuardsInv, GuardsTypeOK
<1>3. OutlastsWindow'
  BY <1>1 DEF GuardsInv, OutlastsWindow
<1>4. Charged' /\ corrupted' <= Corruptions /\ (corrupted' = 0 => WindowsApart')
  BY <1>1 DEF GuardsInv, Charged, WindowsApart
<1> QED
  BY <1>2, <1>3, <1>4 DEF GuardsInv

LEMMA CorruptStep == ASSUME GuardsInv, Corrupt PROVE GuardsInv'
<1>1. /\ attempts' = NoRow /\ corrupted' = corrupted + 1 /\ corrupted < Corruptions
      /\ UNCHANGED <<now, declines, hold, minted, failed, cleared>>
  BY DEF Corrupt
<1>2. NoRow \in CounterType /\ NoRow.win = 0 /\ ~NoRow.there
  BY DEF NoRow, CounterType
<1>3. now \in Nat /\ corrupted \in Nat
  BY DEF GuardsInv, GuardsTypeOK
<1>4. GuardsTypeOK'
  BY <1>1, <1>2, <1>3 DEF GuardsInv, GuardsTypeOK
<1>5. OutlastsWindow'
  BY <1>1 DEF GuardsInv, OutlastsWindow, Tripped
<1>6. Charged'
  BY <1>1, <1>2, <1>3 DEF Charged
<1>7. corrupted' <= Corruptions /\ corrupted' # 0
  BY <1>1, <1>3
<1> QED
  BY <1>4, <1>5, <1>6, <1>7 DEF GuardsInv

LEMMA TickStep == ASSUME GuardsInv, Tick PROVE GuardsInv'
<1>1. now' = now + 1 /\ UNCHANGED <<attempts, declines, hold, minted, failed, cleared, corrupted>>
  BY DEF Tick
<1>2. GuardsTypeOK /\ now \in Nat /\ attempts.win \in Nat /\ declines.win \in Nat
  BY DEF GuardsInv, GuardsTypeOK, CounterType
<1>3. GuardsTypeOK'
  BY <1>1, <1>2 DEF GuardsTypeOK
<1>4. OutlastsWindow' /\ Charged' /\ corrupted' <= Corruptions
  BY <1>1, <1>2 DEF GuardsInv, OutlastsWindow, Charged, Tripped
<1>5. corrupted' = 0 => WindowsApart'
  <2> SUFFICES ASSUME WindowsApart PROVE WindowsApart'
    BY <1>1 DEF GuardsInv
  <2>1. \A i \in DOMAIN minted : minted[i].at \in Nat
    BY <1>2, MintedEntries
  <2>2. \A i \in DOMAIN minted : minted[i].at <= now'
    BY <1>1, <1>2, <2>1 DEF WindowsApart
  <2> QED
    BY <1>1, <2>2 DEF WindowsApart
<1> QED
  BY <1>3, <1>4, <1>5 DEF GuardsInv

(* Every step preserves the invariant.                                     *)
LEMMA GuardsNextInv == GuardsInv /\ [GuardsNext]_guardVars => GuardsInv'
<1> SUFFICES ASSUME GuardsInv, [GuardsNext]_guardVars PROVE GuardsInv'
  OBVIOUS
<1>1. CASE UNCHANGED guardVars
  BY <1>1 DEF guardVars, GuardsInv, GuardsTypeOK, Charged, WindowsApart, OutlastsWindow, Tripped
<1> QED
  BY <1>1, GuardsSubscribeStep, DeclineStep, DisputeStep, OperatorClearsStep, CorruptStep,
     TickStep DEF GuardsNext
(* The inductive invariant of the guards.                                  *)
THEOREM GuardsInductive == GuardsSpec => []GuardsInv
  BY GuardsInitInv, GuardsNextInv, PTL DEF GuardsSpec

(* Type correctness of the guards' rows.                                   *)
THEOREM GuardsTypeCorrect == GuardsSpec => []GuardsTypeOK
<1>1. GuardsInv => GuardsTypeOK
  BY DEF GuardsInv
<1> QED
  BY <1>1, GuardsInductive, PTL

(* Twice the limit of attempts take a window's time: they reach over two   *)
(* window boundaries, or over one and the first of them began its window.  *)
LEMMA Spread == ASSUME GuardsInv, corrupted = 0 PROVE SecretsSpread
<1> DEFINE N == AttemptsPerWindow
<1> DEFINE W == AttemptWindow
<1>1. WindowsApart /\ N \in Nat \ {0} /\ W \in Nat
  BY DEF GuardsInv
<1>2. Len(minted) \in Nat /\ DOMAIN minted = 1..Len(minted)
  BY MintedEntries DEF GuardsInv
<1>3. \A i \in DOMAIN minted : minted[i].at \in Nat /\ minted[i].win \in Nat /\ i \in Nat
  BY <1>2, MintedEntries DEF GuardsInv
<1> SUFFICES ASSUME NEW i \in DOMAIN minted, NEW j \in DOMAIN minted, j = i + 2 * N - 1
             PROVE  minted[j].at - minted[i].at >= W
  BY DEF SecretsSpread
<1>4. \A k \in i..j : k \in DOMAIN minted
  BY <1>2
<1> HIDE DEF N, W
<1>5. minted[j].at >= minted[j].win
  BY <1>1, <1>3 DEF WindowsApart
<1>6. CASE minted[i].at = minted[i].win
  <2> DEFINE k == i + N
  <2>1. k \in DOMAIN minted /\ i < k /\ k <= j
    BY <1>1, <1>3, <1>4
  <2>2. minted[k].win >= minted[i].win + W
    BY <1>1, <1>3, <2>1 DEF WindowsApart, N, W
  <2>3. minted[j].at >= minted[k].at /\ minted[k].at >= minted[k].win
    BY <1>1, <1>3, <2>1 DEF WindowsApart
  <2> QED
    BY <1>1, <1>3, <1>6, <2>1, <2>2, <2>3
<1>7. CASE i > 1 /\ minted[i - 1].win = minted[i].win
  <2> DEFINE k == (i - 1) + N
  <2>1. /\ i - 1 \in DOMAIN minted /\ k \in DOMAIN minted
        /\ k <= j /\ i <= k /\ k < j /\ j = k + N
    <3>1. i \in Nat /\ j \in Nat /\ i <= Len(minted) /\ j <= Len(minted)
      BY <1>2
    <3>2. k <= j /\ i <= k /\ k < j /\ j = k + N /\ i - 1 >= 1
      BY <1>1, <1>7, <3>1 DEF N
    <3> QED
      BY <1>1, <1>2, <3>1, <3>2
  <2>2. minted[k].win # minted[i].win
    BY <1>1, <1>7, <2>1 DEF WindowsApart, N
  <2>3. i < k
    BY <1>1, <1>3, <2>1, <2>2
  <2>4. minted[k].win >= minted[i].at
    BY <1>1, <2>1, <2>2, <2>3 DEF WindowsApart
  <2>5. minted[j].win >= minted[k].win + W
    BY <1>1, <2>1 DEF WindowsApart, N, W
  <2> QED
    BY <1>1, <1>3, <1>5, <2>1, <2>4, <2>5
<1> QED
  BY <1>1, <1>6, <1>7 DEF WindowsApart, W

(* While the attempts row was never lost, an account asks for at most       *)
(* 2N - 1 client secrets in any hour (billingAttemptRefusal).              *)
THEOREM SecretsSpreadAlways == GuardsSpec => []SecretsSpread
<1>1. GuardsInv => SecretsSpread
  BY Spread DEF SecretsSpread
<1> QED
  BY <1>1, GuardsInductive, PTL

(* A customer who is rate limited did ask the limit's number of times      *)
(* within the last hour, whatever became of the row before                 *)
(* (billingAttemptRefusal).                                                *)
THEOREM RefusalIsEarnedAlways == GuardsSpec => []RefusalIsEarned
<1>1. ASSUME GuardsInv PROVE RefusalIsEarned
  <2> SUFFICES ASSUME RateLimited
               PROVE  /\ Len(minted) >= AttemptsPerWindow
                      /\ now - minted[Len(minted) - AttemptsPerWindow + 1].at < AttemptWindow
    BY DEF RefusalIsEarned
  <2> DEFINE ctr == Row(attempts, AttemptWindow)
  <2>1. /\ GuardsTypeOK /\ Charged /\ now \in Nat /\ attempts \in CounterType /\ attempts.win <= now
        /\ attempts.win \in Nat /\ attempts.n \in Nat
    BY <1>1 DEF GuardsInv, GuardsTypeOK, Charged, CounterType
  <2>2. now - ctr.win < AttemptWindow /\ (ctr = attempts \/ ctr.n = 0) /\ ctr.there
    BY <2>1, RowFacts
  <2>3. ~(ctr.n < AttemptsPerWindow)
    BY DEF RateLimited, Allowed
  <2>4. ctr = attempts
    BY <2>2, <2>3
  <2> HIDE DEF ctr
  <2>5. attempts.n = AttemptsPerWindow /\ AttemptsPerWindow <= Len(minted)
    BY <2>1, <2>2, <2>3, <2>4 DEF Charged
  <2> DEFINE i == Len(minted) - AttemptsPerWindow + 1
  <2>6. i \in DOMAIN minted /\ i > Len(minted) - attempts.n
    BY <2>1, <2>5, MintedEntries
  <2>7. minted[i].at >= attempts.win /\ minted[i].at \in Nat
    BY <2>1, <2>2, <2>4, <2>6, MintedEntries DEF Charged
  <2> HIDE DEF i
  <2>8. now - minted[i].at < AttemptWindow
    BY <2>1, <2>2, <2>4, <2>7
  <2> QED
    BY <2>5, <2>8 DEF i
<1> QED
  BY <1>1, GuardsInductive, PTL

(* When a hold that nobody cleared lapses, the decline counters that       *)
(* tripped it have lapsed too (recordBillingDecline, billingHold).         *)
THEOREM LapsesTogetherAlways == GuardsSpec => []LapsesTogether
<1>1. ASSUME GuardsInv PROVE LapsesTogether
  <2>1. now \in Nat /\ hold \in Nat /\ declines.win \in Nat
    BY <1>1 DEF GuardsInv, GuardsTypeOK, CounterType
  <2> QED
    BY <1>1, <2>1 DEF GuardsInv, OutlastsWindow, LapsesTogether, Open, Held
<1> QED
  BY <1>1, GuardsInductive, PTL
=============================================================================
