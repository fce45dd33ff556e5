--------------------------- MODULE DispatchProofs ---------------------------
(***************************************************************************)
(* Dispatches keep the promises of module RemoteCalls, so what a route     *)
(* answers is true: for any number of requests, activations and losses.    *)
(*                                                                         *)
(* An answer rests on the marker: while it stands nothing is answered, and *)
(* once it is gone no activation of the request starts any more.  Those    *)
(* under way are in a queue, so they are ahead of every activation of a    *)
(* request that was asked after the answer (Ordered).                      *)
(***************************************************************************)
EXTENDS Dispatch, TLAPS

USE DispatchAssumption

Values == Deployments \cup {Nothing}
Targets == [instance : BOOLEAN, domain : BOOLEAN, value : Values, release : Values]
Sayings == {"wrote", "refused", "overflow"} \cup Values
Outcomes == [to : Requests, says : Sayings]

IsAsked(x) ==
    /\ x.stage \in {"parked", "answered", "dead"} /\ x.op \in Ops /\ x.after \subseteq Requests
    /\ x.stage = "parked" => x = [stage |-> "parked", op |-> x.op, after |-> x.after]

(* The types of the rows, and what nobody asked for leaves no trace.       *)
Typed ==
    /\ request = [r \in Requests |-> request[r]]
    /\ \A r \in Requests : request[r] = Idle \/ IsAsked(request[r])
    /\ result = [r \in Requests |-> result[r]]
    /\ owedTo \subseteq Requests /\ outcomes \subseteq Outcomes
    /\ runs \in Seq(Requests) /\ replies \subseteq Outcomes /\ target \in Targets

AllAsked ==
    \A r \in Requests : request[r] = Idle =>
        /\ r \notin owedTo
        /\ \A i \in 1 .. Len(runs) : runs[i] # r
        /\ \A b \in outcomes : b.to # r

Ran(q) == \E b \in outcomes : b.to = q
Said(r, says) == [to |-> r, says |-> says] \in outcomes

(* An outcome on its way, a result row and an answer say what an           *)
(* activation of the request said.                                         *)
RepliesTrue == replies \subseteq outcomes

ResultsTrue ==
    \A r \in Requests :
        request[r].stage = "parked" /\ r \notin owedTo =>
            IF WantsResult(Op(r)) THEN result[r] # "none" /\ Said(r, result[r])
            ELSE Ran(r)

AnswersTrue ==
    \A r \in Requests : request[r].stage = "answered" =>
        /\ r \notin owedTo
        /\ request[r].says # "none"
        /\ IF WantsResult(Op(r)) THEN Said(r, request[r].says) ELSE request[r].says = "queued" /\ Ran(r)

(* What was answered before q was asked for is ahead of q, and gone when q *)
(* has run.                                                               *)
Ordered ==
    \A q \in Requests : request[q] # Idle => \A r \in request[q].after :
        /\ request[r].stage = "answered" /\ r # q
        /\ \A i, j \in 1 .. Len(runs) : runs[i] = r /\ runs[j] = q => i < j
        /\ Ran(q) => \A i \in 1 .. Len(runs) : runs[i] # r

DispatchInv == Typed /\ AllAsked /\ RepliesTrue /\ ResultsTrue /\ AnswersTrue /\ Ordered

LEMMA KindOfOp ==
  ASSUME NEW op \in Ops
  PROVE  /\ op.kind \in {"create", "assign", "get", "set", "flip"} /\ op.value \in Values
         /\ op.kind = "flip" <=> op \in Flips
         /\ op.kind = "flip" <=> op \notin Creates \cup Assigns \cup ScopedOps
  BY DEF Ops, Creates, Assigns, ScopedOps, Flips, Values

LEMMA IdleOrAsked ==
  ASSUME Typed, NEW r \in Requests
  PROVE  /\ request[r].stage \in {"idle", "parked", "answered", "dead"}
         /\ request[r].stage = "idle" <=> request[r] = Idle
         /\ request[r] # Idle => IsAsked(request[r])
  BY DEF Typed, IsAsked, Idle

LEMMA DispatchStart == DispatchInit => DispatchInv
<1> SUFFICES ASSUME DispatchInit PROVE DispatchInv
  OBVIOUS
<1>1. \A r \in Requests : request[r] = Idle /\ request[r].stage = "idle"
  BY DEF DispatchInit, Idle
<1>2. Typed
  <2>1. target \in Targets
    BY DEF DispatchInit, Targets, Values
  <2> QED
    BY <2>1, <1>1 DEF DispatchInit, Typed
<1>3. AllAsked /\ RepliesTrue
  BY DEF DispatchInit, AllAsked, RepliesTrue
<1>4. ResultsTrue /\ AnswersTrue /\ Ordered
  BY <1>1 DEF DispatchInit, ResultsTrue, AnswersTrue, Ordered
<1> QED
  BY <1>2, <1>3, <1>4 DEF DispatchInv

LEMMA AskStep ==
  ASSUME DispatchInv, NEW r \in Requests, NEW op \in Ops, Ask(r, op)
  PROVE  DispatchInv'
<1> DEFINE asked == [stage |-> "parked", op |-> op,
                     after |-> {q \in Requests : request[q].stage = "answered"}]
<1>1. /\ request[r] = Idle /\ request' = [request EXCEPT ![r] = asked]
      /\ owedTo' = owedTo \cup {r}
      /\ UNCHANGED <<result, runs, replies, target, outcomes>>
  BY DEF Ask
<1>2. /\ request'[r] = asked /\ request'[r] # Idle /\ request'[r].stage = "parked"
      /\ \A q \in Requests : q # r => request'[q] = request[q]
      /\ request' = [q \in Requests |-> request'[q]]
  BY <1>1 DEF DispatchInv, Typed, Idle
<1>3. IsAsked(request'[r])
  BY <1>2 DEF IsAsked
<1>4. request[r].stage = "idle"
  BY <1>1 DEF Idle
<1>5. Typed'
  <2>1. \A q \in Requests : request'[q] = Idle \/ IsAsked(request'[q])
    BY <1>2, <1>3 DEF DispatchInv, Typed
  <2> QED
    BY <1>1, <1>2, <2>1 DEF DispatchInv, Typed, Targets, Outcomes, Sayings, Values, IsAsked, Idle
<1>6. AllAsked'
  BY <1>1, <1>2 DEF DispatchInv, AllAsked, Idle
<1>7. RepliesTrue'
  <2>1. \A b \in outcomes : b.to \in Requests /\ b.to # r
    BY <1>1 DEF DispatchInv, Typed, AllAsked, Outcomes
  <2> QED
    BY <1>1, <1>2, <2>1 DEF DispatchInv, RepliesTrue, Op
<1>8. ResultsTrue'
  BY <1>1, <1>2 DEF DispatchInv, ResultsTrue, Said, Ran, Op, WantsResult
<1>9. AnswersTrue'
  BY <1>1, <1>2, <1>4 DEF DispatchInv, AnswersTrue, Said, Ran, Op, WantsResult
<1>10. Ordered'
  <2> SUFFICES ASSUME NEW q \in Requests, request'[q] # Idle, NEW a \in request'[q].after
               PROVE  /\ request'[a].stage = "answered" /\ a # q
                      /\ \A i, j \in 1 .. Len(runs) : runs[i] = a /\ runs[j] = q => i < j
                      /\ Ran(q) => \A i \in 1 .. Len(runs) : runs[i] # a
    BY <1>1 DEF Ordered, Ran, Idle
  <2>1. CASE q = r
    <3>1. a \in Requests /\ request[a].stage = "answered" /\ a # r
      BY <1>2, <1>4, <2>1
    <3>2. ~Ran(r) /\ \A i \in 1 .. Len(runs) : runs[i] # r
      BY <1>1 DEF DispatchInv, AllAsked, Ran
    <3> QED
      BY <1>2, <2>1, <3>1, <3>2
  <2>2. CASE q # r
    <3>1. request[q] # Idle /\ a \in request[q].after /\ a \in Requests
      BY <1>2, <2>2, IdleOrAsked DEF DispatchInv, IsAsked
    <3>2. a # r
      BY <1>4, <3>1 DEF DispatchInv, Ordered
    <3> QED
      BY <1>2, <3>1, <3>2 DEF DispatchInv, Ordered
  <2> QED
    BY <2>1, <2>2
<1> QED
  BY <1>5, <1>6, <1>7, <1>8, <1>9, <1>10 DEF DispatchInv

(* The invariant does not speak of wakes and losses.                       *)
LEMMA NothingMoved ==
  ASSUME DispatchInv, UNCHANGED <<request, owedTo, result, runs, replies, target, outcomes>>
  PROVE  DispatchInv'
<1>1. Typed'
  BY DEF DispatchInv, Typed, IsAsked, Idle, Targets, Outcomes, Sayings, Values
<1>2. AllAsked' /\ RepliesTrue'
  BY DEF DispatchInv, AllAsked, RepliesTrue, Idle, Op
<1>3. ResultsTrue' /\ AnswersTrue'
  BY DEF DispatchInv, ResultsTrue, AnswersTrue, Said, Ran, Op, WantsResult
<1>4. Ordered'
  BY DEF DispatchInv, Ordered, Ran, Idle
<1> QED
  BY <1>1, <1>2, <1>3, <1>4 DEF DispatchInv

(* A fire starts an activation only of a request that is still owed, and   *)
(* at the end of the queue.                                                *)
LEMMA FireStep ==
  ASSUME DispatchInv, NEW r \in Requests, NEW w \in wakes[r], DispatchFire(r, w)
  PROVE  DispatchInv'
<1>1. UNCHANGED <<request, owedTo, result, replies, target, outcomes>>
  BY DEF DispatchFire
<1>2. CASE r \notin owedTo
  <2>1. runs' = runs
    BY <1>2 DEF DispatchFire
  <2> QED
    BY <1>1, <2>1, NothingMoved
<1>3. CASE r \in owedTo
  <2>1. runs' = Append(runs, r) /\ runs \in Seq(Requests)
    BY <1>3 DEF DispatchFire, DispatchInv, Typed
  <2>2. /\ runs' \in Seq(Requests) /\ Len(runs') = Len(runs) + 1 /\ Len(runs) \in Nat
        /\ runs'[Len(runs) + 1] = r
        /\ \A i \in 1 .. Len(runs) : runs'[i] = runs[i]
    BY <2>1
  <2>3. \A i \in 1 .. Len(runs') : i \in 1 .. Len(runs) \/ i = Len(runs) + 1
    BY <2>2
  <2>4. Typed'
    BY <1>1, <2>2 DEF DispatchInv, Typed, IsAsked, Idle, Targets, Outcomes, Sayings, Values
  <2>5. AllAsked'
    BY <1>1, <1>3, <2>2, <2>3 DEF DispatchInv, AllAsked, Idle
  <2>6. RepliesTrue' /\ ResultsTrue' /\ AnswersTrue'
    BY <1>1 DEF DispatchInv, RepliesTrue, ResultsTrue, AnswersTrue, Said, Ran, Op, WantsResult
  <2>7. Ordered'
    <3> SUFFICES ASSUME NEW q \in Requests, request[q] # Idle, NEW a \in request[q].after
                 PROVE  /\ request[a].stage = "answered" /\ a # q
                        /\ \A i, j \in 1 .. Len(runs') : runs'[i] = a /\ runs'[j] = q => i < j
                        /\ Ran(q) => \A i \in 1 .. Len(runs') : runs'[i] # a
      BY <1>1 DEF Ordered, Ran, Idle
    <3>1. request[a].stage = "answered" /\ a # q /\ a \in Requests
      BY IdleOrAsked DEF DispatchInv, Ordered, IsAsked
    <3>2. a # r
      BY <1>3, <3>1 DEF DispatchInv, AnswersTrue
    <3>3. /\ \A i, j \in 1 .. Len(runs) : runs[i] = a /\ runs[j] = q => i < j
          /\ Ran(q) => \A i \in 1 .. Len(runs) : runs[i] # a
      BY DEF DispatchInv, Ordered
    <3>4. \A i \in 1 .. Len(runs') : runs'[i] = a => i \in 1 .. Len(runs) /\ runs[i] = a
      BY <2>2, <2>3, <3>2
    <3>5. \A i, j \in 1 .. Len(runs') : runs'[i] = a /\ runs'[j] = q => i < j
      BY <2>2, <2>3, <3>3, <3>4
    <3> QED
      BY <3>1, <3>3, <3>4, <3>5
  <2> QED
    BY <2>4, <2>5, <2>6, <2>7 DEF DispatchInv
<1> QED
  BY <1>2, <1>3

(* The activation at the head of the queue, and what it leaves.            *)
LEMMA TailOf ==
  ASSUME NEW s \in Seq(Requests), s # <<>>
  PROVE  /\ Head(s) = s[1] /\ Head(s) \in Requests /\ 1 \in 1 .. Len(s)
         /\ Tail(s) \in Seq(Requests)
         /\ Len(Tail(s)) = Len(s) - 1 /\ Len(s) \in Nat
         /\ \A i \in 1 .. Len(Tail(s)) : i + 1 \in 1 .. Len(s) /\ Tail(s)[i] = s[i + 1]
  OBVIOUS

(* Each of the target's modules does what the abstract call does.          *)
LEMMA TargetDoes ==
  ASSUME Typed, NEW r \in Requests, request[r] # Idle,
         RootKvInstall(r) \/ ReleaseFlip(r) \/ ScopeKv(r)
  PROVE  /\ target' = Calls!Effect(Op(r), target) /\ target' \in Targets
         /\ Reply(r, Calls!Outcome(Op(r), target))
         /\ Calls!Outcome(Op(r), target) \in Sayings
<1>1. Op(r).kind \in {"create", "assign", "get", "set", "flip"} /\ Op(r).value \in Values
  BY IdleOrAsked, KindOfOp DEF IsAsked, Op
<1>2. /\ target = [instance |-> target.instance, domain |-> target.domain,
                  value |-> target.value, release |-> target.release]
      /\ target.instance \in BOOLEAN /\ target.domain \in BOOLEAN
      /\ target.value \in Values /\ target.release \in Values
  BY DEF Typed, Targets
<1>3. CASE Op(r).kind = "create" /\ RootKvInstall(r)
  BY <1>2, <1>3 DEF RootKvInstall, Targets, Sayings, Calls!Effect, Calls!Outcome, Calls!Refuses
<1>4. CASE Op(r).kind = "assign" /\ RootKvInstall(r)
  <2>1. CASE target.instance
    BY <1>2, <1>4, <2>1 DEF RootKvInstall, Targets, Sayings, Calls!Effect, Calls!Outcome, Calls!Refuses
  <2>2. CASE ~target.instance
    <3>1. target' = target /\ Reply(r, "refused")
      BY <1>4, <2>2 DEF RootKvInstall
    <3>2. Calls!Outcome(Op(r), target) = "refused"
      BY <1>4, <2>2 DEF Calls!Outcome, Calls!Refuses
    <3>3. Calls!Effect(Op(r), target) = target
      BY <1>2, <1>4, <2>2 DEF Calls!Effect, Calls!Refuses
    <3> QED
      BY <1>2, <1>4, <3>1, <3>2, <3>3 DEF Targets, Sayings
  <2> QED
    BY <2>1, <2>2
<1>5. CASE ReleaseFlip(r)
  <2>1. CASE Fit(r)
    BY <1>1, <1>2, <1>5, <2>1 DEF ReleaseFlip, Fit, Targets, Sayings, Calls!Effect, Calls!Outcome, Calls!Refuses
  <2>2. CASE ~Fit(r)
    BY <1>1, <1>2, <1>5, <2>2 DEF ReleaseFlip, Fit, Targets, Sayings, Calls!Effect, Calls!Outcome, Calls!Refuses
  <2> QED
    BY <2>1, <2>2
<1>6. CASE Op(r).kind = "set" /\ ScopeKv(r)
  <2>1. CASE Fit(r)
    BY <1>1, <1>2, <1>6, <2>1 DEF ScopeKv, Fit, Targets, Sayings, Calls!Effect, Calls!Outcome, Calls!Refuses
  <2>2. CASE ~Fit(r)
    BY <1>1, <1>2, <1>6, <2>2 DEF ScopeKv, Fit, Targets, Sayings, Calls!Effect, Calls!Outcome, Calls!Refuses
  <2> QED
    BY <2>1, <2>2
<1>7. CASE Op(r).kind = "get" /\ ScopeKv(r)
  <2>1. ~Calls!Refuses(Op(r), target)
    BY <1>7 DEF Calls!Refuses
  <2>2. Calls!Outcome(Op(r), target) = Carried(target.value)
    BY <1>7, <2>1 DEF Calls!Outcome, Carried
  <2>3. target' = target /\ Reply(r, Carried(target.value))
    BY <1>7 DEF ScopeKv
  <2>4. Calls!Effect(Op(r), target) = target
    BY <1>2, <1>7, <2>1 DEF Calls!Effect
  <2>5. Carried(target.value) \in Sayings
    BY <1>2 DEF Carried, Sayings
  <2> QED
    BY <1>2, <2>2, <2>3, <2>4, <2>5 DEF Targets
<1> QED
  BY <1>3, <1>4, <1>5, <1>6, <1>7 DEF RootKvInstall, ScopeKv

LEMMA TargetStep ==
  ASSUME DispatchInv, TargetRuns
  PROVE  DispatchInv'
<1> DEFINE r == Head(runs)
<1>1. /\ runs # <<>> /\ runs' = Tail(runs) /\ runs \in Seq(Requests)
      /\ UNCHANGED <<request, owedTo, result>>
      /\ RootKvInstall(r) \/ ReleaseFlip(r) \/ ScopeKv(r)
  BY DEF TargetRuns, DispatchInv, Typed
<1>2. r = runs[1] /\ r \in Requests /\ 1 \in 1 .. Len(runs)
  BY <1>1, TailOf
<1>3. /\ runs' \in Seq(Requests) /\ Len(runs) \in Nat
      /\ Len(runs') = Len(runs) - 1
      /\ \A i \in 1 .. Len(runs') : i + 1 \in 1 .. Len(runs) /\ runs'[i] = runs[i + 1]
  BY <1>1, TailOf
<1>4. request[r] # Idle
  BY <1>2 DEF DispatchInv, AllAsked
<1> HIDE DEF r
<1>5. PICK says \in Sayings :
        /\ target' \in Targets
        /\ replies' = replies \cup {[to |-> r, says |-> says]}
        /\ outcomes' = outcomes \cup {[to |-> r, says |-> says]}
  BY <1>1, <1>2, <1>4, TargetDoes DEF DispatchInv, Reply
<1>6. Typed'
  <2>1. replies' \subseteq Outcomes
    BY <1>2, <1>5 DEF DispatchInv, Typed, Outcomes
  <2>2. outcomes' \subseteq Outcomes
    BY <1>2, <1>5 DEF DispatchInv, Typed, Outcomes
  <2> QED
    BY <1>1, <1>3, <1>5, <2>1, <2>2 DEF DispatchInv, Typed, IsAsked, Idle, Targets, Outcomes, Sayings, Values
<1>7. AllAsked'
  <2> SUFFICES ASSUME NEW q \in Requests, request[q] = Idle
               PROVE  /\ q \notin owedTo
                      /\ \A i \in 1 .. Len(runs') : runs'[i] # q
                      /\ \A b \in outcomes' : b.to # q
    BY <1>1 DEF AllAsked, Idle
  <2>1. q # r
    BY <1>4
  <2> QED
    BY <1>3, <1>5, <2>1 DEF DispatchInv, AllAsked
<1>8. RepliesTrue'
  BY <1>1, <1>5 DEF DispatchInv, RepliesTrue, Op
<1>9. ResultsTrue' /\ AnswersTrue'
  BY <1>1, <1>5 DEF DispatchInv, ResultsTrue, AnswersTrue, Said, Ran, Op, WantsResult
<1>10. Ordered'
  <2> SUFFICES ASSUME NEW q \in Requests, request[q] # Idle, NEW a \in request[q].after
               PROVE  /\ request[a].stage = "answered" /\ a # q
                      /\ \A i, j \in 1 .. Len(runs') : runs'[i] = a /\ runs'[j] = q => i < j
                      /\ Ran(q)' => \A i \in 1 .. Len(runs') : runs'[i] # a
    BY <1>1 DEF Ordered, Ran, Idle
  <2>1. /\ request[a].stage = "answered" /\ a # q
        /\ \A i, j \in 1 .. Len(runs) : runs[i] = a /\ runs[j] = q => i < j
        /\ Ran(q) => \A i \in 1 .. Len(runs) : runs[i] # a
    BY DEF DispatchInv, Ordered
  <2>2. \A i, j \in 1 .. Len(runs') : runs'[i] = a /\ runs'[j] = q => i < j
    BY <1>3, <2>1
  <2>3. ASSUME Ran(q)', NEW i \in 1 .. Len(runs')
        PROVE  runs'[i] # a
    <3>1. CASE Ran(q)
      BY <1>3, <2>1, <3>1
    <3>2. CASE q = r
      <4>1. runs[1] = q /\ i + 1 \in 1 .. Len(runs) /\ ~(i + 1 < 1)
        BY <1>2, <1>3, <3>2
      <4>2. runs[i + 1] # a
        BY <1>2, <2>1, <4>1
      <4> QED
        BY <1>3, <4>2
    <3> QED
      BY <1>5, <2>3, <3>1, <3>2 DEF Ran
  <2> QED
    BY <2>1, <2>2, <2>3
<1> QED
  BY <1>6, <1>7, <1>8, <1>9, <1>10 DEF DispatchInv

(* A loss takes activations and outcomes away.                             *)
LEMMA LoseStep ==
  ASSUME DispatchInv, Lose
  PROVE  DispatchInv'
<1>1. /\ UNCHANGED <<request, owedTo, result, target, outcomes>>
      /\ replies' \subseteq replies /\ runs' \in {runs, <<>>}
  BY DEF Lose
<1>2. runs' \in Seq(Requests) /\ \A i \in 1 .. Len(runs') : runs' = runs
  <2>1. CASE runs' = runs
    BY <2>1 DEF DispatchInv, Typed
  <2>2. CASE runs' = <<>>
    <3>1. runs' \in Seq(Requests) /\ Len(runs') = 0
      BY <2>2
    <3> QED
      BY <3>1
  <2> QED
    BY <1>1, <2>1, <2>2
<1>3. Typed'
  BY <1>1, <1>2 DEF DispatchInv, Typed, IsAsked, Idle, Targets, Outcomes, Sayings, Values
<1>4. AllAsked'
  BY <1>1, <1>2 DEF DispatchInv, AllAsked, Idle
<1>5. RepliesTrue' /\ ResultsTrue' /\ AnswersTrue'
  BY <1>1 DEF DispatchInv, RepliesTrue, ResultsTrue, AnswersTrue, Said, Ran, Op, WantsResult
<1>6. Ordered'
  BY <1>1, <1>2 DEF DispatchInv, Ordered, Ran, Idle
<1> QED
  BY <1>3, <1>4, <1>5, <1>6 DEF DispatchInv

(* The first outcome of a request resolves it.                             *)
LEMMA ResultStep ==
  ASSUME DispatchInv, NEW b \in replies, DispatchResult(b)
  PROVE  DispatchInv'
<1>1. /\ replies' = replies \ {b} /\ UNCHANGED <<request, runs, target, outcomes>>
      /\ b.to \in Requests /\ b.says \in Sayings
  BY DEF DispatchResult, DispatchInv, Typed, Outcomes
<1>2. /\ result' = [r \in Requests |-> result'[r]]
      /\ owedTo' \subseteq owedTo
      /\ \A r \in Requests : \/ result'[r] = result[r] /\ (r \in owedTo' <=> r \in owedTo)
                            \/ /\ r = b.to /\ r \notin owedTo'
                               /\ result'[r] = IF WantsResult(Op(r)) THEN b.says ELSE result[r]
  BY <1>1 DEF DispatchResult, DispatchInv, Typed, Unresolved
<1>3. Said(b.to, b.says) /\ b.says # "none" /\ Ran(b.to)
  <2>1. b = [to |-> b.to, says |-> b.says] /\ b \in outcomes
    BY <1>1 DEF DispatchInv, Typed, Outcomes, RepliesTrue
  <2> QED
    BY <1>1, <2>1 DEF Sayings, Values, Said, Ran
<1>4. Typed'
  BY <1>1, <1>2 DEF DispatchInv, Typed, IsAsked, Idle, Targets, Outcomes, Sayings, Values
<1>5. AllAsked'
  BY <1>1, <1>2 DEF DispatchInv, AllAsked, Idle
<1>6. RepliesTrue' /\ AnswersTrue'
  BY <1>1, <1>2 DEF DispatchInv, RepliesTrue, AnswersTrue, Said, Ran, Op, WantsResult
<1>7. ResultsTrue'
  <2> SUFFICES ASSUME NEW r \in Requests
               PROVE  request[r].stage = "parked" /\ r \notin owedTo' =>
                          IF WantsResult(Op(r)) THEN result'[r] # "none" /\ Said(r, result'[r])
                          ELSE Ran(r)
    BY <1>1 DEF ResultsTrue, Op, WantsResult, Said, Ran
  <2>1. CASE result'[r] = result[r] /\ (r \in owedTo' <=> r \in owedTo)
    BY <2>1 DEF DispatchInv, ResultsTrue
  <2>2. CASE r = b.to /\ result'[r] = IF WantsResult(Op(r)) THEN b.says ELSE result[r]
    BY <2>2, <1>3 DEF DispatchInv, ResultsTrue, WantsResult
  <2> QED
    BY <1>2, <2>1, <2>2
<1>8. Ordered'
  BY <1>1 DEF DispatchInv, Ordered, Ran, Idle
<1> QED
  BY <1>4, <1>5, <1>6, <1>7, <1>8 DEF DispatchInv

(* What a parked route whose marker is gone has to say.                    *)
LEMMA RouteSays ==
  ASSUME DispatchInv, NEW r \in Requests, request[r].stage = "parked", r \notin owedTo
  PROVE  /\ Says(r) # "none"
         /\ IF WantsResult(Op(r)) THEN Said(r, Says(r)) ELSE Says(r) = "queued" /\ Ran(r)
<1>1. Op(r) \in Ops
  BY IdleOrAsked DEF DispatchInv, IsAsked, Op, Idle
<1>2. CASE Op(r).kind = "flip"
  <2>1. Says(r) = "queued"
    BY <1>1, <1>2, KindOfOp DEF Says, ReleaseFlipAnswer
  <2> QED
    BY <1>2, <2>1 DEF DispatchInv, ResultsTrue, WantsResult
<1>3. CASE Op(r).kind # "flip"
  <2>1. Says(r) = result[r]
    BY <1>1, <1>3, KindOfOp DEF Says, ConsumeRootWrite, ScopedKvFinish, Ops
  <2> QED
    BY <1>3, <2>1 DEF DispatchInv, ResultsTrue, WantsResult
<1> QED
  BY <1>2, <1>3

(* A route that is woken answers with its result; one that expires does    *)
(* not answer.                                                             *)
LEMMA RouteStep ==
  ASSUME DispatchInv, NEW r \in Requests, Woken(r) \/ Expire(r)
  PROVE  DispatchInv'
<1>1. /\ request[r].stage = "parked" /\ UNCHANGED <<owedTo, runs, replies, target, outcomes>>
      /\ result' \in {result, [result EXCEPT ![r] = "none"]}
  BY DEF Woken, Expire
<1>2. IsAsked(request[r]) /\ request[r] # Idle
  BY <1>1, IdleOrAsked DEF DispatchInv, Idle
<1>3. PICK new :
        /\ request' = [request EXCEPT ![r] = new]
        /\ new.op = Op(r) /\ new.after = request[r].after
        /\ \/ new.stage = "dead"
           \/ new.stage = "answered" /\ new.says = Says(r) /\ r \notin owedTo
  <2>1. CASE Woken(r)
    <3> DEFINE new == [stage |-> "answered", op |-> Op(r), after |-> request[r].after,
                       says |-> Says(r)]
    <3>1. /\ new.op = Op(r) /\ new.after = request[r].after
          /\ new.stage = "answered" /\ new.says = Says(r)
      OBVIOUS
    <3>2. request' = [request EXCEPT ![r] = new] /\ r \notin owedTo
      BY <2>1 DEF Woken, Resolved
    <3> HIDE DEF new
    <3> QED
      BY <3>1, <3>2
  <2>2. CASE Expire(r)
    <3> DEFINE new == [request[r] EXCEPT !.stage = "dead"]
    <3>1. request' = [request EXCEPT ![r] = new]
      BY <2>2 DEF Expire
    <3>2. request[r] = [stage |-> "parked", op |-> Op(r), after |-> request[r].after]
      BY <1>1, <1>2 DEF IsAsked, Op
    <3>3. new.stage = "dead" /\ new.op = Op(r) /\ new.after = request[r].after
      BY <3>2
    <3> HIDE DEF new
    <3> QED
      BY <3>1, <3>3
  <2> QED
    BY <2>1, <2>2
<1>4. /\ request'[r] = new /\ request' = [q \in Requests |-> request'[q]]
      /\ \A q \in Requests : q # r => request'[q] = request[q]
  BY <1>3 DEF DispatchInv, Typed
<1>5. new # Idle /\ IsAsked(new) /\ new.stage \in {"answered", "dead"}
  BY <1>2, <1>3 DEF IsAsked, Op, Idle
<1>6. /\ result' = [q \in Requests |-> result'[q]]
      /\ \A q \in Requests : q # r => result'[q] = result[q]
      /\ result'[r] \in {result[r], "none"}
  BY <1>1 DEF DispatchInv, Typed
<1>7. Typed'
  <2>1. \A q \in Requests : request'[q] = Idle \/ IsAsked(request'[q])
    BY <1>4, <1>5 DEF DispatchInv, Typed
  <2> QED
    BY <1>1, <1>4, <1>6, <2>1 DEF DispatchInv, Typed, Targets, Outcomes, Sayings, Values, IsAsked, Idle
<1>8. AllAsked'
  BY <1>1, <1>4, <1>5 DEF DispatchInv, AllAsked, Idle
<1>9. \A q \in Requests : Op(q)' = Op(q)
  BY <1>3, <1>4 DEF Op
<1>10. RepliesTrue'
  BY <1>1, <1>9 DEF DispatchInv, RepliesTrue, Typed, Outcomes
<1>11. ResultsTrue'
  BY <1>1, <1>4, <1>5, <1>6, <1>9 DEF DispatchInv, ResultsTrue, Said, Ran, WantsResult
<1>12. AnswersTrue'
  <2>1. ASSUME r \notin owedTo
        PROVE  /\ Says(r) # "none"
               /\ IF WantsResult(Op(r)) THEN Said(r, Says(r)) ELSE Says(r) = "queued" /\ Ran(r)
    BY <1>1, <2>1, RouteSays
  <2> QED
    BY <1>1, <1>3, <1>4, <2>1 DEF DispatchInv, AnswersTrue, Said, Ran, Op, WantsResult
<1>13. Ordered'
  <2> SUFFICES ASSUME NEW q \in Requests, request'[q] # Idle, NEW a \in request'[q].after
               PROVE  /\ request'[a].stage = "answered" /\ a # q
                      /\ \A i, j \in 1 .. Len(runs) : runs[i] = a /\ runs[j] = q => i < j
                      /\ Ran(q) => \A i \in 1 .. Len(runs) : runs[i] # a
    BY <1>1 DEF Ordered, Ran, Idle
  <2>1. request[q] # Idle /\ a \in request[q].after
    BY <1>2, <1>3, <1>4
  <2>2. /\ request[a].stage = "answered" /\ a # q
        /\ \A i, j \in 1 .. Len(runs) : runs[i] = a /\ runs[j] = q => i < j
        /\ Ran(q) => \A i \in 1 .. Len(runs) : runs[i] # a
    BY <2>1 DEF DispatchInv, Ordered
  <2>3. a # r /\ a \in Requests
    BY <1>1, <2>1, <2>2, IdleOrAsked DEF DispatchInv, IsAsked
  <2> QED
    BY <1>4, <2>2, <2>3
<1> QED
  BY <1>7, <1>8, <1>10, <1>11, <1>12, <1>13 DEF DispatchInv

LEMMA DispatchKeeps == DispatchInv /\ [DispatchNext]_dispatchVars => DispatchInv'
<1> SUFFICES ASSUME DispatchInv, [DispatchNext]_dispatchVars PROVE DispatchInv'
  OBVIOUS
<1>1. CASE \E r \in Requests, op \in Ops : Ask(r, op)
  BY <1>1, AskStep
<1>2. CASE \E r \in Requests : \E w \in wakes[r] : DispatchFire(r, w)
  BY <1>2, FireStep
<1>3. CASE TargetRuns
  BY <1>3, TargetStep
<1>4. CASE \E b \in replies : DispatchResult(b)
  BY <1>4, ResultStep
<1>5. CASE \E r \in Requests : Woken(r) \/ Expire(r)
  BY <1>5, RouteStep
<1>6. CASE Lose
  BY <1>6, LoseStep
<1>7. CASE UNCHANGED dispatchVars
  BY <1>7, NothingMoved DEF dispatchVars
<1> QED
  BY <1>1, <1>2, <1>3, <1>4, <1>5, <1>6, <1>7 DEF DispatchNext, Engine

(* Every step is a step of the abstract calls, or none of theirs.          *)
LEMMA CallsStep ==
  ASSUME DispatchInv, [DispatchNext]_dispatchVars
  PROVE  [Calls!Next]_(Calls!vars)
<1>1. ASSUME NEW r \in Requests, NEW op \in Ops, Ask(r, op)
      PROVE  Calls!Next
  <2>1. Calls!Begin(r, op)
    BY <1>1 DEF Ask, Calls!Begin, Idle
  <2> QED
    BY <2>1 DEF Calls!Next
<1>2. CASE \E r \in Requests : \E w \in wakes[r] : DispatchFire(r, w)
  BY <1>2 DEF DispatchFire, Calls!vars
<1>3. CASE TargetRuns
  <2>1. PICK r \in Requests :
          /\ r = runs[1] /\ 1 \in 1 .. Len(runs)
          /\ RootKvInstall(r) \/ ReleaseFlip(r) \/ ScopeKv(r)
    BY <1>3, TailOf DEF TargetRuns, DispatchInv, Typed
  <2>2. request[r] # Idle /\ request[r].stage # "idle"
    BY <2>1, IdleOrAsked DEF DispatchInv, AllAsked
  <2>3. /\ target' = Calls!Effect(request[r].op, target)
        /\ outcomes' = outcomes \cup {[to |-> r, says |-> Calls!Outcome(request[r].op, target)]}
        /\ UNCHANGED request
    BY <1>3, <2>1, <2>2, TargetDoes DEF DispatchInv, Reply, Op, TargetRuns
  <2>4. ASSUME NEW q \in Requests, Calls!TookEffect(q)
        PROVE  r \notin request[q].after
    <3>1. Ran(q) /\ request[q] # Idle
      BY <2>4 DEF Calls!TookEffect, Ran, DispatchInv, AllAsked
    <3> QED
      BY <2>1, <3>1 DEF DispatchInv, Ordered
  <2>5. Calls!TakeEffect(r)
    BY <2>2, <2>3, <2>4 DEF Calls!TakeEffect
  <2> QED
    BY <2>5 DEF Calls!Next
<1>4. CASE \E b \in replies : DispatchResult(b)
  BY <1>4 DEF DispatchResult, Calls!vars
<1>5. ASSUME NEW r \in Requests, Woken(r)
      PROVE  Calls!Next
  <2>1. /\ Says(r) # "none"
        /\ IF WantsResult(Op(r)) THEN Said(r, Says(r)) ELSE Says(r) = "queued" /\ Ran(r)
    BY <1>5, RouteSays DEF Woken, Resolved
  <2>2. \E o \in outcomes : o.to = r /\ Says(r) = Calls!Told(Op(r), o.says)
    <3>1. CASE WantsResult(Op(r))
      BY <2>1, <3>1 DEF WantsResult, Said, Calls!Told
    <3>2. CASE ~WantsResult(Op(r))
      BY <2>1, <3>2 DEF WantsResult, Ran, Calls!Told
    <3> QED
      BY <3>1, <3>2
  <2>3. Calls!Answer(r)
    BY <1>5, <2>2 DEF Woken, Op, Calls!Answer
  <2> QED
    BY <2>3 DEF Calls!Next
<1>6. ASSUME NEW r \in Requests, Expire(r)
      PROVE  Calls!Next
  <2>1. Calls!GiveUp(r)
    BY <1>6 DEF Expire, Calls!GiveUp
  <2> QED
    BY <2>1 DEF Calls!Next
<1>7. CASE Lose
  BY <1>7 DEF Lose, Calls!vars
<1>8. CASE UNCHANGED dispatchVars
  BY <1>8 DEF dispatchVars, Calls!vars
<1> QED
  BY <1>1, <1>2, <1>3, <1>4, <1>5, <1>6, <1>7, <1>8 DEF DispatchNext, Engine

(* Whatever is lost or repeated, dispatches keep the promises of the       *)
(* abstract calls: each answer is what an activation of its own request    *)
(* did or read at one moment, and none is repeated behind a later call.    *)
THEOREM CallsAreImplemented == DispatchSpec => CallsSpec
<1>1. DispatchInit => Calls!Init
  BY DEF DispatchInit, Calls!Init, Idle
<1>2. DispatchInv /\ [DispatchNext]_dispatchVars => [Calls!Next]_(Calls!vars)
  BY CallsStep
<1> QED
  BY <1>1, <1>2, DispatchStart, DispatchKeeps, PTL DEF DispatchSpec, CallsSpec, Calls!Spec

(* So a route that answers has a result, a write it reports was applied,   *)
(* and no repetition of it is left that could undo a write that was asked  *)
(* for afterwards.                                                         *)
THEOREM AnswersAlwaysHold == DispatchSpec => []AnswersHold
<1>1. DispatchInv => AnswersHold
  <2>0. ASSUME DispatchInv, NEW r \in Requests, request[r].stage = "answered"
        PROVE  /\ request[r].says # "none"
               /\ \E b \in outcomes : b.to = r /\ (request[r].says = b.says \/ request[r].says = "queued")
               /\ request[r].says = "queued" => Op(r) \in Flips
    <3>1. Op(r) \in Ops
      BY <2>0, IdleOrAsked DEF DispatchInv, IsAsked, Op, Idle
    <3>2. CASE WantsResult(Op(r))
      <4>1. [to |-> r, says |-> request[r].says] \in outcomes /\ request[r].says # "none"
        BY <2>0, <3>2 DEF DispatchInv, AnswersTrue, Said
      <4>2. [to |-> r, says |-> request[r].says] \in Outcomes
        BY <2>0, <4>1 DEF DispatchInv, Typed
      <4>3. request[r].says \in Sayings
        BY <4>2 DEF Outcomes
      <4>4. request[r].says # "queued"
        BY <4>3 DEF Sayings, Values
      <4> QED
        BY <4>1, <4>4
    <3>3. CASE ~WantsResult(Op(r))
      BY <2>0, <3>1, <3>3, KindOfOp DEF DispatchInv, AnswersTrue, Ran, WantsResult
    <3> QED
      BY <3>2, <3>3
  <2> SUFFICES ASSUME DispatchInv, NEW r \in Requests, request[r].stage = "answered",
                      NEW b \in outcomes, r \in request[b.to].after
               PROVE  r \notin Range(runs)
    BY <2>0 DEF AnswersHold
  <2>1. b.to \in Requests /\ request[b.to] # Idle /\ Ran(b.to)
    BY DEF DispatchInv, Typed, AllAsked, Outcomes, Ran
  <2>2. \A i \in 1 .. Len(runs) : runs[i] # r
    BY <2>1 DEF DispatchInv, Ordered
  <2>3. DOMAIN runs = 1 .. Len(runs)
    BY DEF DispatchInv, Typed
  <2> QED
    BY <2>2, <2>3 DEF Range
<1> QED
  BY <1>1, DispatchStart, DispatchKeeps, PTL DEF DispatchSpec
=============================================================================
