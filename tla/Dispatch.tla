------------------------------ MODULE Dispatch ------------------------------
(***************************************************************************)
(* Work of the dashboard in another tenant's scope: platform.dispatch, the *)
(* baked modules dispatch_fire and dispatch_result on the dashboard's      *)
(* side, release_flip, scope_kv, root_query and root_kv_install on the     *)
(* target's, and the routes that park on the marker of what they asked     *)
(* (admin/index.mjs, createInstance to onReleaseFlipDone).  One request    *)
(* makes one dispatch.  Wakes are those of module Sends: an armed wake     *)
(* fires, at least once.                                                   *)
(***************************************************************************)
EXTENDS Integers, Sequences, FiniteSets, SequencesExt

CONSTANTS
    Requests,           \* requests of the dashboard's routes
    Deployments,        \* what a release may name
    Unfit,              \* those the target's modules refuse: a dep_hex of 0,
                        \* a row whose key is no string
    Long,               \* rows beyond the cap of an answer
    Nothing,            \* no row
    MaxRuns,            \* bound: activations of one dispatch under way
    MaxLosses           \* bound: activations and answers that are lost

(* A row of the target is no outcome.                                      *)
ASSUME DispatchAssumption ==
    /\ {"none", "wrote", "refused", "overflow", "queued"} \cap (Deployments \cup {Nothing}) = {}
    /\ Unfit \subseteq Deployments /\ Long \subseteq Deployments /\ Nothing \notin Deployments

(* What the routes ask for: createInstance and assignDomain; kvRead and    *)
(* kvSet; publishRelease.                                                  *)
Creates == [kind : {"create"}, value : {Nothing}]
Assigns == [kind : {"assign"}, value : {Nothing}]
ScopedOps == [kind : {"get"}, value : {Nothing}] \cup [kind : {"set"}, value : Deployments]
Flips == [kind : {"flip"}, value : Deployments]
Ops == Creates \cup Assigns \cup ScopedOps \cup Flips

Idle == [stage |-> "idle"]

VARIABLES
    request,    \* a request's route: idle, parked, answered or dead
    owedTo,     \* the requests with a _dispatch/owed/{id} row
    result,     \* _dispatch/result/{id}
    wakes,      \* armed: the first fire, and the watchdog under another key
    runs,       \* activations on their way to the target, in order
    replies,    \* outcomes on their way back
    target,     \* rows of the target
    outcomes,   \* history: what every activation that ran has said
    losses

dispatchVars == <<request, owedTo, result, wakes, runs, replies, target, outcomes, losses>>

Op(r) == request[r].op

(* release_flip is asked for without a result row.                         *)
WantsResult(op) == op.kind # "flip"

-----------------------------------------------------------------------------
(* platform.dispatch, from a route that parks on the marker.               *)
Ask(r, op) ==
    /\ request[r] = Idle
    /\ request' = [request EXCEPT ![r] = [stage |-> "parked", op |-> op,
                       after |-> {q \in Requests : request[q].stage = "answered"}]]
    /\ owedTo' = owedTo \cup {r}
    /\ wakes' = [wakes EXCEPT ![r] = {"first"}]
    /\ UNCHANGED <<result, runs, replies, target, outcomes, losses>>

UnderWay(r) == Cardinality({i \in DOMAIN runs : runs[i] = r})
               + Cardinality({b \in replies : b.to = r})

(* dispatch_fire: re-armed before it dispatches.                           *)
FiresOnce(r, w) == wakes[r] \ {w}       \* mutant: no watchdog
Rearmed(r, w) == (wakes[r] \ {w}) \cup {"watchdog"}

DispatchFire(r, w) ==
    /\ w \in wakes[r]
    /\ IF r \in owedTo
       THEN /\ UnderWay(r) < MaxRuns
            /\ wakes' = [wakes EXCEPT ![r] = Rearmed(r, w)]
            /\ runs' = Append(runs, r)
       ELSE /\ wakes' = [wakes EXCEPT ![r] = @ \ {w}]
            /\ UNCHANGED runs
    /\ UNCHANGED <<request, owedTo, result, replies, target, outcomes, losses>>

-----------------------------------------------------------------------------
(* The target's side: an activation that reads, or validates and writes.   *)

Reply(r, says) ==
    /\ replies' = replies \cup {[to |-> r, says |-> says]}
    /\ outcomes' = outcomes \cup {[to |-> r, says |-> says]}

(* root_kv_install: a required row that is gone refuses all of it.         *)
RootKvInstall(r) ==
    \/ /\ Op(r).kind = "create"
       /\ target' = [target EXCEPT !.instance = TRUE]
       /\ Reply(r, "wrote")
    \/ /\ Op(r).kind = "assign" /\ target.instance
       /\ target' = [target EXCEPT !.domain = TRUE]
       /\ Reply(r, "wrote")
    \/ /\ Op(r).kind = "assign" /\ ~target.instance
       /\ UNCHANGED target
       /\ Reply(r, "refused")

(* What a module refuses it refuses before it writes: status 400.          *)
Fit(r) == Op(r).value \notin Unfit

(* release_flip: the live pointer and its history; the same deployment     *)
(* again writes nothing.                                                   *)
ReleaseFlip(r) ==
    /\ Op(r).kind = "flip"
    /\ \/ Fit(r) /\ target' = [target EXCEPT !.release = Op(r).value] /\ Reply(r, "wrote")
       \/ ~Fit(r) /\ UNCHANGED target /\ Reply(r, "refused")

(* scope_kv and root_query; an answer beyond the engine's cap is cut off.  *)
Carried(row) == IF row \in Long THEN "overflow" ELSE row

ScopeKv(r) ==
    \/ /\ Op(r).kind = "set" /\ Fit(r)
       /\ target' = [target EXCEPT !.value = Op(r).value]
       /\ Reply(r, "wrote")
    \/ /\ Op(r).kind = "set" /\ ~Fit(r)
       /\ UNCHANGED target
       /\ Reply(r, "refused")
    \/ /\ Op(r).kind = "get"
       /\ UNCHANGED target
       /\ Reply(r, Carried(target.value))

(* Activations of one target run in the order they arrived.                *)
TargetRuns ==
    /\ runs # <<>>
    /\ runs' = Tail(runs)
    /\ LET r == Head(runs) IN RootKvInstall(r) \/ ReleaseFlip(r) \/ ScopeKv(r)
    /\ UNCHANGED <<request, owedTo, result, wakes, losses>>

(* The node the activations landed on does not lead the target's group:    *)
(* what waits there is gone.  An answer may be lost on its way.            *)
Lose ==
    /\ losses < MaxLosses
    /\ losses' = losses + 1
    /\ \/ runs # <<>> /\ runs' = <<>> /\ UNCHANGED replies
       \/ \E b \in replies : replies' = replies \ {b} /\ UNCHANGED runs
    /\ UNCHANGED <<request, owedTo, result, wakes, target, outcomes>>

-----------------------------------------------------------------------------
(* dispatch_result: the first answer resolves, later ones do nothing.      *)
Unresolved(r) == r \in owedTo

DispatchResult(b) ==
    /\ b \in replies
    /\ replies' = replies \ {b}
    /\ IF Unresolved(b.to)
       THEN /\ result' = IF WantsResult(Op(b.to)) THEN [result EXCEPT ![b.to] = b.says]
                         ELSE result
            /\ owedTo' = owedTo \ {b.to}
            /\ wakes' = [wakes EXCEPT ![b.to] = @ \ {"watchdog"}]
       ELSE UNCHANGED <<result, owedTo, wakes>>
    /\ UNCHANGED <<request, runs, target, outcomes, losses>>

(* onCreateInstanceDone, onAssignDomainDone, onScopedKv, onReleaseFlipDone:*)
(* a parked route is woken by any write near its marker, and parks again   *)
(* while the marker stands; then it takes the result and deletes it.  A    *)
(* refused or cut off one is a 502.  A release has no result to read: its  *)
(* 202 says that the flip has run, also when the target refused it.        *)
TrustsTheWake(r) == TRUE        \* mutant: the first wake answers
Resolved(r) == r \notin owedTo

ConsumeRootWrite(r) == result[r]
ScopedKvFinish(r) == result[r]
ReleaseFlipAnswer == "queued"
Says(r) ==
    CASE Op(r) \in Creates \cup Assigns -> ConsumeRootWrite(r)
      [] Op(r) \in ScopedOps -> ScopedKvFinish(r)
      [] Op(r) \in Flips -> ReleaseFlipAnswer

Woken(r) ==
    /\ request[r].stage = "parked" /\ Resolved(r)
    /\ request' = [request EXCEPT ![r] =
          [stage |-> "answered", op |-> Op(r), after |-> request[r].after, says |-> Says(r)]]
    /\ result' = [result EXCEPT ![r] = "none"]
    /\ UNCHANGED <<owedTo, wakes, runs, replies, target, outcomes, losses>>

(* The held connection reaches its deadline or drops.                      *)
Expire(r) ==
    /\ request[r].stage = "parked"
    /\ request' = [request EXCEPT ![r].stage = "dead"]
    /\ UNCHANGED <<owedTo, result, wakes, runs, replies, target, outcomes, losses>>

DispatchInit ==
    /\ request = [r \in Requests |-> Idle]
    /\ owedTo = {} /\ result = [r \in Requests |-> "none"]
    /\ wakes = [r \in Requests |-> {}]
    /\ runs = <<>> /\ replies = {}
    /\ target = [instance |-> FALSE, domain |-> FALSE, value |-> Nothing, release |-> Nothing]
    /\ outcomes = {} /\ losses = 0

Engine ==
    \/ TargetRuns
    \/ \E b \in replies : DispatchResult(b)
    \/ \E r \in Requests : Woken(r)

DispatchNext ==
    \/ \E r \in Requests, op \in Ops : Ask(r, op)
    \/ \E r \in Requests : Expire(r) \/ \E w \in wakes[r] : DispatchFire(r, w)
    \/ Engine \/ Lose

DispatchFairness ==
    /\ WF_dispatchVars(TargetRuns)
    /\ \A r \in Requests : /\ WF_dispatchVars(\E w \in wakes[r] : DispatchFire(r, w))
                           /\ WF_dispatchVars(\E b \in replies : b.to = r /\ DispatchResult(b))
                           /\ WF_dispatchVars(Woken(r))

DispatchSpec == DispatchInit /\ [][DispatchNext]_dispatchVars /\ DispatchFairness

-----------------------------------------------------------------------------
(* Whatever is lost or repeated, a dispatch keeps the promises of module   *)
(* RemoteCalls: a route answers with what an activation of its own request *)
(* did or read, and once a call that was made after the answer took effect *)
(* no repetition of the first is run, which would undo it.                 *)
Calls == INSTANCE RemoteCalls WITH call <- request, store <- target

CallsSpec == Calls!Spec

(* What follows for the caller: it is told something, a write it is told   *)
(* was done was done, the flip it is told was queued has run, and what is  *)
(* left of its own dispatch cannot undo what it asked for next.            *)
AnswersHold ==
    \A r \in Requests : request[r].stage = "answered" =>
        /\ request[r].says # "none"
        /\ \E b \in outcomes : b.to = r /\ (request[r].says = b.says \/ request[r].says = "queued")
        /\ request[r].says = "queued" => Op(r) \in Flips
        /\ \A b \in outcomes : r \in request[b.to].after => r \notin Range(runs)

(* "a client that publishes and immediately lists deployments must see it  *)
(* live" (publishRelease, which waits for that on the marker): an answered *)
(* release was carried out.  Not so for a dep_id of 0: the route's test    *)
(* admits it, the target refuses it, and the answer is the same 202.       *)
ReleasedWhenAnswered ==
    \A r \in Requests : request[r].stage = "answered" /\ Op(r) \in Flips =>
        [to |-> r, says |-> "wrote"] \in outcomes

(* A route that keeps waiting is answered.                                 *)
Answered(r) == request[r].stage = "parked" ~> request[r].stage \in {"answered", "dead"}
ParkedIsAnswered == \A r \in Requests : Answered(r)
=============================================================================
