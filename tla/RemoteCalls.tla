---------------------------- MODULE RemoteCalls ----------------------------
(***************************************************************************)
(* What a dispatch into another tenant's scope promises, without saying    *)
(* how: a call takes effect in one step on the tenant's store, once or     *)
(* more often; its answer, if there is one, is what one of those times     *)
(* said; and it is over for good once a call made after its answer has     *)
(* taken effect.  Dispatch implements it (admin/index.mjs, createInstance  *)
(* to onReleaseFlipDone).                                                  *)
(***************************************************************************)
CONSTANTS
    Requests,       \* who may call
    Ops,            \* what may be asked for: a kind and a value
    Unfit,          \* values that are refused
    Long,           \* rows too long for an answer
    Nothing         \* no row

VARIABLES
    call,           \* a call: idle, parked, answered or dead
    store,          \* the rows of the tenant
    outcomes        \* what every time a call took effect said

vars == <<call, store, outcomes>>

Init ==
    /\ call = [r \in Requests |-> [stage |-> "idle"]]
    /\ store = [instance |-> FALSE, domain |-> FALSE, value |-> Nothing, release |-> Nothing]
    /\ outcomes = {}

(* A domain is assigned to an instance that is there, and what is written  *)
(* has to be fit.                                                          *)
Refuses(op, s) ==
    \/ op.kind = "assign" /\ ~s.instance
    \/ op.kind \in {"set", "flip"} /\ op.value \in Unfit

Effect(op, s) ==
    IF Refuses(op, s) THEN s
    ELSE [instance |-> s.instance \/ op.kind = "create",
          domain   |-> s.domain \/ op.kind = "assign",
          value    |-> IF op.kind = "set" THEN op.value ELSE s.value,
          release  |-> IF op.kind = "flip" THEN op.value ELSE s.release]

(* A read says the row, or that it is too long.                            *)
Outcome(op, s) ==
    CASE Refuses(op, s) -> "refused"
      [] op.kind = "get" -> IF s.value \in Long THEN "overflow" ELSE s.value
      [] ~Refuses(op, s) /\ op.kind # "get" -> "wrote"

(* What the caller is told of it: of a flip, only that it has run.         *)
Told(op, says) == IF op.kind = "flip" THEN "queued" ELSE says

TookEffect(r) == \E o \in outcomes : o.to = r

(* A call is made after those whose answer its caller may know.            *)
Begin(r, op) ==
    /\ call[r].stage = "idle"
    /\ call' = [call EXCEPT ![r] = [stage |-> "parked", op |-> op,
                    after |-> {q \in Requests : call[q].stage = "answered"}]]
    /\ UNCHANGED <<store, outcomes>>

(* Also when its caller is gone, or again when it is answered: but never   *)
(* behind a call that was made after the answer.                           *)
TakeEffect(r) ==
    /\ call[r].stage # "idle"
    /\ \A q \in Requests : TookEffect(q) => r \notin call[q].after
    /\ store' = Effect(call[r].op, store)
    /\ outcomes' = outcomes \cup {[to |-> r, says |-> Outcome(call[r].op, store)]}
    /\ UNCHANGED call

Answer(r) ==
    /\ call[r].stage = "parked"
    /\ \E o \in outcomes :
         /\ o.to = r
         /\ call' = [call EXCEPT ![r] = [stage |-> "answered", op |-> call[r].op,
                         after |-> call[r].after, says |-> Told(call[r].op, o.says)]]
    /\ UNCHANGED <<store, outcomes>>

GiveUp(r) ==
    /\ call[r].stage = "parked"
    /\ call' = [call EXCEPT ![r].stage = "dead"]
    /\ UNCHANGED <<store, outcomes>>

Next ==
    \E r \in Requests :
        (\E op \in Ops : Begin(r, op)) \/ TakeEffect(r) \/ Answer(r) \/ GiveUp(r)

Spec == Init /\ [][Next]_vars
=============================================================================
