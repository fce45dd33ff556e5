------------------------------- MODULE Sends -------------------------------
(***************************************************************************)
(* Durable wakes and durable sends of one tenant: the scheduler core and   *)
(* webhook.send of the runtime prelude, and the baked modules              *)
(* scheduler_tick, webhook_fire and webhook_onresult, with the engine's    *)
(* fetches, its single watermark, crashes and changes of build around      *)
(* them.  Times are distances from now: what is due is at 0, and a step    *)
(* of the clock brings everything one nearer.  A handler is one action,    *)
(* because its writes commit together.                                     *)
(***************************************************************************)
EXTENDS Integers, Sequences, FiniteSets, SequencesExt, FiniteSetsExt

CONSTANTS
    Sends,              \* ids of sends (a key, hashed)
    Timers,             \* ids of a customer's own wakes
    Refused,            \* the timers whose target the engine refuses to wake
    Builds,             \* record versions; a build reads its own only
    Watchdog,           \* WEBHOOK_WATCHDOG_MS, WATCHDOG_MS
    AttemptTimeout,     \* the fetch binding's cap on one attempt
    BackoffCap,         \* BACKOFF_CAP_MS
    BackoffUnit,        \* a clock step in seconds
    MaxAttempts,        \* max_attempts of a send
    MaxFires,           \* MAX_FIRES_PER_TICK
    MaxOutstanding,     \* SCHED_MAX_OUTSTANDING
    Delays,             \* fire times a caller may ask for
    MaxSends,           \* bound: webhook.send calls of one id
    MaxCrashes          \* bound: crashes and changes of leader

None == [v |-> 0]       \* a row that is not there

(* No build writes the version that stands for no row.                     *)
ASSUME BuildsAssumption == 0 \notin Builds

(* The keys under which one send arms wakes: webhook.send and webhook_fire *)
(* use the first, webhook_onresult the second.                             *)
FireKey(s) == <<"_send/", s>>
RetryKey(s) == <<"_user/_send/", s>>
TimerKey(t) == <<"timer", t>>

WakeIds == {FireKey(s) : s \in Sends} \cup {RetryKey(s) : s \in Sends}
           \cup {TimerKey(t) : t \in Timers}

VARIABLES
    byId,       \* _sched/by_id/{id}
    byTime,     \* _sched/by_time/{when}/{id}: pairs
    watermark,  \* the engine's next wake of the tenant, -1 for none
    fanned,     \* fired entries whose activation has not run
    owed,       \* _send/owed/{id}
    flight,     \* attempts not answered: how long each may still take
    build,      \* the record version the leader writes
    sendCalls, crashes  \* history: calls of send, crashes

sendsVars == <<byId, byTime, watermark, fanned, owed, flight, build, sendCalls, crashes>>

-----------------------------------------------------------------------------
(* The scheduler core.  A state of the two kinds of rows and the watermark *)
(* is a record, so that a handler can arm more than once.                  *)

Rows == [byId |-> byId, byTime |-> byTime, watermark |-> watermark]

Become(rows) ==
    /\ byId' = rows.byId
    /\ byTime' = rows.byTime
    /\ watermark' = rows.watermark

(* The engine wakes the tenant for the earliest row committed.             *)
Nearer(mark, when) == IF mark = -1 \/ when < mark THEN when ELSE mark

Placed(rows, id, when, index) ==
    [byId |-> [rows.byId EXCEPT ![id] = [v |-> build, when |-> when]],
     byTime |-> index \cup {<<when, id>>},
     watermark |-> Nearer(rows.watermark, when)]

(* _arm: the index row of the time before is dropped, whoever wrote it.    *)
ArmWake(rows, id, when) ==
    Placed(rows, id, when,
           IF rows.byId[id] = None THEN rows.byTime
           ELSE rows.byTime \ {<<rows.byId[id].when, id>>})

(* schedArm of the baked modules: only if this build can read it.          *)
SchedArm(rows, id, when) ==
    Placed(rows, id, when,
           IF rows.byId[id].v # build THEN rows.byTime
           ELSE rows.byTime \ {<<rows.byId[id].when, id>>})

(* cancel and schedCancel.                                                 *)
Cancel(rows, id) ==
    [rows EXCEPT !.byId[id] = None,
                 !.byTime = IF rows.byId[id].v # build THEN @
                            ELSE @ \ {<<rows.byId[id].when, id>>}]

(* _enforceOutstandingCap: only a wake that is new is counted.             *)
Outstanding == {id \in WakeIds : byId[id] # None}
HasRoom(id) == byId[id] # None \/ Cardinality(Outstanding) < MaxOutstanding

-----------------------------------------------------------------------------
(* webhook.send.  A send for now is fetched at once and watched; a send    *)
(* for later is only armed.  If the tenant is out of its outbound quota or *)
(* at the cap of wakes the call throws, and nothing is written.            *)

Send(s, in) ==
    /\ sendCalls[s] < MaxSends
    /\ HasRoom(FireKey(s))
    /\ sendCalls' = [sendCalls EXCEPT ![s] = @ + 1]
    /\ owed' = [owed EXCEPT ![s] = [v |-> build, attempts |-> 0]]
    /\ IF in > 0
       THEN /\ Become(ArmWake(Rows, FireKey(s), in))
            /\ UNCHANGED flight
       ELSE /\ Become(ArmWake(Rows, FireKey(s), Watchdog))
            /\ flight' = [flight EXCEPT ![s] = Append(@, AttemptTimeout)]
    /\ UNCHANGED <<fanned, build, crashes>>

(* What the documentation of send tells a customer to do to take a send    *)
(* back: the wake it cancels is named by another id, so only the marker    *)
(* goes.                                                                   *)
TakeBack(s) ==
    /\ owed[s] # None
    /\ owed' = [owed EXCEPT ![s] = None]
    /\ UNCHANGED <<byId, byTime, watermark, fanned, flight, build, sendCalls, crashes>>

(* schedule and schedule.cancel of a customer, under a key.                *)
Schedule(t, in) ==
    /\ HasRoom(TimerKey(t))
    /\ Become(ArmWake(Rows, TimerKey(t), in))
    /\ UNCHANGED <<fanned, owed, flight, build, sendCalls, crashes>>

Unschedule(t) ==
    /\ byId[TimerKey(t)] # None
    /\ Become(Cancel(Rows, TimerKey(t)))
    /\ UNCHANGED <<fanned, owed, flight, build, sendCalls, crashes>>

-----------------------------------------------------------------------------
(* scheduler_tick.  It reads a page from the front of the index, one row   *)
(* longer than it may fire, and stops at the first row of the future.      *)

Page == {p \in SUBSET byTime :
            /\ Cardinality(p) = Min({MaxFires + 1, Cardinality(byTime)})
            /\ \A e \in p, f \in byTime \ p : e[1] <= f[1]}

Orphan(e) == byId[e[2]] = None
Deferred(e) == ~Orphan(e) /\ byId[e[2]].v # build
Unwakeable(e) == ~Orphan(e) /\ ~Deferred(e) /\ e[2] \in {TimerKey(t) : t \in Refused}

(* The watermark stays at now until a tick finds nothing of what it fired. *)
AdvanceAtOnce(page, fired, deferred) ==     \* mutant: to the future, at once
    LET future == {e[1] : e \in {f \in page : f[1] > 0}} IN
    IF future = {} THEN -1 ELSE Min(future)
NextWatermark(page, fired, deferred) ==
    LET future == {e[1] : e \in {f \in page : f[1] > 0}} IN
    IF fired # {} \/ deferred # {} THEN 0
    ELSE IF future = {} THEN -1 ELSE Min(future)

(* The activations fired by a tick have run, or were lost, before the      *)
(* engine sweeps again.                                                    *)
SchedulerTick ==
    /\ watermark = 0 /\ fanned = {}
    /\ \E page \in Page :
         LET due == {e \in page : e[1] = 0}
             orphans == {e \in due : Orphan(e)}
             refused == {e \in due : Unwakeable(e)}
             deferred == {e \in due : Deferred(e)}
             live == due \ (orphans \cup refused \cup deferred)
         IN \E fired \in {f \in SUBSET live :
                            Cardinality(f) = Min({MaxFires, Cardinality(live)})} :
              /\ fanned' = fired
              /\ byTime' = byTime \ (orphans \cup refused)
              /\ byId' = [id \in WakeIds |->
                            IF id \in {e[2] : e \in refused} THEN None ELSE byId[id]]
              /\ watermark' = NextWatermark(page, fired, deferred)
    /\ UNCHANGED <<owed, flight, build, sendCalls, crashes>>

(* The two rows of a fired entry are deleted in the writes of its target.  *)
Consumed(e) == [Rows EXCEPT !.byId[e[2]] = None, !.byTime = @ \ {e}]

(* webhook_fire.  A marker that is gone ends the chain; one of another     *)
(* build is only watched on.                                               *)
NoWatch(rows, s) == rows        \* mutant: the attempt is not watched
Watch(rows, s) == SchedArm(rows, FireKey(s), Watchdog)

Uncounted(marker) == marker     \* mutant: a refusal costs no attempt
Counted(marker) == [marker EXCEPT !.attempts = @ + 1]

WebhookFire(e, s) ==
    /\ e \in fanned /\ e[2] \in {FireKey(s), RetryKey(s)}
    /\ fanned' = fanned \ {e}
    /\ \/ /\ owed[s] = None
          /\ Become(Consumed(e))
          /\ UNCHANGED <<owed, flight>>
       \/ /\ owed[s] # None /\ owed[s].v # build
          /\ Become(Watch(Consumed(e), s))
          /\ UNCHANGED <<owed, flight>>
       \/ /\ owed[s].v = build                      \* the attempt goes out
          /\ Become(Watch(Consumed(e), s))
          /\ flight' = [flight EXCEPT ![s] = Append(@, AttemptTimeout)]
          /\ UNCHANGED owed
       \/ /\ owed[s].v = build                      \* or is refused
          /\ owed[s].attempts + 1 < MaxAttempts
          /\ Become(Watch(Consumed(e), s))
          /\ owed' = [owed EXCEPT ![s] = Counted(@)]
          /\ UNCHANGED flight
       \/ /\ owed[s].v = build                      \* for good
          /\ Become(Cancel(Watch(Consumed(e), s), FireKey(s)))
          /\ owed' = [owed EXCEPT ![s] = None]
          /\ UNCHANGED flight
    /\ UNCHANGED <<build, sendCalls, crashes>>

(* The target of a customer's wake commits, or throws and keeps the entry. *)
TimerFires(e, t) ==
    /\ e \in fanned /\ e[2] = TimerKey(t)
    /\ fanned' = fanned \ {e}
    /\ \/ Become(Consumed(e))
       \/ UNCHANGED <<byId, byTime, watermark>>
    /\ UNCHANGED <<owed, flight, build, sendCalls, crashes>>

-----------------------------------------------------------------------------
(* webhook_onresult: the final answer to one attempt.                      *)

Backoff(attempts) == Min({BackoffCap, (2 ^ attempts) \div BackoffUnit})

(* Fire times lie ahead, and a tick fires something.                       *)
ASSUME TimesAssumption ==
    /\ Watchdog \in Nat /\ Delays \subseteq Nat /\ MaxAttempts \in Nat
    /\ \A attempts \in 1 .. MaxAttempts : Backoff(attempts) \in Nat
    /\ MaxFires \in Nat \ {0}

Retries(s, answer) == answer = "unreachable or 5xx" /\ owed[s].attempts + 1 < MaxAttempts

WebhookOnResult(s, answer) ==
    \E i \in DOMAIN flight[s] :
      /\ flight' = [flight EXCEPT ![s] = RemoveAt(@, i)]
      /\ \/ /\ owed[s].v # build        \* gone: 404; of another build: it throws
            /\ UNCHANGED <<byId, byTime, watermark, owed>>
         \/ /\ owed[s].v = build /\ Retries(s, answer)
            /\ owed' = [owed EXCEPT ![s] = Counted(@)]
            /\ Become(SchedArm(Rows, RetryKey(s), Backoff(owed[s].attempts + 1)))
         \/ /\ owed[s].v = build /\ ~Retries(s, answer)
            /\ owed' = [owed EXCEPT ![s] = None]
            /\ Become(Cancel(Rows, RetryKey(s)))
      /\ UNCHANGED <<fanned, build, sendCalls, crashes>>

-----------------------------------------------------------------------------
(* The clock does not pass the moment an attempt times out.                *)
Nearing(n) == IF n > 0 THEN n - 1 ELSE n

ClockStep ==
    /\ \A s \in Sends : \A i \in DOMAIN flight[s] : flight[s][i] > 0
    /\ flight' = [s \in Sends |-> [i \in DOMAIN flight[s] |-> flight[s][i] - 1]]
    /\ byId' = [id \in WakeIds |->
                  IF byId[id] = None THEN None ELSE [byId[id] EXCEPT !.when = Nearing(@)]]
    /\ byTime' = {<<Nearing(e[1]), e[2]>> : e \in byTime}
    /\ watermark' = Nearing(watermark)
    /\ UNCHANGED <<fanned, owed, build, sendCalls, crashes>>

(* Another node leads, perhaps with another build: what was in the memory  *)
(* of the first is gone, and the tick runs once to find its watermark.     *)
Crash ==
    /\ crashes < MaxCrashes
    /\ crashes' = crashes + 1
    /\ flight' = [s \in Sends |-> <<>>]
    /\ fanned' = {}
    /\ watermark' = 0
    /\ build' \in Builds
    /\ UNCHANGED <<byId, byTime, owed, sendCalls>>

SendsInit ==
    /\ byId = [id \in WakeIds |-> None]
    /\ byTime = {} /\ watermark = -1 /\ fanned = {}
    /\ owed = [s \in Sends |-> None]
    /\ flight = [s \in Sends |-> <<>>]
    /\ build \in Builds
    /\ sendCalls = [s \in Sends |-> 0] /\ crashes = 0

Answers == {"ok", "4xx", "unreachable or 5xx"}

Fires == \E e \in fanned : \/ \E s \in Sends : WebhookFire(e, s)
                           \/ \E t \in Timers : TimerFires(e, t)
AttemptAnswered == \E s \in Sends, answer \in Answers : WebhookOnResult(s, answer)

SendsNext ==
    \/ \E s \in Sends : TakeBack(s) \/ \E in \in Delays : Send(s, in)
    \/ \E t \in Timers : Unschedule(t) \/ \E in \in Delays : Schedule(t, in)
    \/ SchedulerTick \/ Fires \/ AttemptAnswered \/ ClockStep \/ Crash

(* The engine sweeps, runs what it fired and answers every attempt, with   *)
(* a timeout if need be; nobody has to call anything.                      *)
SendsFairness ==
    /\ WF_sendsVars(SchedulerTick) /\ WF_sendsVars(Fires)
    /\ WF_sendsVars(AttemptAnswered) /\ WF_sendsVars(ClockStep)

SendsSpec == SendsInit /\ [][SendsNext]_sendsVars
SendsFairSpec == SendsSpec /\ SendsFairness

-----------------------------------------------------------------------------
Armed(id) == byId[id] # None /\ <<byId[id].when, id>> \in byTime

(* At every moment, whatever is lost in a crash, a send that is owed has a *)
(* readable or deferred wake and its index row, so that somebody comes     *)
(* back to it.                                                             *)
OwedIsWatched ==
    \A s \in Sends : owed[s] # None => Armed(FireKey(s)) \/ Armed(RetryKey(s))

(* No armed wake is beyond the engine's watermark: the tick runs when it   *)
(* is due or before.                                                       *)
WatermarkCovers ==
    \A id \in WakeIds : Armed(id) => watermark # -1 /\ watermark <= byId[id].when

(* webhook_fire: "a wake only re-fires a send whose in-flight attempt has  *)
(* definitively timed out - no double-send window".                        *)
NoDoubleSend == \A s \in Sends : Len(flight[s]) <= sendCalls[s]

(* Every durable send comes to an end, delivered, given up or taken back,  *)
(* if the builds agree on its record.                                      *)
SendsSettle == \A s \in Sends : owed[s] # None ~> owed[s].v # build
=============================================================================
