--------------------------- MODULE DurableProofs ---------------------------
(***************************************************************************)
(* What the runtime keeps for its applications, for every value of the     *)
(* constants: a durable send that is owed has a wake and the engine does   *)
(* not sleep past it (Sends), an export that runs has its watchdog and     *)
(* loses no page (Exports), what was sealed or appended can be read        *)
(* (Blobs), and a cron is armed for the next occurrence of its line (Cron).*)
(***************************************************************************)
EXTENDS Sends, Exports, Blobs, Cron, SequenceTheorems, FiniteSetTheorems,
        WellFoundedInduction, NaturalsInduction, TLAPS

-----------------------------------------------------------------------------
(* Sends.  The two kinds of rows agree: a record of the scheduler stands   *)
(* for a wake only if the index has its row.  An arming, a cancel and the  *)
(* rows a fired entry takes along keep that.                               *)

USE BuildsAssumption

IsRecord(r) == r = None \/ (r.v \in Builds /\ r = [v |-> r.v, when |-> r.when])

Sound(rows) ==
    /\ rows.byId = [id \in WakeIds |-> rows.byId[id]]
    /\ \A id \in WakeIds :
         /\ IsRecord(rows.byId[id])
         /\ rows.byId[id] # None => <<rows.byId[id].when, id>> \in rows.byTime

SendsInv ==
    /\ Sound(Rows)
    /\ owed = [s \in Sends |-> owed[s]]
    /\ build \in Builds
    /\ \A s \in Sends : owed[s] # None =>
         byId[FireKey(s)] # None \/ byId[RetryKey(s)] # None

(* The keys of sends and of timers name different wakes.                   *)
LEMMA KeysApart ==
  ASSUME NEW s \in Sends
  PROVE  /\ FireKey(s) \in WakeIds /\ RetryKey(s) \in WakeIds
         /\ FireKey(s) # RetryKey(s)
         /\ \A r \in Sends : FireKey(s) = FireKey(r) \/ RetryKey(s) = RetryKey(r) => s = r
         /\ \A r \in Sends : FireKey(s) # RetryKey(r)
         /\ \A t \in Timers \cup Refused :
              TimerKey(t) # FireKey(s) /\ TimerKey(t) # RetryKey(s)
  BY DEF FireKey, RetryKey, TimerKey, WakeIds

(* What Placed does to sound rows when at most the wake's own index row    *)
(* was dropped.                                                            *)
LEMMA PlacedSound ==
  ASSUME NEW rows, Sound(rows), build \in Builds, NEW id \in WakeIds, NEW when, NEW times,
         \A x \in rows.byTime : x[2] # id => x \in times
  PROVE  LET new == Placed(rows, id, when, times) IN
         /\ Sound(new)
         /\ new.byId[id] # None
         /\ \A j \in WakeIds : j # id => new.byId[j] = rows.byId[j]
<1> DEFINE new == Placed(rows, id, when, times)
<1>1. /\ new.byId = [rows.byId EXCEPT ![id] = [v |-> build, when |-> when]]
      /\ new.byTime = times \cup {<<when, id>>}
  BY DEF Placed
<1> HIDE DEF new
<1>2. /\ new.byId = [j \in WakeIds |-> new.byId[j]]
      /\ new.byId[id] = [v |-> build, when |-> when]
      /\ \A j \in WakeIds : j # id => new.byId[j] = rows.byId[j]
  BY <1>1 DEF Sound
<1>3. new.byId[id] # None /\ IsRecord(new.byId[id])
  BY <1>2 DEF None, IsRecord
<1>4. ASSUME NEW j \in WakeIds
      PROVE  /\ IsRecord(new.byId[j])
             /\ new.byId[j] # None => <<new.byId[j].when, j>> \in new.byTime
  <2>1. CASE j = id
    BY <2>1, <1>1, <1>2, <1>3
  <2>2. CASE j # id
    BY <2>2, <1>1, <1>2 DEF Sound
  <2> QED
    BY <2>1, <2>2
<1> QED
  BY <1>2, <1>3, <1>4 DEF Sound, new

(* Both ways of arming, and the cancel.                                    *)
LEMMA ArmSound ==
  ASSUME NEW rows, Sound(rows), build \in Builds, NEW id \in WakeIds, NEW when,
         NEW new \in {ArmWake(rows, id, when), SchedArm(rows, id, when)}
  PROVE  /\ Sound(new)
         /\ new.byId[id] # None
         /\ \A j \in WakeIds : j # id => new.byId[j] = rows.byId[j]
<1> DEFINE row == {<<rows.byId[id].when, id>>}
<1>1. \A times \in {rows.byTime, rows.byTime \ row} :
        \A x \in rows.byTime : x[2] # id => x \in times
  OBVIOUS
<1>2. \E times \in {rows.byTime, rows.byTime \ row} : new = Placed(rows, id, when, times)
  BY DEF ArmWake, SchedArm
<1> HIDE DEF row
<1> QED
  BY <1>1, <1>2, PlacedSound

LEMMA CancelSound ==
  ASSUME NEW rows, Sound(rows), NEW id \in WakeIds,
         rows = [byId |-> rows.byId, byTime |-> rows.byTime, watermark |-> rows.watermark]
  PROVE  /\ Sound(Cancel(rows, id))
         /\ \A j \in WakeIds : j # id => Cancel(rows, id).byId[j] = rows.byId[j]
<1> DEFINE new == Cancel(rows, id)
<1>1. /\ new.byId = [rows.byId EXCEPT ![id] = None]
      /\ \A x \in rows.byTime : x[2] # id => x \in new.byTime
  BY DEF Cancel
<1> HIDE DEF new
<1>2. /\ new.byId = [j \in WakeIds |-> new.byId[j]]
      /\ new.byId[id] = None
      /\ \A j \in WakeIds : j # id => new.byId[j] = rows.byId[j]
  BY <1>1 DEF Sound
<1>3. ASSUME NEW j \in WakeIds
      PROVE  /\ IsRecord(new.byId[j])
             /\ new.byId[j] # None => <<new.byId[j].when, j>> \in new.byTime
  <2>1. CASE j = id
    BY <2>1, <1>2 DEF IsRecord
  <2>2. CASE j # id
    BY <2>2, <1>1, <1>2 DEF Sound
  <2> QED
    BY <2>1, <2>2
<1> QED
  BY <1>2, <1>3 DEF Sound, new

LEMMA ConsumedSound ==
  ASSUME Sound(Rows), NEW e, e[2] \in WakeIds
  PROVE  /\ Sound(Consumed(e))
         /\ \A j \in WakeIds : j # e[2] => Consumed(e).byId[j] = byId[j]
<1> DEFINE new == Consumed(e)
<1>1. /\ new.byId = [byId EXCEPT ![e[2]] = None]
      /\ \A x \in byTime : x[2] # e[2] => x \in new.byTime
  BY DEF Consumed, Rows
<1>2. byId = [j \in WakeIds |-> byId[j]]
  BY DEF Sound, Rows
<1> HIDE DEF new
<1>3. /\ new.byId = [j \in WakeIds |-> new.byId[j]]
      /\ new.byId[e[2]] = None
      /\ \A j \in WakeIds : j # e[2] => new.byId[j] = byId[j]
  BY <1>1, <1>2
<1>4. ASSUME NEW j \in WakeIds
      PROVE  /\ IsRecord(new.byId[j])
             /\ new.byId[j] # None => <<new.byId[j].when, j>> \in new.byTime
  <2>1. CASE j = e[2]
    BY <2>1, <1>3 DEF IsRecord
  <2>2. CASE j # e[2]
    BY <2>2, <1>1, <1>3 DEF Sound, Rows
  <2> QED
    BY <2>1, <2>2
<1> QED
  BY <1>3, <1>4 DEF Sound, new

LEMMA RowsRecord ==
  Rows = [byId |-> Rows.byId, byTime |-> Rows.byTime, watermark |-> Rows.watermark]
  BY DEF Rows

LEMMA BecomeSound ==
  ASSUME NEW rows, Become(rows), Sound(rows)
  PROVE  Sound(Rows)' /\ byId' = rows.byId
  BY DEF Become, Sound, Rows, WakeIds, IsRecord

(* A step that leaves the two wakes of every send alone keeps the sends    *)
(* watched.                                                                *)
LEMMA OthersWatched ==
  ASSUME SendsInv, Sound(Rows)', build' \in Builds, owed' = [s \in Sends |-> owed'[s]],
         \A s \in Sends : owed'[s] # None =>
            \/ byId'[FireKey(s)] # None \/ byId'[RetryKey(s)] # None
            \/ /\ owed[s] # None
               /\ byId'[FireKey(s)] = byId[FireKey(s)]
               /\ byId'[RetryKey(s)] = byId[RetryKey(s)]
  PROVE  SendsInv'
<1>1. ASSUME NEW s \in Sends, owed'[s] # None
      PROVE  byId'[FireKey(s)] # None \/ byId'[RetryKey(s)] # None
  BY <1>1 DEF SendsInv
<1>2. \A s \in Sends : FireKey(s)' = FireKey(s) /\ RetryKey(s)' = RetryKey(s)
  BY DEF FireKey, RetryKey
<1> QED
  BY <1>1, <1>2 DEF SendsInv

LEMMA SendStep ==
  ASSUME SendsInv, NEW s \in Sends, NEW in, Send(s, in)
  PROVE  SendsInv'
<1> DEFINE new == ArmWake(Rows, FireKey(s), IF in > 0 THEN in ELSE Watchdog)
<1>1. Sound(Rows) /\ build \in Builds /\ FireKey(s) \in WakeIds
  BY KeysApart DEF SendsInv
<1>2. /\ Sound(new) /\ new.byId[FireKey(s)] # None
      /\ \A j \in WakeIds : j # FireKey(s) => new.byId[j] = byId[j]
  BY <1>1, ArmSound DEF Rows
<1>3. Become(new) /\ build' = build
  BY DEF Send
<1>4. owed' = [owed EXCEPT ![s] = [v |-> build, attempts |-> 0]]
  BY DEF Send
<1> HIDE DEF new
<1>5. Sound(Rows)' /\ byId' = new.byId
  BY <1>2, <1>3, BecomeSound
<1>6. /\ owed' = [r \in Sends |-> owed'[r]]
      /\ \A r \in Sends : r # s => owed'[r] = owed[r]
  BY <1>4 DEF SendsInv
<1>7. ASSUME NEW r \in Sends, r # s
      PROVE  /\ byId'[FireKey(r)] = byId[FireKey(r)]
             /\ byId'[RetryKey(r)] = byId[RetryKey(r)]
  BY <1>2, <1>5, <1>7, KeysApart
<1> QED
  BY <1>1, <1>2, <1>3, <1>5, <1>6, <1>7, OthersWatched

LEMMA TimerStep ==
  ASSUME SendsInv, NEW t \in Timers,
         \/ Unschedule(t)
         \/ \E in \in Delays : Schedule(t, in)
         \/ \E e \in fanned : TimerFires(e, t)
  PROVE  SendsInv'
<1>1. Sound(Rows) /\ build \in Builds /\ TimerKey(t) \in WakeIds /\ Rows.byId = byId
  BY DEF SendsInv, WakeIds, Rows
<1>2. owed' = owed /\ build' = build
  BY DEF Unschedule, Schedule, TimerFires
<1> DEFINE Moved ==
      \/ \E rows : /\ Become(rows) /\ Sound(rows)
                   /\ \A j \in WakeIds : j # TimerKey(t) => rows.byId[j] = byId[j]
      \/ UNCHANGED <<byId, byTime, watermark>>
<1>3. Moved
  <2>1. CASE Unschedule(t)
    BY <2>1, <1>1, CancelSound, RowsRecord DEF Unschedule
  <2>2. ASSUME NEW in \in Delays, Schedule(t, in) PROVE Moved
    BY <2>2, <1>1, ArmSound DEF Schedule
  <2>3. ASSUME NEW e \in fanned, TimerFires(e, t) PROVE Moved
    BY <2>3, <1>1, ConsumedSound DEF TimerFires
  <2> QED
    BY <2>1, <2>2, <2>3
<1>4. Sound(Rows)' /\ \A j \in WakeIds : j # TimerKey(t) => byId'[j] = byId[j]
  <2>1. CASE UNCHANGED <<byId, byTime, watermark>>
    BY <2>1, <1>1 DEF Sound, Rows, WakeIds, IsRecord
  <2> QED
    BY <2>1, <1>3, BecomeSound
<1>5. \A r \in Sends : /\ byId'[FireKey(r)] = byId[FireKey(r)]
                       /\ byId'[RetryKey(r)] = byId[RetryKey(r)]
  BY <1>4, KeysApart
<1> QED
  BY <1>1, <1>2, <1>4, <1>5, OthersWatched DEF SendsInv

LEMMA TickStep ==
  ASSUME SendsInv, SchedulerTick
  PROVE  SendsInv'
<1>1. PICK gone \in SUBSET byTime :
        LET ids == {e[2] : e \in {g \in gone : Unwakeable(g)}} IN
        /\ \A e \in gone : Orphan(e) \/ Unwakeable(e)
        /\ byTime' = byTime \ gone
        /\ byId' = [id \in WakeIds |-> IF id \in ids THEN None ELSE byId[id]]
  <2>1. PICK page \in Page :
          LET due == {e \in page : e[1] = 0}
              orphans == {e \in due : Orphan(e)}
              refused == {e \in due : Unwakeable(e)}
          IN /\ byTime' = byTime \ (orphans \cup refused)
             /\ byId' = [id \in WakeIds |->
                           IF id \in {e[2] : e \in refused} THEN None ELSE byId[id]]
    BY DEF SchedulerTick
  <2> DEFINE due == {e \in page : e[1] = 0}
             orphans == {e \in due : Orphan(e)}
             refused == {e \in due : Unwakeable(e)}
  <2>2. orphans \cup refused \in SUBSET byTime
    BY DEF Page
  <2>3. {g \in orphans \cup refused : Unwakeable(g)} = refused
    BY DEF Unwakeable
  <2> QED
    BY <2>1, <2>2, <2>3
<1> DEFINE ids == {e[2] : e \in {g \in gone : Unwakeable(g)}}
<1>2. \A id \in ids : \E t \in Timers \cup Refused : id = TimerKey(t)
  BY DEF Unwakeable
<1>3. owed' = owed /\ build' = build
  BY DEF SchedulerTick
<1>4. Sound(Rows)'
  <2>1. ASSUME NEW id \in WakeIds, byId'[id] # None
        PROVE  <<byId'[id].when, id>> \in byTime'
    <3> DEFINE e == <<byId[id].when, id>>
    <3>1. id \notin ids /\ byId'[id] = byId[id]
      BY <2>1, <1>1
    <3>2. e \in byTime /\ e[2] = id
      BY <3>1, <2>1 DEF SendsInv, Sound, Rows
    <3>3. e \notin gone
      BY <3>1, <3>2, <2>1, <1>1 DEF Orphan
    <3> QED
      BY <3>1, <3>2, <3>3, <1>1
  <2>2. ASSUME NEW id \in WakeIds PROVE IsRecord(byId'[id])
    BY <1>1 DEF SendsInv, Sound, Rows, IsRecord
  <2>3. byId' = [id \in WakeIds |-> byId'[id]]
    BY <1>1
  <2> QED
    BY <2>1, <2>2, <2>3 DEF Sound, Rows, WakeIds, IsRecord
<1>5. \A s \in Sends : /\ byId'[FireKey(s)] = byId[FireKey(s)]
                       /\ byId'[RetryKey(s)] = byId[RetryKey(s)]
  BY <1>1, <1>2, KeysApart
<1> QED
  BY <1>3, <1>4, <1>5, OthersWatched DEF SendsInv

(* A fired send is either over, or watched again by the same activation.   *)
LEMMA FireStep ==
  ASSUME SendsInv, NEW s \in Sends, NEW e \in fanned, WebhookFire(e, s)
  PROVE  SendsInv'
<1>1. /\ Sound(Rows) /\ build \in Builds /\ e[2] \in {FireKey(s), RetryKey(s)}
      /\ FireKey(s) \in WakeIds /\ e[2] \in WakeIds /\ build' = build
  BY KeysApart DEF SendsInv, WebhookFire
<1> DEFINE over == Consumed(e)
           watched == Watch(over, s)
           ended == Cancel(watched, FireKey(s))
           Elsewhere(rows) == \A j \in WakeIds :
               j \notin {FireKey(s), RetryKey(s)} => rows.byId[j] = byId[j]
<1>2. Sound(over) /\ Elsewhere(over)
  BY <1>1, ConsumedSound
<1>3. Sound(watched) /\ Elsewhere(watched) /\ watched.byId[FireKey(s)] # None
  <2> HIDE DEF over
  <2>1. watched \in {ArmWake(over, FireKey(s), Watchdog), SchedArm(over, FireKey(s), Watchdog)}
    BY DEF Watch
  <2> HIDE DEF watched
  <2> QED
    BY <1>1, <1>2, <2>1, ArmSound
<1>4. Sound(ended) /\ Elsewhere(ended)
  <2>1. watched = [byId |-> watched.byId, byTime |-> watched.byTime,
                   watermark |-> watched.watermark]
    BY DEF Watch, SchedArm, Placed
  <2> HIDE DEF watched
  <2> QED
    BY <1>1, <1>3, <2>1, CancelSound
<1>5. \/ Become(over) /\ owed' = owed /\ owed[s] = None
      \/ Become(watched) /\ \/ owed' = owed
                            \/ owed' = [owed EXCEPT ![s] = Counted(@)]
      \/ Become(ended) /\ owed' = [owed EXCEPT ![s] = None]
  BY DEF WebhookFire
<1> HIDE DEF over, watched, ended
<1>6. /\ owed' = [r \in Sends |-> owed'[r]]
      /\ \A r \in Sends : r # s => owed'[r] = owed[r]
  BY <1>5 DEF SendsInv
<1>7. /\ Sound(Rows)'
      /\ \A j \in WakeIds : j \notin {FireKey(s), RetryKey(s)} => byId'[j] = byId[j]
      /\ owed'[s] # None => byId'[FireKey(s)] # None
  <2>1. CASE Become(over) /\ owed' = owed /\ owed[s] = None
    BY <2>1, <1>2, BecomeSound
  <2>2. CASE Become(watched)
    BY <2>2, <1>3, BecomeSound
  <2>3. CASE Become(ended) /\ owed' = [owed EXCEPT ![s] = None]
    BY <2>3, <1>4, BecomeSound DEF SendsInv
  <2> QED
    BY <1>5, <2>1, <2>2, <2>3
<1>8. ASSUME NEW r \in Sends, r # s
      PROVE  /\ byId'[FireKey(r)] = byId[FireKey(r)]
             /\ byId'[RetryKey(r)] = byId[RetryKey(r)]
  BY <1>7, <1>8, KeysApart
<1> QED
  BY <1>1, <1>6, <1>7, <1>8, OthersWatched

(* An answer that leaves the send owed arms its retry.                     *)
LEMMA ResultStep ==
  ASSUME SendsInv, NEW s \in Sends, NEW answer \in Answers, WebhookOnResult(s, answer)
  PROVE  SendsInv'
<1>1. /\ Sound(Rows) /\ build \in Builds /\ RetryKey(s) \in WakeIds /\ build' = build
      /\ Rows.byId = byId
  BY KeysApart DEF SendsInv, WebhookOnResult, Rows
<1> DEFINE retried == SchedArm(Rows, RetryKey(s), Backoff(owed[s].attempts + 1))
           ended == Cancel(Rows, RetryKey(s))
           Elsewhere(rows) == \A j \in WakeIds : j # RetryKey(s) => rows.byId[j] = byId[j]
<1>2. Sound(retried) /\ Elsewhere(retried) /\ retried.byId[RetryKey(s)] # None
  BY <1>1, ArmSound
<1>3. Sound(ended) /\ Elsewhere(ended)
  BY <1>1, CancelSound, RowsRecord
<1>4. \/ UNCHANGED <<byId, byTime, watermark, owed>>
      \/ Become(retried) /\ owed' = [owed EXCEPT ![s] = Counted(@)]
      \/ Become(ended) /\ owed' = [owed EXCEPT ![s] = None]
  BY DEF WebhookOnResult
<1> HIDE DEF retried, ended
<1>5. CASE UNCHANGED <<byId, byTime, watermark, owed>>
  BY <1>5, <1>1, OthersWatched DEF SendsInv, Sound, Rows, WakeIds, IsRecord
<1>6. CASE \/ Become(retried) /\ owed' = [owed EXCEPT ![s] = Counted(@)]
           \/ Become(ended) /\ owed' = [owed EXCEPT ![s] = None]
  <2>1. /\ owed' = [r \in Sends |-> owed'[r]]
        /\ \A r \in Sends : r # s => owed'[r] = owed[r]
    BY <1>6 DEF SendsInv
  <2>2. /\ Sound(Rows)'
        /\ \A j \in WakeIds : j # RetryKey(s) => byId'[j] = byId[j]
        /\ owed'[s] # None => byId'[RetryKey(s)] # None
    BY <1>6, <1>2, <1>3, BecomeSound DEF SendsInv
  <2>3. ASSUME NEW r \in Sends, r # s
        PROVE  /\ byId'[FireKey(r)] = byId[FireKey(r)]
               /\ byId'[RetryKey(r)] = byId[RetryKey(r)]
    BY <2>2, <2>3, KeysApart
  <2> QED
    BY <1>1, <2>1, <2>2, <2>3, OthersWatched
<1> QED
  BY <1>4, <1>5, <1>6

LEMMA ClockKeeps ==
  ASSUME SendsInv, ClockStep
  PROVE  SendsInv'
<1>1. /\ owed' = owed /\ build' = build
      /\ byTime' = {<<Nearing(e[1]), e[2]>> : e \in byTime}
      /\ byId' = [id \in WakeIds |->
                    IF byId[id] = None THEN None ELSE [byId[id] EXCEPT !.when = Nearing(@)]]
  BY DEF ClockStep
<1>2. ASSUME NEW id \in WakeIds
      PROVE  /\ IsRecord(byId'[id])
             /\ byId'[id] # None <=> byId[id] # None
             /\ byId'[id] # None => <<byId'[id].when, id>> \in byTime'
  <2>1. CASE byId[id] = None
    BY <2>1, <1>1 DEF IsRecord
  <2>2. CASE byId[id] # None
    <3> DEFINE r == byId[id]
    <3>1. r.v \in Builds /\ r = [v |-> r.v, when |-> r.when] /\ <<r.when, id>> \in byTime
      BY <2>2 DEF SendsInv, Sound, Rows, IsRecord
    <3>2. byId'[id] = [v |-> r.v, when |-> Nearing(r.when)]
      BY <3>1, <2>2, <1>1
    <3>3. <<Nearing(r.when), id>> \in byTime'
      BY <3>1, <1>1
    <3> HIDE DEF r
    <3>4. byId'[id] # None /\ IsRecord(byId'[id])
      BY <3>1, <3>2 DEF None, IsRecord
    <3> QED
      BY <2>2, <3>2, <3>3, <3>4
  <2> QED
    BY <2>1, <2>2
<1>3. Sound(Rows)'
  <2>1. byId' = [id \in WakeIds |-> byId'[id]]
    BY <1>1
  <2> QED
    BY <1>2, <2>1 DEF Sound, Rows, WakeIds, IsRecord
<1>4. \A s \in Sends : /\ byId'[FireKey(s)] # None <=> byId[FireKey(s)] # None
                       /\ byId'[RetryKey(s)] # None <=> byId[RetryKey(s)] # None
  BY <1>2, KeysApart
<1>5. \A s \in Sends : owed'[s] # None =>
         byId'[FireKey(s)] # None \/ byId'[RetryKey(s)] # None
  BY <1>1, <1>4 DEF SendsInv
<1> QED
  BY <1>1, <1>3, <1>5, OthersWatched DEF SendsInv

(* What neither arms nor consumes: a send taken back, and a crash.         *)
LEMMA RestKeeps ==
  ASSUME SendsInv, (\E s \in Sends : TakeBack(s)) \/ Crash \/ UNCHANGED sendsVars
  PROVE  SendsInv'
<1>1. byId' = byId /\ byTime' = byTime /\ build' \in Builds
  BY DEF TakeBack, Crash, sendsVars, SendsInv
<1>2. Sound(Rows)'
  BY <1>1 DEF SendsInv, Sound, Rows, WakeIds, IsRecord
<1>3. /\ owed' = [s \in Sends |-> owed'[s]]
      /\ \A s \in Sends : owed'[s] # None => owed[s] # None
  BY DEF TakeBack, Crash, sendsVars, SendsInv
<1> QED
  BY <1>1, <1>2, <1>3, OthersWatched DEF SendsInv

LEMMA SendsStart == SendsInit => SendsInv
<1>1. \A s \in Sends : FireKey(s) \in WakeIds
  BY KeysApart
<1> QED
  BY <1>1 DEF SendsInit, SendsInv, Sound, Rows, IsRecord

LEMMA SendsKeep == SendsInv /\ [SendsNext]_sendsVars => SendsInv'
<1> SUFFICES ASSUME SendsInv, [SendsNext]_sendsVars PROVE SendsInv'
  OBVIOUS
<1>1. CASE \E s \in Sends : \E in \in Delays : Send(s, in)
  BY <1>1, SendStep
<1>2. CASE \E t \in Timers : Unschedule(t) \/ \E in \in Delays : Schedule(t, in)
  BY <1>2, TimerStep
<1>3. CASE SchedulerTick
  BY <1>3, TickStep
<1>4. CASE Fires
  BY <1>4, FireStep, TimerStep DEF Fires
<1>5. CASE AttemptAnswered
  BY <1>5, ResultStep DEF AttemptAnswered
<1>6. CASE ClockStep
  BY <1>6, ClockKeeps
<1>7. CASE (\E s \in Sends : TakeBack(s)) \/ Crash \/ UNCHANGED sendsVars
  BY <1>7, RestKeeps
<1> QED
  BY <1>1, <1>2, <1>3, <1>4, <1>5, <1>6, <1>7 DEF SendsNext

(* Whatever crashes, is refused, is lost or is written by another build,   *)
(* a send that is owed has a wake with its index row: webhook_fire and     *)
(* webhook_onresult leave none behind.                                     *)
THEOREM OwedIsAlwaysWatched == SendsSpec => []OwedIsWatched
<1>1. SendsInv => OwedIsWatched
  BY KeysApart DEF SendsInv, Sound, Rows, OwedIsWatched, Armed
<1> QED
  BY <1>1, SendsStart, SendsKeep, PTL DEF SendsSpec

(* A row of the scheduler is never without its row in the index, where the *)
(* tick finds it.                                                          *)
THEOREM RecordsAreIndexed ==
  SendsSpec => [](\A id \in WakeIds : byId[id] # None => Armed(id))
<1>1. SendsInv => \A id \in WakeIds : byId[id] # None => Armed(id)
  BY DEF SendsInv, Sound, Rows, Armed
<1> QED
  BY <1>1, SendsStart, SendsKeep, PTL DEF SendsSpec

------------------------------------------------------------------------------
(* The watermark of Sends.  It lies before every row of the index, dead or  *)
(* alive.  A tick moves it past what its page holds, so a page full of rows *)
(* that stand for no wake would leave behind what lies beyond the page.     *)

(* The rows a tick drops without firing anything.                           *)
Dead == {e \in byTime : e[1] = 0 /\ (Orphan(e) \/ Unwakeable(e))}
DeadFitAPage == Cardinality(Dead) <= MaxFires

Markers == [v : Builds, attempts : Nat]

Covered(rows) ==
    /\ IsFiniteSet(rows.byTime) /\ rows.watermark \in Int
    /\ \A e \in rows.byTime : /\ e[1] \in Nat
                              /\ rows.watermark # -1 /\ rows.watermark <= e[1]

MarkInv ==
    /\ Covered(Rows)
    /\ owed \in [Sends -> Markers \cup {None}]
    /\ build \in Builds

LEMMA Smallest ==
  ASSUME NEW S \in SUBSET Nat, S # {}
  PROVE  Min(S) \in S /\ \A x \in S : Min(S) <= x
<1> DEFINE below == OpToRel(<, Nat)
<1>1. PICK x \in S : \A y \in S : ~(<<y, x>> \in below)
  <2>1. IsWellFoundedOn(below, Nat)
    BY NatLessThanWellFounded
  <2> HIDE DEF below
  <2>2. IsWellFoundedOn(below, S)
    BY <2>1, IsWellFoundedOnSubset
  <2> QED
    BY <2>2, WFMin
<1>2. \A y \in S : x <= y
  <2> SUFFICES ASSUME NEW y \in S, ~(x <= y) PROVE FALSE
    OBVIOUS
  <2>1. y < x /\ x \in Nat /\ y \in Nat
    OBVIOUS
  <2>2. <<y, x>> \in below
    BY <2>1 DEF OpToRel
  <2> QED
    BY <1>1, <2>2
<1> QED
  BY <1>1, <1>2 DEF Min

LEMMA SmallerOf ==
  ASSUME NEW a \in Nat, NEW b \in Nat
  PROVE  Min({a, b}) \in Nat /\ Min({a, b}) \in {a, b} /\ Min({a, b}) <= a /\ Min({a, b}) <= b
  BY Smallest

LEMMA PlacedCovers ==
  ASSUME NEW rows, Covered(rows), NEW id, NEW when \in Nat, NEW times \in SUBSET rows.byTime
  PROVE  Covered(Placed(rows, id, when, times))
<1> DEFINE new == Placed(rows, id, when, times)
<1>1. new.byTime = times \cup {<<when, id>>} /\ new.watermark = Nearer(rows.watermark, when)
  BY DEF Placed
<1>2. IsFiniteSet(new.byTime)
  <2>1. IsFiniteSet(times)
    BY FS_Subset DEF Covered
  <2>2. IsFiniteSet(times \cup {<<when, id>>})
    BY <2>1, FS_AddElement
  <2> QED
    BY <1>1, <2>2
<1> HIDE DEF new
<1>3. /\ new.watermark \in Int /\ new.watermark # -1 /\ new.watermark <= when
      /\ rows.watermark # -1 => new.watermark <= rows.watermark
  BY <1>1 DEF Nearer, Covered
<1>4. ASSUME NEW e \in new.byTime
      PROVE  e[1] \in Nat /\ new.watermark # -1 /\ new.watermark <= e[1]
  <2>1. CASE e \in times
    BY <1>3, <2>1 DEF Covered
  <2>2. CASE e = <<when, id>>
    BY <1>3, <2>2
  <2> QED
    BY <1>1, <2>1, <2>2
<1>5. Covered(new)
  BY <1>2, <1>3, <1>4 DEF Covered
<1> QED
  BY <1>5 DEF new

LEMMA FewerCovered ==
  ASSUME NEW rows, NEW fewer, Covered(rows), fewer.byTime \subseteq rows.byTime,
         fewer.watermark = rows.watermark
  PROVE  Covered(fewer)
<1>1. IsFiniteSet(fewer.byTime)
  BY FS_Subset DEF Covered
<1> QED
  BY <1>1 DEF Covered

LEMMA ArmCovers ==
  ASSUME NEW rows, Covered(rows), NEW id, NEW when \in Nat,
         NEW new \in {ArmWake(rows, id, when), SchedArm(rows, id, when)}
  PROVE  Covered(new)
<1>1. \E times \in SUBSET rows.byTime : new = Placed(rows, id, when, times)
  BY DEF ArmWake, SchedArm
<1> QED
  BY <1>1, PlacedCovers

LEMMA CancelCovers ==
  ASSUME NEW rows, Covered(rows), NEW id,
         rows = [byId |-> rows.byId, byTime |-> rows.byTime, watermark |-> rows.watermark]
  PROVE  Covered(Cancel(rows, id))
<1>1. Cancel(rows, id).byTime \subseteq rows.byTime /\ Cancel(rows, id).watermark = rows.watermark
  BY DEF Cancel
<1> QED
  BY <1>1, FewerCovered

LEMMA ConsumedCovers == ASSUME Covered(Rows), NEW e PROVE Covered(Consumed(e))
<1>1. Consumed(e).byTime \subseteq Rows.byTime /\ Consumed(e).watermark = Rows.watermark
  BY DEF Consumed, Rows
<1> QED
  BY <1>1, FewerCovered

LEMMA BecomeCovers == ASSUME NEW rows, Become(rows), Covered(rows) PROVE Covered(Rows)'
  BY DEF Become, Covered, Rows

LEMMA MarkStart == SendsInit => MarkInv
  BY FS_EmptySet DEF SendsInit, MarkInv, Covered, Rows

(* What arms, cancels or consumes, by whoever's hand.                       *)
LEMMA SendMarks ==
  ASSUME MarkInv, (\E s \in Sends : TakeBack(s) \/ \E in \in Delays : Send(s, in))
  PROVE  MarkInv'
<1>1. PICK s \in Sends : TakeBack(s) \/ \E in \in Delays : Send(s, in)
  OBVIOUS
<1>2. build' = build /\ [v |-> build, attempts |-> 0] \in Markers
  BY <1>1 DEF TakeBack, Send, MarkInv, Markers
<1>3. owed' \in [Sends -> Markers \cup {None}]
  BY <1>1, <1>2 DEF TakeBack, Send, MarkInv
<1>4. Covered(Rows)'
  <2>1. CASE TakeBack(s)
    BY <2>1 DEF TakeBack, MarkInv, Covered, Rows
  <2>2. ASSUME NEW in \in Delays, Send(s, in) PROVE Covered(Rows)'
    <3>1. \E when \in Nat : Become(ArmWake(Rows, FireKey(s), when))
      BY <2>2, TimesAssumption DEF Send
    <3> QED
      BY <3>1, ArmCovers, BecomeCovers DEF MarkInv
  <2> QED
    BY <1>1, <2>1, <2>2
<1> QED
  BY <1>2, <1>3, <1>4 DEF MarkInv

LEMMA TimerMarks ==
  ASSUME MarkInv, NEW t \in Timers,
         \/ Unschedule(t)
         \/ \E in \in Delays : Schedule(t, in)
         \/ \E e \in fanned : TimerFires(e, t)
  PROVE  MarkInv'
<1>1. owed' = owed /\ build' = build
  BY DEF Unschedule, Schedule, TimerFires
<1>2. Covered(Rows)'
  <2>0. Rows = [byId |-> Rows.byId, byTime |-> Rows.byTime, watermark |-> Rows.watermark]
    BY DEF Rows
  <2>1. CASE Unschedule(t)
    BY <2>0, <2>1, CancelCovers, BecomeCovers DEF Unschedule, MarkInv
  <2>2. CASE \E in \in Delays : Schedule(t, in)
    BY <2>2, ArmCovers, BecomeCovers, TimesAssumption DEF Schedule, MarkInv
  <2>3. ASSUME NEW e \in fanned, TimerFires(e, t) PROVE Covered(Rows)'
    <3>1. CASE UNCHANGED <<byId, byTime, watermark>>
      BY <3>1 DEF MarkInv, Covered, Rows
    <3>2. CASE Become(Consumed(e))
      BY <3>2, ConsumedCovers, BecomeCovers DEF MarkInv
    <3> QED
      BY <2>3, <3>1, <3>2 DEF TimerFires
  <2> QED
    BY <2>1, <2>2, <2>3
<1> QED
  BY <1>1, <1>2 DEF MarkInv

LEMMA FireMarks ==
  ASSUME MarkInv, NEW s \in Sends, NEW e \in fanned, WebhookFire(e, s)
  PROVE  MarkInv'
<1> DEFINE over == Consumed(e)
           watched == Watch(over, s)
<1>1. Covered(over)
  BY ConsumedCovers DEF MarkInv
<1>2. /\ Covered(watched)
      /\ watched = [byId |-> watched.byId, byTime |-> watched.byTime, watermark |-> watched.watermark]
  <2> HIDE DEF over
  <2>1. watched \in {SchedArm(over, FireKey(s), Watchdog)} /\ Watchdog \in Nat
    BY TimesAssumption DEF Watch
  <2>2. watched = [byId |-> watched.byId, byTime |-> watched.byTime, watermark |-> watched.watermark]
    BY DEF Watch, SchedArm, Placed
  <2> HIDE DEF watched
  <2> QED
    BY <1>1, <2>1, <2>2, ArmCovers
<1>3. /\ build' = build
      /\ \/ Become(over) /\ owed' = owed
         \/ Become(watched) /\ (owed' = owed \/ (owed[s].v = build /\ owed' = [owed EXCEPT ![s] = Counted(@)]))
         \/ Become(Cancel(watched, FireKey(s))) /\ owed' = [owed EXCEPT ![s] = None]
  BY DEF WebhookFire
<1> HIDE DEF over, watched
<1>4. Covered(Rows)'
  BY <1>1, <1>2, <1>3, CancelCovers, BecomeCovers
<1>5. owed[s].v = build => Counted(owed[s]) \in Markers
  <2>1. build # 0
    BY BuildsAssumption DEF MarkInv
  <2>2. owed[s] \in Markers \cup {None}
    BY DEF MarkInv
  <2> QED
    BY <2>1, <2>2 DEF Counted, Markers, None
<1>6. owed' \in [Sends -> Markers \cup {None}]
  BY <1>3, <1>5 DEF MarkInv
<1> QED
  BY <1>3, <1>4, <1>6 DEF MarkInv

LEMMA ResultMarks ==
  ASSUME MarkInv, NEW s \in Sends, NEW answer \in Answers, WebhookOnResult(s, answer)
  PROVE  MarkInv'
<1>1. /\ build' = build
      /\ \/ UNCHANGED <<byId, byTime, watermark, owed>>
         \/ /\ owed[s].v = build /\ Retries(s, answer)
            /\ owed' = [owed EXCEPT ![s] = Counted(@)]
            /\ Become(SchedArm(Rows, RetryKey(s), Backoff(owed[s].attempts + 1)))
         \/ /\ owed' = [owed EXCEPT ![s] = None]
            /\ Become(Cancel(Rows, RetryKey(s)))
  BY DEF WebhookOnResult
<1>2. CASE UNCHANGED <<byId, byTime, watermark, owed>>
  BY <1>1, <1>2 DEF MarkInv, Covered, Rows
<1>3. CASE /\ owed[s].v = build /\ Retries(s, answer)
           /\ owed' = [owed EXCEPT ![s] = Counted(@)]
           /\ Become(SchedArm(Rows, RetryKey(s), Backoff(owed[s].attempts + 1)))
  <2>1. build # 0
    BY BuildsAssumption DEF MarkInv
  <2>2. owed[s] \in Markers \cup {None}
    BY DEF MarkInv
  <2>3. owed[s] \in Markers
    BY <1>3, <2>1, <2>2 DEF None
  <2>4. Counted(owed[s]) \in Markers
    BY <2>3 DEF Counted, Markers
  <2>5. owed[s].attempts + 1 \in 1 .. MaxAttempts
    <3>1. owed[s].attempts \in Nat
      BY <2>3 DEF Markers
    <3>2. owed[s].attempts + 1 < MaxAttempts
      BY <1>3 DEF Retries
    <3> QED
      BY <3>1, <3>2, TimesAssumption
  <2>6. Backoff(owed[s].attempts + 1) \in Nat
    BY <2>5, TimesAssumption
  <2>7. Covered(Rows)'
    BY <1>3, <2>6, ArmCovers, BecomeCovers DEF MarkInv
  <2> QED
    BY <1>1, <1>3, <2>4, <2>7 DEF MarkInv
<1>4. CASE owed' = [owed EXCEPT ![s] = None] /\ Become(Cancel(Rows, RetryKey(s)))
  <2>1. Rows = [byId |-> Rows.byId, byTime |-> Rows.byTime, watermark |-> Rows.watermark]
    BY DEF Rows
  <2>2. Covered(Rows)'
    BY <1>4, <2>1, CancelCovers, BecomeCovers DEF MarkInv
  <2> QED
    BY <1>1, <1>4, <2>2 DEF MarkInv
<1> QED
  BY <1>1, <1>2, <1>3, <1>4

LEMMA ClockMarks == ASSUME MarkInv, ClockStep PROVE MarkInv'
<1> DEFINE near == [e \in byTime |-> <<Nearing(e[1]), e[2]>>]
<1>1. /\ owed' = owed /\ build' = build /\ watermark' = Nearing(watermark)
      /\ byTime' = {<<Nearing(e[1]), e[2]>> : e \in byTime}
  BY DEF ClockStep
<1>2. near \in Surjection(byTime, byTime')
  BY <1>1 DEF Surjection
<1>3. IsFiniteSet(byTime')
  BY <1>2, FS_Surjection DEF MarkInv, Covered, Rows
<1>4. watermark \in Int /\ \A e \in byTime : e[1] \in Nat /\ watermark # -1 /\ watermark <= e[1]
  BY DEF MarkInv, Covered, Rows
<1>5. watermark' \in Int
  BY <1>1, <1>4 DEF Nearing
<1>6. ASSUME NEW f \in byTime' PROVE f[1] \in Nat /\ watermark' # -1 /\ watermark' <= f[1]
  <2>1. PICK e \in byTime : f = <<Nearing(e[1]), e[2]>>
    BY <1>1
  <2>2. f[1] = Nearing(e[1])
    BY <2>1
  <2> QED
    BY <1>1, <1>4, <2>2 DEF Nearing
<1> QED
  BY <1>1, <1>3, <1>5, <1>6 DEF MarkInv, Covered, Rows

(* A tick that fires nothing has seen all of the index, or the next row.    *)
LEMMA TickMarks == ASSUME MarkInv, DeadFitAPage, SchedulerTick PROVE MarkInv'
<1>0. PICK page \in Page :
         LET due == {e \in page : e[1] = 0}
             orphans == {e \in due : Orphan(e)}
             refused == {e \in due : Unwakeable(e)}
             deferred == {e \in due : Deferred(e)}
             alive == due \ (orphans \cup refused \cup deferred)
         IN \E fired \in {f \in SUBSET alive :
                            Cardinality(f) = Min({MaxFires, Cardinality(alive)})} :
              /\ byTime' = byTime \ (orphans \cup refused)
              /\ watermark' = NextWatermark(page, fired, deferred)
  BY DEF SchedulerTick
<1> DEFINE due == {e \in page : e[1] = 0}
           orphans == {e \in due : Orphan(e)}
           refused == {e \in due : Unwakeable(e)}
           deferred == {e \in due : Deferred(e)}
           alive == due \ (orphans \cup refused \cup deferred)
<1>1. PICK fired \in SUBSET alive :
         /\ Cardinality(fired) = Min({MaxFires, Cardinality(alive)})
         /\ byTime' = byTime \ (orphans \cup refused)
         /\ watermark' = NextWatermark(page, fired, deferred)
  BY <1>0
<1>2. /\ IsFiniteSet(byTime) /\ \A e \in byTime : e[1] \in Nat
      /\ page \in SUBSET byTime /\ Cardinality(page) = Min({MaxFires + 1, Cardinality(byTime)})
      /\ \A e \in page, f \in byTime \ page : e[1] <= f[1]
  BY DEF MarkInv, Covered, Rows, Page
<1>3. IsFiniteSet(byTime') /\ byTime' \subseteq byTime
  BY <1>1, <1>2, FS_Subset
<1>4. owed' = owed /\ build' = build
  BY DEF SchedulerTick
<1>5. CASE fired # {} \/ deferred # {}
  <2>1. watermark' = 0
    BY <1>1, <1>5 DEF NextWatermark
  <2> QED
    BY <1>2, <1>3, <1>4, <2>1 DEF MarkInv, Covered, Rows
<1>6. CASE fired = {} /\ deferred = {}
  <2> DEFINE ahead == {e[1] : e \in {f \in page : f[1] > 0}}
  <2>1. watermark' = IF ahead = {} THEN -1 ELSE Min(ahead)
    BY <1>1, <1>6 DEF NextWatermark
  <2>2. alive = {}
    <3>1. alive \in SUBSET byTime
      BY <1>2
    <3> HIDE DEF alive
    <3>2. IsFiniteSet(alive) /\ Cardinality(alive) \in Nat
      BY <1>2, <3>1, FS_Subset, FS_CardinalityType
    <3>3. Cardinality(fired) = 0
      BY <1>6, FS_EmptySet
    <3>4. Cardinality(alive) = 0
      BY <1>1, <3>2, <3>3, SmallerOf, TimesAssumption
    <3> QED
      BY <3>2, <3>4, FS_EmptySet
  <2>3. due = orphans \cup refused
    BY <1>6, <2>2
  <2>4. ahead \in SUBSET Nat
    BY <1>2
  <2>5. CASE ahead # {}
    <3> HIDE DEF ahead
    <3>1. watermark' \in ahead /\ \A x \in ahead : watermark' <= x
      BY <2>1, <2>4, <2>5, Smallest
    <3>2. watermark' \in Nat
      BY <2>4, <3>1
    <3>3. ASSUME NEW e \in byTime' PROVE watermark' <= e[1]
      <4>1. CASE e \in page
        <5>1. e[1] \in Nat /\ e \notin due
          BY <1>1, <1>2, <1>3, <2>3
        <5>2. e[1] > 0
          BY <4>1, <5>1
        <5>3. e[1] \in ahead
          BY <4>1, <5>2 DEF ahead
        <5> QED
          BY <3>1, <5>3
      <4>2. CASE e \notin page
        <5>1. PICK f \in page : f[1] = watermark'
          BY <3>1 DEF ahead
        <5> QED
          BY <1>2, <1>3, <4>2, <5>1
      <4> QED
        BY <4>1, <4>2
    <3> QED
      BY <1>2, <1>3, <1>4, <3>2, <3>3 DEF MarkInv, Covered, Rows
  <2>6. CASE ahead = {}
    <3>1. page = due
      <4>1. ASSUME NEW e \in page PROVE e[1] = 0
        <5>1. ~(e[1] > 0)
          BY <2>6
        <5> QED
          BY <1>2, <5>1
      <4> QED
        BY <4>1
    <3>2. page \subseteq Dead
      BY <1>2, <2>3, <3>1 DEF Dead
    <3>3. IsFiniteSet(Dead) /\ Cardinality(Dead) \in Nat
      <4>1. Dead \in SUBSET byTime
        BY DEF Dead
      <4> QED
        BY <1>2, <4>1, FS_Subset, FS_CardinalityType
    <3>4. Cardinality(page) <= MaxFires
      BY <3>2, <3>3, FS_Subset, FS_CardinalityType, TimesAssumption DEF DeadFitAPage
    <3>5. Cardinality(page) = Cardinality(byTime)
      BY <1>2, <3>4, SmallerOf, FS_CardinalityType, TimesAssumption
    <3>6. page = byTime
      BY <1>2, <3>5, FS_Subset
    <3>7. byTime' = {}
      BY <1>1, <2>3, <3>1, <3>6
    <3> QED
      BY <1>3, <1>4, <2>1, <2>6, <3>7 DEF MarkInv, Covered, Rows
  <2> QED
    BY <2>5, <2>6
<1> QED
  BY <1>5, <1>6

LEMMA MarksKeep ==
  ASSUME MarkInv, DeadFitAPage, [SendsNext]_sendsVars PROVE MarkInv'
<1>1. CASE UNCHANGED sendsVars
  BY <1>1 DEF sendsVars, MarkInv, Covered, Rows
<1>2. CASE Crash
  BY <1>2 DEF Crash, MarkInv, Covered, Rows
<1> QED
  BY <1>1, <1>2, SendMarks, TimerMarks, FireMarks, ResultMarks, ClockMarks, TickMarks
  DEF SendsNext, Fires, AttemptAnswered

(* The engine sleeps past no armed wake, whatever crashes and whichever     *)
(* build leads, unless more dead index rows than MAX_FIRES_PER_TICK come    *)
(* due at once: then a tick has a page without a row of the future and      *)
(* finds nothing pending (scheduler_tick).                                  *)
THEOREM WatermarkAlwaysCovers == SendsSpec /\ []DeadFitAPage => []WatermarkCovers
<1>1. MarkInv => WatermarkCovers
  BY DEF MarkInv, Covered, Rows, WatermarkCovers, Armed
<1>2. MarkInv /\ DeadFitAPage /\ [SendsNext]_sendsVars => MarkInv'
  BY MarksKeep
<1> QED
  BY <1>1, <1>2, MarkStart, PTL DEF SendsSpec

-----------------------------------------------------------------------------
(* Exports.  Whatever the bounds are, a record keeps its shape and uploads *)
(* belong to an export; with one upload at a time, the upload under way is *)
(* the part the cursor is at, and the parts are the pages before it.       *)

ExportRecord(r) ==
    /\ r = [v |-> r.v, state |-> r.state, attempts |-> r.attempts, parts |-> r.parts,
            cursor |-> r.cursor, phase |-> r.phase]
    /\ r.v \in ExportBuilds
    /\ r.state \in {"running", "done", "failed"}

ExportShape ==
    /\ export = [id \in Exports |-> export[id]]
    /\ uploads = [id \in Exports |-> uploads[id]]
    /\ ofBuild \in ExportBuilds
    /\ \A id \in Exports :
         /\ Stands(id) => ExportRecord(export[id])
         /\ ~Stands(id) => uploads[id] = <<>>

OneBuild == \A b, c \in ExportBuilds : b = c

LEMMA ShapeStart == ExportsInit => ExportShape /\ RunningIsWatched
  BY DEF ExportsInit, ExportShape, Stands, NoExport, RunningIsWatched

(* Only records that stand are read.                                       *)
LEMMA StateOfStanding ==
  ASSUME NEW id \in Exports, export[id].state \in {"running", "done", "failed"}
  PROVE  Stands(id)
  BY DEF Stands, NoExport

(* What Issue and Finish make of a record and of the watchdog.             *)
LEMMA IssueStep ==
  ASSUME ExportShape, NEW id \in Exports, NEW rec, ExportRecord(rec), NEW others,
         ofBuild' \in ExportBuilds,
         \/ Issue(id, rec, others)
         \/ \E state \in {"done", "failed"} : Finish(id, rec, others, state)
  PROVE  /\ ExportShape'
         /\ RunningIsWatched => RunningIsWatched'
<1>1. \/ /\ export' = [export EXCEPT ![id] = rec]
         /\ watchdog' = watchdog \cup {id}
      \/ \E state \in {"done", "failed"} :
           /\ export' = [export EXCEPT ![id] = [rec EXCEPT !.state = state]]
           /\ watchdog' = watchdog \ {id}
  BY DEF Issue, Finish, Keep, Watched
<1>2. \E u : uploads' = [uploads EXCEPT ![id] = u]
  BY DEF Issue, Finish
<1>3. \A state \in {"done", "failed"} :
        ExportRecord([rec EXCEPT !.state = state]) /\ [rec EXCEPT !.state = state].state = state
  BY DEF ExportRecord
<1>4. /\ export' = [i \in Exports |-> export'[i]]
      /\ uploads' = [i \in Exports |-> uploads'[i]]
      /\ \A i \in Exports : i # id => export'[i] = export[i] /\ uploads'[i] = uploads[i]
  BY <1>1, <1>2 DEF ExportShape
<1>5. /\ ExportRecord(export'[id])
      /\ export'[id].state = "running" => id \in watchdog'
      /\ \A i \in watchdog : i # id => i \in watchdog'
  BY <1>1, <1>3 DEF ExportShape
<1>6. export'[id] # NoExport
  BY <1>5 DEF ExportRecord, NoExport
<1>7. ExportShape'
  BY <1>4, <1>5, <1>6 DEF ExportShape, Stands, ExportRecord
<1>8. ASSUME RunningIsWatched PROVE RunningIsWatched'
  BY <1>8, <1>4, <1>5 DEF RunningIsWatched
<1> QED
  BY <1>7, <1>8

(* A page recorded: the attempts start again, the parts may have grown.    *)
LEMMA RecordUpdates ==
  ASSUME NEW old, ExportRecord(old), NEW parts
  PROVE  LET new == [old EXCEPT !.attempts = 0, !.parts = parts] IN
         /\ ExportRecord(new) /\ new.state = old.state /\ new.parts = parts
         /\ new.phase = old.phase /\ new.cursor = old.cursor
<1> DEFINE r == [old EXCEPT !.attempts = 0]
           new == [old EXCEPT !.attempts = 0, !.parts = parts]
<1>1. new = [r EXCEPT !.parts = parts]
  OBVIOUS
<1>2. r = [v |-> old.v, state |-> old.state, attempts |-> 0, parts |-> old.parts,
           cursor |-> old.cursor, phase |-> old.phase]
  BY DEF ExportRecord
<1> HIDE DEF r, new
<1>3. new = [v |-> old.v, state |-> old.state, attempts |-> 0, parts |-> parts,
             cursor |-> old.cursor, phase |-> old.phase]
  BY <1>1, <1>2
<1>4. old.v \in ExportBuilds /\ old.state \in {"running", "done", "failed"}
  BY DEF ExportRecord
<1>5. ExportRecord(new)
  BY <1>3, <1>4 DEF ExportRecord
<1>6. /\ new.state = old.state /\ new.parts = parts
      /\ new.phase = old.phase /\ new.cursor = old.cursor
  BY <1>3
<1> QED
  BY <1>5, <1>6 DEF new

(* Then the cursor moves on, or the manifest follows.                      *)
LEMMA CursorUpdates ==
  ASSUME NEW rec, ExportRecord(rec), NEW c
  PROVE  LET moved == [rec EXCEPT !.cursor = c]
             turned == [rec EXCEPT !.cursor = c, !.phase = "bundle"]
         IN
         /\ ExportRecord(moved) /\ moved.state = rec.state /\ moved.parts = rec.parts
         /\ moved.phase = rec.phase /\ moved.cursor = c
         /\ ExportRecord(turned) /\ turned.state = rec.state /\ turned.parts = rec.parts
         /\ turned.phase = "bundle"
<1> DEFINE r == [rec EXCEPT !.cursor = c]
           new == [rec EXCEPT !.cursor = c, !.phase = "bundle"]
<1>1. new = [r EXCEPT !.phase = "bundle"]
  OBVIOUS
<1>2. r = [v |-> rec.v, state |-> rec.state, attempts |-> rec.attempts,
           parts |-> rec.parts, cursor |-> c, phase |-> rec.phase]
  BY DEF ExportRecord
<1> HIDE DEF r, new
<1>3. new = [v |-> rec.v, state |-> rec.state, attempts |-> rec.attempts,
             parts |-> rec.parts, cursor |-> c, phase |-> "bundle"]
  BY <1>1, <1>2
<1>4. rec.v \in ExportBuilds /\ rec.state \in {"running", "done", "failed"}
  BY DEF ExportRecord
<1>5. ExportRecord(new) /\ ExportRecord(r)
  BY <1>2, <1>3, <1>4 DEF ExportRecord
<1>6. /\ r.state = rec.state /\ r.parts = rec.parts /\ r.phase = rec.phase /\ r.cursor = c
      /\ new.state = rec.state /\ new.parts = rec.parts /\ new.phase = "bundle"
  BY <1>2, <1>3
<1> QED
  BY <1>5, <1>6 DEF new, r

LEMMA WakeExportStep ==
  ASSUME ExportShape, NEW id \in Exports, WakeExport(id)
  PROVE  ExportShape' /\ (OneBuild /\ RunningIsWatched => RunningIsWatched')
<1>1. ExportRecord(export[id]) /\ ofBuild' = ofBuild /\ ofBuild \in ExportBuilds
  BY DEF ExportShape, WakeExport
<1>2. CASE export[id].state = "running" /\ export[id].v = ofBuild
  <2>1. Issue(id, export[id], uploads[id])
    BY <1>2 DEF WakeExport
  <2> QED
    BY <1>1, <2>1, IssueStep
<1>3. CASE ~(export[id].state = "running" /\ export[id].v = ofBuild)
  <2>1. watchdog' = watchdog \ {id} /\ export' = export /\ uploads' = uploads
    BY <1>3 DEF WakeExport
  <2>2. OneBuild => export[id].state # "running"
    BY <1>1, <1>3 DEF OneBuild, ExportRecord
  <2> QED
    BY <1>1, <2>1, <2>2 DEF ExportShape, RunningIsWatched, Stands, ExportRecord
<1> QED
  BY <1>2, <1>3

LEMMA UploadStep ==
  ASSUME ExportShape, NEW id \in Exports, NEW i \in DOMAIN uploads[id],
         NEW ok \in BOOLEAN, PartUploaded(id, i, ok)
  PROVE  ExportShape' /\ (OneBuild /\ RunningIsWatched => RunningIsWatched')
<1> DEFINE part == uploads[id][i]
           others == RemoveAt(uploads[id], i)
           rec == [export[id] EXCEPT !.attempts = 0, !.parts = Recorded(@, part)]
<1>1. Stands(id)
  BY DEF ExportShape
<1>2. /\ ExportRecord(export[id]) /\ ofBuild' = ofBuild /\ ofBuild \in ExportBuilds
  BY <1>1 DEF ExportShape, PartUploaded
<1>3. CASE export[id].state # "running" \/ export[id].v # ofBuild
  <2>1. /\ export' = export /\ watchdog' \in {watchdog, watchdog \ {id}}
        /\ uploads' = [uploads EXCEPT ![id] = others]
    BY <1>3 DEF PartUploaded
  <2>2. OneBuild => export[id].state # "running"
    BY <1>2, <1>3 DEF OneBuild, ExportRecord
  <2> HIDE DEF others
  <2> QED
    BY <1>1, <1>2, <2>1, <2>2 DEF ExportShape, RunningIsWatched, Stands, ExportRecord
<1>4. CASE export[id].state = "running" /\ export[id].v = ofBuild /\ ok
  <2>1. Advance(id, part, others)
    BY <1>2, <1>4 DEF PartUploaded
  <2>2. /\ ExportRecord(rec)
        /\ \A c : ExportRecord([rec EXCEPT !.cursor = c])
        /\ ExportRecord([rec EXCEPT !.cursor = 1, !.phase = "bundle"])
    <3>1. rec = [export[id] EXCEPT !.attempts = 0, !.parts = Recorded(export[id].parts, part)]
      OBVIOUS
    <3> HIDE DEF rec, part
    <3>2. ExportRecord(rec)
      BY <1>2, <3>1, RecordUpdates
    <3> QED
      BY <3>2, CursorUpdates
  <2>3. \E r : /\ ExportRecord(r)
               /\ \/ Issue(id, r, others)
                  \/ \E state \in {"done", "failed"} : Finish(id, r, others, state)
    BY <2>1, <2>2 DEF Advance
  <2> HIDE DEF others
  <2> QED
    BY <1>2, <2>3, IssueStep
<1>5. CASE export[id].state = "running" /\ export[id].v = ofBuild /\ ~ok
  <2>1. \/ Finish(id, Failed(export[id]), others, "failed")
        \/ Issue(id, Failed(export[id]), others)
    BY <1>2, <1>5 DEF PartUploaded
  <2>2. ExportRecord(Failed(export[id]))
    BY <1>2 DEF ExportRecord, Failed
  <2> HIDE DEF others
  <2> QED
    BY <1>2, <2>1, <2>2, IssueStep
<1> QED
  BY <1>3, <1>4, <1>5

LEMMA StartRowsStep ==
  ASSUME ExportShape, NEW id \in Exports, StartRows(id)
  PROVE  ExportShape' /\ (RunningIsWatched => RunningIsWatched')
<1> DEFINE rec == [v |-> ofBuild, state |-> "running", attempts |-> 0, parts |-> <<>>,
                   cursor |-> 1, phase |-> "kv"]
<1>1. /\ export' = [export EXCEPT ![id] = rec] /\ watchdog' = watchdog \cup {id}
      /\ uploads' = uploads /\ ofBuild' = ofBuild
  BY DEF StartRows
<1>2. ExportRecord(rec) /\ rec # NoExport /\ rec.state = "running"
  BY DEF ExportShape, ExportRecord, NoExport
<1> HIDE DEF rec
<1>3. ExportShape'
  BY <1>1, <1>2 DEF ExportShape, Stands, ExportRecord
<1>4. ASSUME RunningIsWatched PROVE RunningIsWatched'
  BY <1>1, <1>4 DEF ExportShape, RunningIsWatched
<1> QED
  BY <1>3, <1>4

(* What neither writes a record nor takes a watchdog.                      *)
LEMMA ExportRest ==
  ASSUME ExportShape,
         \/ \E id \in Exports : StartExport(id) \/ GetExportLinks(id)
         \/ Redeploy \/ Outage \/ UNCHANGED exportVars
  PROVE  ExportShape' /\ (RunningIsWatched => RunningIsWatched')
<1>1. export' = export /\ watchdog' = watchdog /\ ofBuild' \in ExportBuilds
  BY DEF StartExport, GetExportLinks, Redeploy, Outage, exportVars, ExportShape
<1>2. uploads' = uploads \/ uploads' = [id \in Exports |-> <<>>]
  BY DEF StartExport, GetExportLinks, Redeploy, Outage, exportVars
<1> QED
  BY <1>1, <1>2 DEF ExportShape, RunningIsWatched, Stands, ExportRecord

LEMMA ExportsKeep ==
  ASSUME ExportShape, [ExportsNext]_exportVars
  PROVE  ExportShape' /\ (OneBuild /\ RunningIsWatched => RunningIsWatched')
<1>1. CASE \E id \in Exports : StartRows(id)
  BY <1>1, StartRowsStep
<1>2. CASE \E id \in Exports : WakeExport(id)
  BY <1>2, WakeExportStep
<1>3. CASE \E id \in Exports : \E i \in DOMAIN uploads[id], ok \in BOOLEAN :
             PartUploaded(id, i, ok)
  BY <1>3, UploadStep
<1>4. CASE \/ \E id \in Exports : StartExport(id) \/ GetExportLinks(id)
           \/ Redeploy \/ Outage \/ UNCHANGED exportVars
  BY <1>4, ExportRest
<1> QED
  BY <1>1, <1>2, <1>3, <1>4 DEF ExportsNext

(* As long as all builds write one record version, an export that runs has *)
(* its watchdog, however many uploads overlap, fail or are lost.           *)
THEOREM RunningIsAlwaysWatched ==
  ASSUME OneBuild PROVE ExportsSpec => []RunningIsWatched
<1>1. ExportShape /\ RunningIsWatched /\ [ExportsNext]_exportVars
        => (ExportShape /\ RunningIsWatched)'
  BY ExportsKeep
<1> QED
  BY <1>1, ShapeStart, PTL DEF ExportsSpec

-----------------------------------------------------------------------------
(* With one upload at a time, the upload under way is the part the cursor  *)
(* is at, and what is recorded are the pages before it.                    *)

PagesTo(n) == [i \in 1 .. n |-> i]

OnItsWay(r) ==
    \/ r.phase = "kv" /\ r.cursor \in 1 .. Pages /\ r.parts = PagesTo(r.cursor - 1)
    \/ r.phase = "bundle" /\ r.parts = PagesTo(Pages)

NextPart(r) == IF r.phase = "bundle" THEN Bundle ELSE r.cursor

Whole(parts) == parts \in {AllPages, Append(AllPages, Bundle)}

PartsInv ==
    /\ linkedParts = [id \in Exports |-> linkedParts[id]]
    /\ \A id \in Exports :
         /\ id \in starting => ~Stands(id)
         /\ export[id].state # "done" => linkedParts[id] = <<>>
         /\ linkedParts[id] \in {<<>>, export[id].parts}
         /\ Stands(id) => CASE export[id].state = "running" ->
                                 /\ OnItsWay(export[id])
                                 /\ uploads[id] \in {<<>>, <<NextPart(export[id])>>}
                            [] export[id].state = "done" ->
                                 Whole(export[id].parts) /\ uploads[id] = <<>>
                            [] OTHER -> uploads[id] = <<>>

LEMMA RecordedNext ==
  ASSUME NEW c \in 1 .. Pages
  PROVE  Recorded(PagesTo(c - 1), c) = PagesTo(c)
<1> USE PagesAssumption
<1>1. PagesTo(c - 1) \in Seq(Nat) /\ Len(PagesTo(c - 1)) = c - 1
  BY DEF PagesTo
<1>2. Append(PagesTo(c - 1), c) = PagesTo(c)
  BY DEF PagesTo
<1>3. PagesTo(c - 1) # <<>> => Last(PagesTo(c - 1)) # c
  BY <1>1 DEF PagesTo, Last
<1> QED
  BY <1>2, <1>3 DEF Recorded

LEMMA RecordedBundle == Recorded(PagesTo(Pages), Bundle) = Append(AllPages, Bundle)
<1> USE PagesAssumption
<1>1. PagesTo(Pages) \in Seq(Nat) /\ Len(PagesTo(Pages)) = Pages /\ PagesTo(Pages) = AllPages
  BY DEF PagesTo, AllPages
<1>2. Last(PagesTo(Pages)) # Bundle
  BY <1>1 DEF PagesTo, Last, Bundle
<1> QED
  BY <1>1, <1>2 DEF Recorded

LEMMA RemoveOnly ==
  ASSUME NEW x, NEW i \in DOMAIN <<x>>
  PROVE  RemoveAt(<<x>>, i) = <<>> /\ <<x>>[i] = x
  BY DEF RemoveAt

(* A running export that goes on or ends, with no other upload under way.  *)
LEMMA PartStep ==
  ASSUME ExportShape, PartsInv, NEW id \in Exports, Stands(id), export[id].state = "running",
         NEW rec, ExportRecord(rec), rec.state = "running",
         UNCHANGED <<starting, linkedParts>>,
         \/ Issue(id, rec, <<>>) /\ OnItsWay(rec)
         \/ \E state \in {"done", "failed"} :
              Finish(id, rec, <<>>, state) /\ (state = "done" => Whole(rec.parts))
  PROVE  PartsInv'
<1> DEFINE Becomes(r, u) ==
      /\ export' = [export EXCEPT ![id] = r] /\ uploads' = [uploads EXCEPT ![id] = u]
      /\ ExportRecord(r)
      /\ \/ r.state = "running" /\ OnItsWay(r) /\ u = <<NextPart(r)>>
         \/ r.state = "done" /\ Whole(r.parts) /\ u = <<>>
         \/ r.state = "failed" /\ u = <<>>
<1>1. \E r, u : Becomes(r, u)
  <2>1. CASE Issue(id, rec, <<>>) /\ OnItsWay(rec)
    <3>1. /\ export' = [export EXCEPT ![id] = rec]
          /\ uploads' = [uploads EXCEPT ![id] = Append(<<>>, NextPart(rec))]
      BY <2>1 DEF Issue, Keep, NextPart
    <3>2. Append(<<>>, NextPart(rec)) = <<NextPart(rec)>>
      OBVIOUS
    <3> QED
      BY <2>1, <3>1, <3>2
  <2>2. ASSUME NEW state \in {"done", "failed"}, Finish(id, rec, <<>>, state),
               state = "done" => Whole(rec.parts)
        PROVE  \E r, u : Becomes(r, u)
    <3> DEFINE r == [rec EXCEPT !.state = state]
    <3>1. export' = [export EXCEPT ![id] = r] /\ uploads' = [uploads EXCEPT ![id] = <<>>]
      BY <2>2 DEF Finish, Keep
    <3>2. r = [v |-> rec.v, state |-> state, attempts |-> rec.attempts, parts |-> rec.parts,
               cursor |-> rec.cursor, phase |-> rec.phase]
      BY DEF ExportRecord
    <3> HIDE DEF r
    <3>3. ExportRecord(r) /\ r.state = state /\ r.parts = rec.parts
      BY <3>2 DEF ExportRecord
    <3> QED
      BY <2>2, <3>1, <3>3
  <2> QED
    BY <2>1, <2>2
<1>2. PICK r, u : Becomes(r, u)
  BY <1>1
<1>3. export'[id] = r /\ uploads'[id] = u /\ linkedParts[id] = <<>> /\ id \notin starting
  BY <1>2 DEF ExportShape, PartsInv
<1>4. \A i \in Exports : i # id => export'[i] = export[i] /\ uploads'[i] = uploads[i]
  BY <1>2 DEF ExportShape
<1>5. linkedParts' = linkedParts /\ starting' = starting
  OBVIOUS
<1>6. \A x : OnItsWay(x)' = OnItsWay(x) /\ NextPart(x)' = NextPart(x) /\ Whole(x)' = Whole(x)
  BY DEF OnItsWay, NextPart, Whole
<1>7. ASSUME NEW i \in Exports
      PROVE  /\ i \in starting' => ~Stands(i)'
             /\ export'[i].state # "done" => linkedParts'[i] = <<>>
             /\ linkedParts'[i] \in {<<>>, export'[i].parts}
             /\ Stands(i)' => CASE export'[i].state = "running" ->
                                     /\ OnItsWay(export'[i])
                                     /\ uploads'[i] \in {<<>>, <<NextPart(export'[i])>>}
                                [] export'[i].state = "done" ->
                                     Whole(export'[i].parts) /\ uploads'[i] = <<>>
                                [] OTHER -> uploads'[i] = <<>>
  <2>1. CASE i = id
    BY <2>1, <1>2, <1>3, <1>5
  <2>2. CASE i # id
    BY <2>2, <1>4, <1>5 DEF PartsInv, Stands
  <2> QED
    BY <2>1, <2>2
<1>8. linkedParts' = [i \in Exports |-> linkedParts'[i]]
  BY <1>5 DEF PartsInv
<1> QED
  BY <1>6, <1>7, <1>8 DEF PartsInv

LEMMA PartUploadedParts ==
  ASSUME ExportShape, PartsInv, NEW id \in Exports, NEW i \in DOMAIN uploads[id],
         NEW ok \in BOOLEAN, PartUploaded(id, i, ok)
  PROVE  PartsInv'
<1> DEFINE old == export[id]
           part == uploads[id][i]
           others == RemoveAt(uploads[id], i)
<1>1. Stands(id) /\ ExportRecord(old)
  BY DEF ExportShape
<1>2. old.state = "running" /\ OnItsWay(old) /\ uploads[id] = <<NextPart(old)>>
  BY <1>1 DEF PartsInv, ExportRecord
<1>3. others = <<>> /\ part = NextPart(old)
  BY <1>2, RemoveOnly
<1>4. UNCHANGED <<starting, linkedParts>>
  BY DEF PartUploaded
<1>5. CASE old.v # ofBuild
  <2>1. export' = export /\ uploads' = [uploads EXCEPT ![id] = <<>>]
    BY <1>2, <1>3, <1>5 DEF PartUploaded
  <2>2. \A x : OnItsWay(x)' = OnItsWay(x) /\ NextPart(x)' = NextPart(x) /\ Whole(x)' = Whole(x)
    BY DEF OnItsWay, NextPart, Whole
  <2>3. \A j \in Exports : uploads'[j] \in {uploads[j], <<>>}
    BY <2>1 DEF ExportShape
  <2> QED
    BY <1>4, <2>1, <2>2, <2>3 DEF PartsInv, Stands
<1>6. CASE old.v = ofBuild /\ ok
  <2>1. Advance(id, part, <<>>)
    BY <1>2, <1>3, <1>6 DEF PartUploaded
  <2> DEFINE parts == Recorded(old.parts, part)
             rec == [old EXCEPT !.attempts = 0, !.parts = parts]
             turned == [rec EXCEPT !.cursor = 1, !.phase = "bundle"]
  <2>2. /\ ExportRecord(rec)
        /\ rec.state = "running" /\ rec.parts = parts
        /\ rec.phase = old.phase /\ rec.cursor = old.cursor
    <3> HIDE DEF parts, old
    <3> QED
      BY <1>1, <1>2, RecordUpdates
  <2>3. \/ part = Bundle /\ Finish(id, rec, <<>>, "done")
        \/ part \in 1 .. Pages - 1 /\ Issue(id, [rec EXCEPT !.cursor = part + 1], <<>>)
        \/ part = Pages /\ Issue(id, turned, <<>>)
        \/ part = Pages /\ Finish(id, [rec EXCEPT !.cursor = 1], <<>>, "done")
    BY <2>1 DEF Advance
  <2>4. \/ part = Bundle /\ old.phase = "bundle" /\ parts = Append(AllPages, Bundle)
        \/ part \in 1 .. Pages /\ old.phase = "kv" /\ parts = PagesTo(part)
    <3> HIDE DEF old, part
    <3> QED
      BY <1>2, <1>3, RecordedNext, RecordedBundle, PagesAssumption DEF OnItsWay, NextPart
  <2> HIDE DEF rec, parts, old, part
  <2>5. CASE part = Bundle
    <3>1. Finish(id, rec, <<>>, "done") /\ Whole(rec.parts)
      BY <2>2, <2>3, <2>4, <2>5, PagesAssumption DEF Bundle, Whole
    <3> QED
      BY <1>1, <1>2, <1>4, <2>2, <3>1, PartStep DEF old
  <2>6. CASE part \in 1 .. Pages /\ Issue(id, [rec EXCEPT !.cursor = part + 1], <<>>)
             /\ part \in 1 .. Pages - 1
    <3> DEFINE r == [rec EXCEPT !.cursor = part + 1]
    <3>1. /\ ExportRecord(r) /\ r.state = "running" /\ r.phase = rec.phase
          /\ r.cursor = part + 1 /\ r.parts = rec.parts
      BY <2>2, CursorUpdates
    <3> HIDE DEF r
    <3>2. OnItsWay(r)
      BY <3>1, <2>2, <2>4, <2>6, PagesAssumption DEF OnItsWay, Bundle
    <3>3. Issue(id, r, <<>>)
      BY <2>6 DEF r
    <3> QED
      BY <1>1, <1>2, <1>4, <3>1, <3>2, <3>3, PartStep DEF old
  <2>7. CASE part = Pages /\ Issue(id, turned, <<>>)
    <3>1. /\ ExportRecord(turned) /\ turned.state = "running" /\ turned.phase = "bundle"
          /\ turned.parts = rec.parts
      BY <2>2, CursorUpdates
    <3> HIDE DEF turned
    <3>2. OnItsWay(turned)
      BY <3>1, <2>2, <2>4, <2>7, PagesAssumption DEF OnItsWay, Bundle
    <3> QED
      BY <1>1, <1>2, <1>4, <2>7, <3>1, <3>2, PartStep DEF old
  <2>8. CASE part = Pages /\ Finish(id, [rec EXCEPT !.cursor = 1], <<>>, "done")
    <3> DEFINE r == [rec EXCEPT !.cursor = 1]
    <3>1. ExportRecord(r) /\ r.state = "running" /\ r.parts = rec.parts
      BY <2>2, CursorUpdates
    <3> HIDE DEF r
    <3>2. Whole(r.parts)
      BY <3>1, <2>2, <2>4, <2>8, PagesAssumption DEF Whole, Bundle, PagesTo, AllPages
    <3>3. Finish(id, r, <<>>, "done")
      BY <2>8 DEF r
    <3> QED
      BY <1>1, <1>2, <1>4, <3>1, <3>2, <3>3, PartStep DEF old
  <2> QED
    BY <2>3, <2>5, <2>6, <2>7, <2>8, PagesAssumption
<1>7. CASE old.v = ofBuild /\ ~ok
  <2> DEFINE rec == Failed(old)
  <2>1. Finish(id, rec, <<>>, "failed") \/ Issue(id, rec, <<>>)
    BY <1>2, <1>3, <1>7 DEF PartUploaded
  <2>2. /\ ExportRecord(rec) /\ rec.state = "running" /\ rec.phase = old.phase
        /\ rec.cursor = old.cursor /\ rec.parts = old.parts
    BY <1>1, <1>2 DEF Failed, ExportRecord
  <2> HIDE DEF rec
  <2>3. OnItsWay(rec)
    BY <1>2, <2>2 DEF OnItsWay
  <2> QED
    BY <1>1, <1>2, <1>4, <2>1, <2>2, <2>3, PartStep
<1> QED
  BY <1>5, <1>6, <1>7

LEMMA WakeExportParts ==
  ASSUME ExportShape, PartsInv, MaxUploads = 1, NEW id \in Exports, WakeExport(id)
  PROVE  PartsInv'
<1>1. Stands(id) /\ ExportRecord(export[id]) /\ UNCHANGED <<starting, linkedParts>>
  BY DEF ExportShape, WakeExport
<1>2. CASE export[id].state = "running" /\ export[id].v = ofBuild
  <2>1. Len(uploads[id]) < 1 /\ Issue(id, export[id], uploads[id])
    BY <1>2 DEF WakeExport
  <2>2. OnItsWay(export[id]) /\ uploads[id] \in {<<>>, <<NextPart(export[id])>>}
    BY <1>1, <1>2 DEF PartsInv
  <2>3. uploads[id] = <<>>
    BY <2>1, <2>2
  <2> QED
    BY <1>1, <1>2, <2>1, <2>2, <2>3, PartStep
<1>3. CASE ~(export[id].state = "running" /\ export[id].v = ofBuild)
  <2>1. export' = export /\ uploads' = uploads
    BY <1>3 DEF WakeExport
  <2> QED
    BY <1>1, <2>1 DEF PartsInv, Stands, OnItsWay, NextPart, Whole
<1> QED
  BY <1>2, <1>3

LEMMA StartRowsParts ==
  ASSUME ExportShape, PartsInv, NEW id \in Exports, StartRows(id)
  PROVE  PartsInv'
<1> DEFINE rec == [v |-> ofBuild, state |-> "running", attempts |-> 0, parts |-> <<>>,
                   cursor |-> 1, phase |-> "kv"]
<1>1. /\ export' = [export EXCEPT ![id] = rec] /\ uploads' = uploads /\ linkedParts' = linkedParts
      /\ starting' = starting \ {id}
  BY DEF StartRows
<1>2. ~Stands(id) /\ uploads[id] = <<>> /\ linkedParts[id] = <<>>
  BY DEF StartRows, PartsInv, ExportShape, Stands, NoExport
<1>3. rec.state = "running" /\ OnItsWay(rec)
  <2>1. PagesTo(0) = <<>>
    BY DEF PagesTo
  <2> QED
    BY <2>1, PagesAssumption DEF OnItsWay
<1> HIDE DEF rec
<1>4. /\ export'[id] = rec
      /\ \A j \in Exports : j # id => export'[j] = export[j]
  BY <1>1 DEF ExportShape
<1>5. \A x : OnItsWay(x)' = OnItsWay(x) /\ NextPart(x)' = NextPart(x) /\ Whole(x)' = Whole(x)
  BY DEF OnItsWay, NextPart, Whole
<1>6. ASSUME NEW i \in Exports
      PROVE  /\ i \in starting' => ~Stands(i)'
             /\ export'[i].state # "done" => linkedParts'[i] = <<>>
             /\ linkedParts'[i] \in {<<>>, export'[i].parts}
             /\ Stands(i)' => CASE export'[i].state = "running" ->
                                     /\ OnItsWay(export'[i])
                                     /\ uploads'[i] \in {<<>>, <<NextPart(export'[i])>>}
                                [] export'[i].state = "done" ->
                                     Whole(export'[i].parts) /\ uploads'[i] = <<>>
                                [] OTHER -> uploads'[i] = <<>>
  <2>1. CASE i = id
    BY <2>1, <1>1, <1>2, <1>3, <1>4
  <2>2. CASE i # id
    BY <2>2, <1>1, <1>4 DEF PartsInv, Stands
  <2> QED
    BY <2>1, <2>2
<1> QED
  BY <1>1, <1>5, <1>6 DEF PartsInv

LEMMA PartsRest ==
  ASSUME ExportShape, PartsInv,
         \/ \E id \in Exports : StartExport(id) \/ GetExportLinks(id)
         \/ Redeploy \/ Outage \/ UNCHANGED exportVars
  PROVE  PartsInv'
<1>1. export' = export
  BY DEF StartExport, GetExportLinks, Redeploy, Outage, exportVars
<1>2. \A x : OnItsWay(x)' = OnItsWay(x) /\ NextPart(x)' = NextPart(x) /\ Whole(x)' = Whole(x)
  BY DEF OnItsWay, NextPart, Whole
<1>3. \A i \in Exports : uploads'[i] \in {uploads[i], <<>>} /\ Stands(i)' = Stands(i)
  BY <1>1 DEF StartExport, GetExportLinks, Redeploy, Outage, exportVars, Stands
<1>4. \A i \in Exports : i \in starting' => i \in starting \/ ~Stands(i)
  BY DEF StartExport, GetExportLinks, Redeploy, Outage, exportVars
<1>5. /\ linkedParts' = [i \in Exports |-> linkedParts'[i]]
      /\ \A i \in Exports : \/ linkedParts'[i] = linkedParts[i]
                            \/ export[i].state = "done" /\ linkedParts'[i] = export[i].parts
  BY DEF StartExport, GetExportLinks, Redeploy, Outage, exportVars, PartsInv
<1> QED
  BY <1>1, <1>2, <1>3, <1>4, <1>5 DEF PartsInv

LEMMA PartsStart == ExportsInit => PartsInv
  BY DEF ExportsInit, PartsInv, Stands, NoExport

LEMMA PartsKeep ==
  ASSUME ExportShape, PartsInv, MaxUploads = 1, [ExportsNext]_exportVars
  PROVE  PartsInv'
<1>1. CASE \E id \in Exports : StartRows(id)
  BY <1>1, StartRowsParts
<1>2. CASE \E id \in Exports : WakeExport(id)
  BY <1>2, WakeExportParts
<1>3. CASE \E id \in Exports : \E i \in DOMAIN uploads[id], ok \in BOOLEAN :
             PartUploaded(id, i, ok)
  BY <1>3, PartUploadedParts
<1>4. CASE \/ \E id \in Exports : StartExport(id) \/ GetExportLinks(id)
           \/ Redeploy \/ Outage \/ UNCHANGED exportVars
  BY <1>4, PartsRest
<1> QED
  BY <1>1, <1>2, <1>3, <1>4 DEF ExportsNext

(* If one upload of an export ends before the next is issued, an export    *)
(* that is done holds every page of the store once and in order, whatever  *)
(* failed, crashed or was started beside it.                               *)
THEOREM ExportsAreComplete ==
  ASSUME MaxUploads = 1 PROVE ExportsSpec => []ExportIsComplete
<1>1. ExportShape /\ PartsInv /\ [ExportsNext]_exportVars => (ExportShape /\ PartsInv)'
  BY ExportsKeep, PartsKeep
<1>2. ExportShape /\ PartsInv => ExportIsComplete
  <2> SUFFICES ASSUME ExportShape, PartsInv, NEW id \in Exports
               PROVE  /\ export[id].state = "done" => Whole(export[id].parts)
                      /\ linkedParts[id] # <<>> => linkedParts[id] = export[id].parts
    BY DEF ExportIsComplete, Whole
  <2> QED
    BY StateOfStanding DEF PartsInv
<1> QED
  BY <1>1, <1>2, ShapeStart, PartsStart, PTL DEF ExportsSpec

-----------------------------------------------------------------------------
(* Blobs.  A put under way for a chain carries what the chain sealed, and  *)
(* an answer that reports success is about an object that can be served,   *)
(* however often it is repeated and whatever else is put.                  *)

Recipe == [state : {"none", "open", "sealed"}, rows : Seq(Bytes)]

ChainTypes ==
    /\ recipe \in [Chains -> Recipe] /\ onCalls \in [Chains -> Nat]
    /\ sealedAs \in [Chains -> Seq(Bytes) \cup {NotSealed}]

OpenUntilSealed ==
    \A c \in Chains : sealedAs[c] = NotSealed => onCalls[c] = 0 /\ recipe[c].state # "sealed"

CarriesSeal(p) ==
    p.on = "blob_compose_onresult" =>
        p.ctx \in Chains /\ sealedAs[p.ctx] # NotSealed /\ p.object = sealedAs[p.ctx]

PutsCarrySeals ==
    /\ \A p \in storing : CarriesSeal(p)
    /\ \A a \in settled \cup handoffs : CarriesSeal(a.put)

AnswersAreTrue == \A a \in settled \cup handoffs : a.ok => a.put.object \in stored

(* What SealIsKept says of a chain that sealed.                            *)
Kept(c) ==
    /\ onCalls[c] = 0 => recipe[c] = [state |-> "sealed", rows |-> sealedAs[c]]
    /\ onCalls[c] # 0 => onCalls[c] = 1 /\ recipe[c] = NoRecipe
    /\ sealedAs[c] \in pending \cup stored
    /\ onCalls[c] = 1 => sealedAs[c] \in stored

SealInv == ChainTypes /\ OpenUntilSealed /\ PutsCarrySeals /\ AnswersAreTrue
           /\ \A c \in Chains : sealedAs[c] # NotSealed => Kept(c)

LEMMA KeptIsKept == (\A c \in Chains : sealedAs[c] # NotSealed => Kept(c)) => SealIsKept
  BY Zenon DEF Kept, SealIsKept

LEMMA NotSealedShape == 1 \in 1 .. Len(NotSealed) /\ NotSealed[1] = "not sealed"
  BY DEF NotSealed

LEMMA NotSealedIsNone == NotSealed \notin Seq(Bytes)
<1> SUFFICES ASSUME NotSealed \in Seq(Bytes) PROVE FALSE
  OBVIOUS
<1>1. 1 \in 1 .. Len(NotSealed) /\ NotSealed[1] = "not sealed"
  BY NotSealedShape
<1>2. NotSealed[1] \in Bytes
  BY <1>1, ElementOfSeq
<1> QED
  BY <1>1, <1>2, BytesAssumption

LEMMA NoRecipeIsRecipe == NoRecipe \in Recipe /\ NoRecipe.state = "none"
<1>1. <<>> \in Seq(Bytes)
  BY EmptySeq
<1> QED
  BY <1>1 DEF NoRecipe, Recipe

LEMMA SealStart == BlobsInit => SealInv
<1> SUFFICES ASSUME BlobsInit PROVE SealInv
  OBVIOUS
<1>1. ChainTypes /\ OpenUntilSealed
  BY NoRecipeIsRecipe DEF BlobsInit, ChainTypes, OpenUntilSealed
<1>2. PutsCarrySeals /\ AnswersAreTrue /\ \A c \in Chains : sealedAs[c] = NotSealed
  BY DEF BlobsInit, PutsCarrySeals, AnswersAreTrue
<1> QED
  BY <1>1, <1>2 DEF SealInv

(* A step that leaves the chains alone.                                    *)
LEMMA ChainsAlone ==
  ASSUME SealInv, UNCHANGED <<recipe, onCalls, sealedAs>>, pending' = pending,
         stored \subseteq stored', AnswersAreTrue',
         \A p \in storing' : CarriesSeal(p),
         \A a \in settled' \cup handoffs' : CarriesSeal(a.put)
  PROVE  SealInv'
<1>1. PutsCarrySeals'
  BY DEF PutsCarrySeals, CarriesSeal
<1>2. \A c \in Chains : sealedAs'[c] # NotSealed => Kept(c)'
  BY DEF SealInv, Kept
<1> QED
  BY <1>1, <1>2 DEF SealInv, ChainTypes, OpenUntilSealed

LEMMA WriteKeepsSeals ==
  ASSUME SealInv, NEW c \in Chains, NEW b \in Bytes, WriteBlob(c, b)
  PROVE  SealInv'
<1>1. /\ sealedAs[c] = NotSealed /\ recipe[c] \in Recipe
      /\ recipe' = [recipe EXCEPT ![c] = [state |-> "open", rows |-> Append(@.rows, b)]]
      /\ UNCHANGED <<pending, stored, storing, settled, handoffs, sealedAs, onCalls>>
  BY DEF WriteBlob, SealInv, ChainTypes
<1>2. [state |-> "open", rows |-> Append(recipe[c].rows, b)] \in Recipe
  <2>1. recipe[c].rows \in Seq(Bytes)
    BY <1>1 DEF Recipe
  <2>2. Append(recipe[c].rows, b) \in Seq(Bytes)
    BY <2>1, AppendProperties
  <2> QED
    BY <2>2 DEF Recipe
<1>3. ChainTypes' /\ \A d \in Chains : d # c => recipe'[d] = recipe[d]
  BY <1>1, <1>2 DEF SealInv, ChainTypes
<1>4. recipe'[c].state = "open"
  BY <1>1 DEF SealInv, ChainTypes
<1>5. OpenUntilSealed'
  BY <1>1, <1>3, <1>4 DEF SealInv, OpenUntilSealed
<1>6. PutsCarrySeals' /\ AnswersAreTrue'
  BY <1>1 DEF SealInv, PutsCarrySeals, CarriesSeal, AnswersAreTrue
<1>7. \A d \in Chains : sealedAs'[d] # NotSealed => Kept(d)'
  BY <1>1, <1>3 DEF SealInv, Kept
<1> QED
  BY <1>3, <1>5, <1>6, <1>7 DEF SealInv

(* The recipe is sealed as what was written, and its hash is pending.      *)
LEMMA SealKeepsSeals ==
  ASSUME SealInv, NEW c \in Chains, SealBlob(c)
  PROVE  SealInv'
<1> DEFINE rows == recipe[c].rows
<1>1. /\ sealedAs[c] = NotSealed /\ recipe[c] \in Recipe
      /\ recipe' = [recipe EXCEPT ![c].state = "sealed"]
      /\ pending' = pending \cup {rows}
      /\ sealedAs' = [sealedAs EXCEPT ![c] = rows]
      /\ UNCHANGED <<stored, storing, settled, handoffs, onCalls>>
  BY DEF SealBlob, SealInv, ChainTypes
<1>2. rows \in Seq(Bytes)
  BY <1>1 DEF Recipe
<1>3. rows # NotSealed
  BY <1>2, NotSealedIsNone
<1>4. recipe'[c] = [state |-> "sealed", rows |-> rows]
  BY <1>1 DEF SealInv, ChainTypes, Recipe
<1>5. /\ sealedAs'[c] = rows
      /\ \A d \in Chains : d # c => recipe'[d] = recipe[d] /\ sealedAs'[d] = sealedAs[d]
  BY <1>1 DEF SealInv, ChainTypes
<1>6. onCalls[c] = 0
  BY <1>1 DEF SealInv, OpenUntilSealed
<1> HIDE DEF rows
<1>7. [state |-> "sealed", rows |-> rows] \in Recipe
  BY <1>2 DEF Recipe
<1>8. ChainTypes'
  <2>1. recipe' = [recipe EXCEPT ![c] = [state |-> "sealed", rows |-> rows]]
    BY <1>1, <1>4 DEF SealInv, ChainTypes
  <2> QED
    BY <1>1, <1>2, <1>7, <2>1 DEF SealInv, ChainTypes
<1>9. OpenUntilSealed'
  BY <1>1, <1>3, <1>5 DEF SealInv, OpenUntilSealed
<1>10. PutsCarrySeals' /\ AnswersAreTrue'
  BY <1>1, <1>5 DEF SealInv, PutsCarrySeals, CarriesSeal, AnswersAreTrue
<1>11. ASSUME NEW d \in Chains, sealedAs'[d] # NotSealed
       PROVE  Kept(d)'
  <2>1. CASE d = c
    BY <1>1, <1>4, <1>5, <1>6, <2>1 DEF Kept
  <2>2. CASE d # c
    BY <1>1, <1>5, <1>11, <2>2 DEF SealInv, Kept
  <2> QED
    BY <2>1, <2>2
<1> QED
  BY <1>8, <1>9, <1>10, <1>11 DEF SealInv

(* The composed object is what the chain sealed.                           *)
LEMMA ComposeKeepsSeals ==
  ASSUME SealInv, NEW c \in Chains, BlobCompose(c)
  PROVE  SealInv'
<1>1. UNCHANGED <<recipe, onCalls, sealedAs, pending, stored, settled, handoffs>>
  BY DEF BlobCompose
<1>2. \A p \in storing' : CarriesSeal(p)
  <2>1. CASE recipe[c].state = "sealed"
    <3>1. sealedAs[c] # NotSealed
      BY <2>1 DEF SealInv, OpenUntilSealed
    <3>2. recipe[c] # NoRecipe
      BY <2>1, NoRecipeIsRecipe
    <3>3. recipe[c].rows = sealedAs[c]
      <4>1. Kept(c)
        BY <3>1 DEF SealInv
      <4>2. recipe[c] = [state |-> "sealed", rows |-> sealedAs[c]]
        BY <3>2, <4>1 DEF Kept
      <4> QED
        BY <4>2
    <3> DEFINE put == [object |-> recipe[c].rows, on |-> "blob_compose_onresult", ctx |-> c]
    <3>4. storing' = storing \cup {put}
      BY <2>1 DEF BlobCompose, Put
    <3>5. CarriesSeal(put)
      BY <3>1, <3>3 DEF CarriesSeal
    <3> QED
      BY <3>4, <3>5 DEF SealInv, PutsCarrySeals
  <2>2. CASE recipe[c].state # "sealed"
    BY <2>2 DEF BlobCompose, SealInv, PutsCarrySeals
  <2> QED
    BY <2>1, <2>2
<1>3. \A a \in settled' \cup handoffs' : CarriesSeal(a.put)
  BY <1>1 DEF SealInv, PutsCarrySeals
<1>4. AnswersAreTrue'
  BY <1>1 DEF SealInv, AnswersAreTrue
<1> QED
  BY <1>1, <1>2, <1>3, <1>4, ChainsAlone

(* The object has its bytes, so the chain may be told and the recipe go:   *)
(* a second answer finds no recipe.                                        *)
LEMMA ResultKeepsSeals ==
  ASSUME SealInv, NEW a \in handoffs, ComposeOnResult(a)
  PROVE  SealInv'
<1> DEFINE c == a.put.ctx
<1>1. /\ a.put.on = "blob_compose_onresult" /\ handoffs' = handoffs \ {a}
      /\ UNCHANGED <<stored, storing, settled, sealedAs>>
  BY DEF ComposeOnResult
<1>2. c \in Chains /\ sealedAs[c] # NotSealed /\ a.put.object = sealedAs[c]
  BY <1>1 DEF SealInv, PutsCarrySeals, CarriesSeal
<1>3. /\ AnswersAreTrue' /\ \A p \in storing' : CarriesSeal(p)
      /\ \A x \in settled' \cup handoffs' : CarriesSeal(x.put)
  BY <1>1 DEF SealInv, AnswersAreTrue, PutsCarrySeals
<1>6. a.ok => sealedAs[c] \in stored
  BY <1>2 DEF SealInv, AnswersAreTrue
<1>7. IF a.ok /\ recipe[c] # NoRecipe
      THEN /\ recipe' = [recipe EXCEPT ![c] = NoRecipe]
           /\ pending' = pending \ {sealedAs[c]}
           /\ onCalls' = [onCalls EXCEPT ![c] = @ + 1]
      ELSE UNCHANGED <<recipe, pending, onCalls>>
  BY <1>2 DEF ComposeOnResult, Is2xx
<1> HIDE DEF c
<1>4. CASE a.ok /\ recipe[c] # NoRecipe
  <2>1. /\ recipe' = [recipe EXCEPT ![c] = NoRecipe]
        /\ pending' = pending \ {sealedAs[c]}
        /\ onCalls' = [onCalls EXCEPT ![c] = @ + 1]
    BY <1>4, <1>7
  <2>2. onCalls[c] = 0 /\ sealedAs[c] \in stored
    BY <1>2, <1>4, <1>6 DEF SealInv, Kept
  <2>3. NoRecipe \in Recipe /\ NoRecipe.state # "sealed"
    BY NoRecipeIsRecipe
  <2>4. ChainTypes'
    BY <1>1, <1>2, <2>1, <2>3 DEF SealInv, ChainTypes
  <2>5. /\ onCalls'[c] = 1 /\ recipe'[c] = NoRecipe
        /\ \A d \in Chains : d # c => recipe'[d] = recipe[d] /\ onCalls'[d] = onCalls[d]
    BY <1>2, <2>1, <2>2 DEF SealInv, ChainTypes
  <2>6. OpenUntilSealed'
    BY <1>1, <1>2, <2>5 DEF SealInv, OpenUntilSealed
  <2>7. ASSUME NEW d \in Chains, sealedAs'[d] # NotSealed
        PROVE  Kept(d)'
    <3>1. CASE d = c
      BY <1>1, <2>2, <2>5, <3>1 DEF Kept
    <3>2. CASE d # c
      <4>1. Kept(d) /\ sealedAs'[d] = sealedAs[d] /\ stored' = stored
        BY <1>1, <2>7 DEF SealInv
      <4>2. sealedAs[d] \in pending' \cup stored'
        BY <2>1, <2>2, <4>1 DEF Kept
      <4> QED
        BY <2>5, <3>2, <4>1, <4>2 DEF Kept
    <3> QED
      BY <3>1, <3>2
  <2>8. PutsCarrySeals'
    BY <1>1, <1>3 DEF PutsCarrySeals, CarriesSeal
  <2> QED
    BY <1>3, <2>4, <2>6, <2>7, <2>8 DEF SealInv
<1>5. CASE ~(a.ok /\ recipe[c] # NoRecipe)
  BY <1>1, <1>3, <1>5, <1>7, ChainsAlone
<1> QED
  BY <1>4, <1>5

LEMMA SealsKeep == SealInv /\ [BlobsNext]_blobVars => SealInv'
<1> SUFFICES ASSUME SealInv, [BlobsNext]_blobVars
             PROVE  SealInv'
  OBVIOUS
<1>1. CASE \E object \in BoundedSeq(Bytes, 1) : CustomerPut(object)
  <2>1. PICK object : CustomerPut(object)
    BY <1>1
  <2> DEFINE put == [object |-> object, on |-> "customer", ctx |-> 0]
  <2>2. /\ storing' = storing \cup {put}
        /\ UNCHANGED <<recipe, onCalls, sealedAs, pending, stored, settled, handoffs>>
    BY <2>1 DEF CustomerPut, Put
  <2>3. CarriesSeal(put)
    BY DEF CarriesSeal
  <2> HIDE DEF put
  <2> QED
    BY <2>2, <2>3, ChainsAlone DEF SealInv, PutsCarrySeals, AnswersAreTrue
<1>2. CASE \E c \in Chains, b \in Bytes : WriteBlob(c, b)
  BY <1>2, WriteKeepsSeals
<1>3. CASE \E c \in Chains : SealBlob(c)
  BY <1>3, SealKeepsSeals
<1>4. CASE \E c \in Chains : Materialize(c)
  BY <1>4, ChainsAlone DEF Materialize, SealInv, PutsCarrySeals, AnswersAreTrue
<1>5. CASE \E c \in Chains : BlobCompose(c)
  BY <1>5, ComposeKeepsSeals
<1>6. CASE \E put \in storing : Stores(put)
  <2>1. PICK put \in storing : Stores(put)
    BY <1>6
  <2>2. PICK ok \in BOOLEAN :
          /\ settled' = settled \cup {[put |-> put, ok |-> ok]}
          /\ stored \subseteq stored' /\ (ok => put.object \in stored')
    BY <2>1 DEF Stores
  <2>3. storing' = storing \ {put} /\ UNCHANGED <<recipe, onCalls, sealedAs, pending, handoffs>>
    BY <2>1 DEF Stores
  <2>4. \A a \in settled' \cup handoffs' :
          CarriesSeal(a.put) /\ (a.ok => a.put.object \in stored')
    <3>1. \A a \in settled \cup handoffs :
            CarriesSeal(a.put) /\ (a.ok => a.put.object \in stored')
      BY <2>2 DEF SealInv, PutsCarrySeals, AnswersAreTrue
    <3>2. CarriesSeal(put)
      BY DEF SealInv, PutsCarrySeals
    <3> DEFINE answer == [put |-> put, ok |-> ok]
    <3>3. CarriesSeal(answer.put) /\ (answer.ok => answer.put.object \in stored')
      BY <2>2, <3>2
    <3>4. settled' = settled \cup {answer}
      BY <2>2
    <3> HIDE DEF answer
    <3> QED
      BY <2>3, <3>1, <3>3, <3>4
  <2>5. \A p \in storing' : CarriesSeal(p)
    BY <2>3 DEF SealInv, PutsCarrySeals
  <2> QED
    BY <2>2, <2>3, <2>4, <2>5, ChainsAlone DEF AnswersAreTrue
<1>7. CASE \E a \in settled : BlobOnResult(a)
  <2>1. PICK a \in settled : BlobOnResult(a)
    BY <1>7
  <2>2. /\ settled' \subseteq settled /\ handoffs' \subseteq handoffs \cup {a}
        /\ UNCHANGED <<recipe, onCalls, sealedAs, pending, stored, storing>>
    BY <2>1 DEF BlobOnResult
  <2> QED
    BY <2>2, ChainsAlone DEF SealInv, PutsCarrySeals, AnswersAreTrue
<1>8. CASE \E a \in handoffs : ComposeOnResult(a)
  BY <1>8, ResultKeepsSeals
<1>9. CASE \E a \in handoffs : SegmentsOnSealed(a)
  BY <1>9, ChainsAlone DEF SegmentsOnSealed, SealInv, PutsCarrySeals, AnswersAreTrue
<1>10. CASE AppendRecord
  BY <1>10, ChainsAlone DEF AppendRecord, SealInv, PutsCarrySeals, AnswersAreTrue
<1>11. CASE \E last \in hot : SealSegment(last)
  <2>1. PICK last \in hot : SealSegment(last)
    BY <1>11
  <2> DEFINE put == [object |-> <<Min(hot), last>>, on |-> "segments_onsealed", ctx |-> 0]
  <2>2. /\ storing' = storing \cup {put}
        /\ UNCHANGED <<recipe, onCalls, sealedAs, pending, stored, settled, handoffs>>
    BY <2>1 DEF SealSegment, Put
  <2>3. CarriesSeal(put)
    BY DEF CarriesSeal
  <2> HIDE DEF put
  <2> QED
    BY <2>2, <2>3, ChainsAlone DEF SealInv, PutsCarrySeals, AnswersAreTrue
<1>12. CASE LoseCalls
  BY <1>12, ChainsAlone DEF LoseCalls, SealInv, AnswersAreTrue
<1>13. CASE UNCHANGED blobVars
  BY <1>13, ChainsAlone DEF blobVars, SealInv, PutsCarrySeals, AnswersAreTrue
<1> QED
  BY <1>1, <1>2, <1>3, <1>4, <1>5, <1>6, <1>7, <1>8, <1>9, <1>10, <1>11, <1>12, <1>13 DEF BlobsNext

(* What a chain sealed is whole until it can be served, and its `on` is    *)
(* activated once, whatever failed, was repeated or was lost on the way.   *)
THEOREM SealIsAlwaysKept == BlobsSpec => []SealIsKept
<1>1. SealInv => SealIsKept
  BY KeptIsKept DEF SealInv
<1> QED
  BY <1>1, SealStart, SealsKeep, PTL DEF BlobsSpec

(* The log.  A segment under way, of which there may be several, holds     *)
(* records of the log, of the oldest one on that was hot when it began; no *)
(* row of the index reaches past the log.                                  *)

UnderSeal(p) ==
    /\ p.on = "segments_onsealed"
    /\ p \in storing \/ \E a \in settled \cup handoffs : p = a.put

LogTypes ==
    /\ appended \in Nat /\ appended <= MaxRecords /\ hot \subseteq 1 .. appended
    /\ index \in [1 .. MaxRecords -> Nat]
    /\ \A f \in 1 .. MaxRecords : index[f] <= appended

Fits(object) == \E f, l \in 1 .. appended : f <= l /\ object = <<f, l>>

LogInv ==
    /\ LogTypes /\ RecordsSurvive
    /\ \A p : UnderSeal(p) => Fits(p.object)

LEMMA LogStart == BlobsInit => LogInv
  BY RecordsAssumption DEF BlobsInit, LogInv, LogTypes, UnderSeal, RecordsSurvive

LEMMA OldestIsHot ==
  ASSUME hot \subseteq Nat, NEW last \in hot
  PROVE  Min(hot) \in hot /\ Min(hot) <= last
<1> DEFINE below == OpToRel(<, Nat)
<1>1. \E x \in hot : \A y \in hot : ~(<<y, x>> \in below)
  BY NatLessThanWellFounded, WFMin
<1>2. \E x \in hot : \A y \in hot : x =< y
  <2>1. \A x, y \in Nat : <<y, x>> \in below <=> y < x
    BY DEF OpToRel
  <2> HIDE DEF below
  <2>2. PICK x \in hot : \A y \in hot : ~(<<y, x>> \in below)
    BY <1>1
  <2>3. \A y \in hot : y \in Nat /\ x \in Nat /\ ~(y < x)
    BY <2>1, <2>2
  <2>4. \A y \in hot : x =< y
    BY <2>3
  <2> QED
    BY <2>4
<1> QED
  BY <1>2 DEF Min

(* A step that leaves the log alone and begins no segment.                 *)
LEMMA LogAlone ==
  ASSUME LogInv, UNCHANGED <<hot, index, appended>>, stored \subseteq stored',
         \A p : UnderSeal(p)' => UnderSeal(p)
  PROVE  LogInv'
<1>1. LogTypes'
  BY DEF LogInv, LogTypes
<1>2. RecordsSurvive'
  BY DEF LogInv, RecordsSurvive
<1>3. \A p : UnderSeal(p)' => Fits(p.object)'
  BY DEF LogInv, Fits
<1> QED
  BY <1>1, <1>2, <1>3 DEF LogInv

(* A segment begins at the oldest hot record, and ends at a hot one.       *)
LEMMA SealSegmentKeepsLog ==
  ASSUME LogInv, NEW last \in hot, SealSegment(last)
  PROVE  LogInv'
<1> DEFINE put == [object |-> <<Min(hot), last>>, on |-> "segments_onsealed", ctx |-> 0]
<1>1. storing' = storing \cup {put} /\ UNCHANGED <<stored, settled, handoffs, hot, index, appended>>
  BY DEF SealSegment, Put
<1>2. \A p : UnderSeal(p)' => UnderSeal(p) \/ p = put
  BY <1>1 DEF UnderSeal
<1>3. Min(hot) \in hot /\ Min(hot) <= last
  BY OldestIsHot DEF LogInv, LogTypes
<1>4. Fits(put.object)
  BY <1>3 DEF Fits, LogInv, LogTypes
<1> HIDE DEF put
<1>5. \A p : UnderSeal(p)' => Fits(p.object)'
  BY <1>1, <1>2, <1>4 DEF Fits, LogInv
<1>6. LogTypes' /\ RecordsSurvive'
  BY <1>1 DEF LogInv, LogTypes, RecordsSurvive
<1> QED
  BY <1>5, <1>6 DEF LogInv

(* The records that a stored segment holds are removed from the hot ones,  *)
(* and its row may replace that of another segment.                        *)
LEMMA OnSealedKeepsLog ==
  ASSUME SealInv, LogInv, NEW a \in handoffs, SegmentsOnSealed(a)
  PROVE  LogInv'
<1>1. /\ a.put.on = "segments_onsealed" /\ handoffs' = handoffs \ {a}
      /\ UNCHANGED <<stored, storing, settled, appended>>
  BY DEF SegmentsOnSealed
<1>2. \A p : UnderSeal(p)' => UnderSeal(p)
  BY <1>1 DEF UnderSeal
<1>3. CASE ~a.ok
  BY <1>1, <1>2, <1>3, LogAlone DEF SegmentsOnSealed, Is2xx
<1>4. CASE a.ok
  <2>1. PICK f \in 1 .. appended, l \in 1 .. appended : f <= l /\ a.put.object = <<f, l>>
    BY <1>1 DEF LogInv, UnderSeal, Fits
  <2>2. index' = [index EXCEPT ![f] = l] /\ hot' = hot \ (f .. l)
    BY <1>4, <2>1 DEF SegmentsOnSealed, Is2xx
  <2>3. <<f, l>> \in stored
    BY <1>4, <2>1 DEF SealInv, AnswersAreTrue
  <2>4. f \in 1 .. MaxRecords /\ l \in 1 .. MaxRecords
    BY <2>1, RecordsAssumption DEF LogInv, LogTypes
  <2>5. index'[f] = l /\ \A g \in 1 .. MaxRecords : g # f => index'[g] = index[g]
    BY <2>2, <2>4 DEF LogInv, LogTypes
  <2>6. LogTypes'
    BY <1>1, <2>1, <2>2, <2>4 DEF LogInv, LogTypes
  <2>7. \A n \in 1 .. appended :
          n \in hot' \/ \E g \in 1 .. n, h \in n .. MaxRecords : <<g, h>> \in stored
    <3> SUFFICES ASSUME NEW n \in 1 .. appended, n \notin hot'
                 PROVE  \E g \in 1 .. n, h \in n .. MaxRecords : <<g, h>> \in stored
      OBVIOUS
    <3>1. CASE n \in hot
      <4>1. f \in 1 .. n /\ l \in n .. MaxRecords
        BY <2>2, <2>4, <3>1
      <4> QED
        BY <2>3, <4>1
    <3>2. CASE n \notin hot
      BY <3>2 DEF LogInv, RecordsSurvive
    <3> QED
      BY <3>1, <3>2
  <2>8. \A g \in 1 .. MaxRecords : index'[g] # 0 =>
          <<g, index'[g]>> \in stored /\ hot' \cap (g .. index'[g]) = {}
    <3> SUFFICES ASSUME NEW g \in 1 .. MaxRecords, index'[g] # 0
                 PROVE  <<g, index'[g]>> \in stored /\ hot' \cap (g .. index'[g]) = {}
      OBVIOUS
    <3>1. CASE g = f
      BY <2>2, <2>3, <2>5, <3>1
    <3>2. CASE g # f
      <4>1. index'[g] = index[g] /\ g \in DOMAIN index
        BY <2>5, <3>2 DEF LogInv, LogTypes
      <4>2. <<g, index[g]>> \in stored /\ hot \cap (g .. index[g]) = {}
        BY <4>1 DEF LogInv, RecordsSurvive
      <4> QED
        BY <2>2, <4>1, <4>2
    <3> QED
      BY <3>1, <3>2
  <2>9. DOMAIN index' = 1 .. MaxRecords
    BY <2>6 DEF LogTypes
  <2>10. RecordsSurvive'
    BY <1>1, <2>7, <2>8, <2>9 DEF RecordsSurvive
  <2>11. \A p : UnderSeal(p)' => Fits(p.object)'
    BY <1>1, <1>2 DEF LogInv, Fits
  <2> QED
    BY <2>6, <2>10, <2>11 DEF LogInv
<1> QED
  BY <1>3, <1>4

LEMMA AppendKeepsLog ==
  ASSUME LogInv, AppendRecord
  PROVE  LogInv'
<1>1. /\ appended' = appended + 1 /\ hot' = hot \cup {appended + 1} /\ appended < MaxRecords
      /\ UNCHANGED <<stored, storing, settled, handoffs, index>>
  BY DEF AppendRecord
<1>2. appended + 1 \in 1 .. MaxRecords
  BY <1>1, RecordsAssumption DEF LogInv, LogTypes
<1>3. LogTypes'
  <2>1. /\ appended' \in Nat /\ appended' <= MaxRecords /\ hot' \subseteq 1 .. appended'
        /\ index' \in [1 .. MaxRecords -> Nat]
    BY <1>1, <1>2 DEF LogInv, LogTypes
  <2>2. \A f \in 1 .. MaxRecords : index'[f] <= appended'
    <3> SUFFICES ASSUME NEW f \in 1 .. MaxRecords PROVE index[f] <= appended + 1
      BY <1>1
    <3>1. index[f] \in Nat /\ index[f] <= appended /\ appended \in Nat
      BY DEF LogInv, LogTypes
    <3> QED
      BY <3>1
  <2> QED
    BY <2>1, <2>2 DEF LogTypes
<1>4. \A n \in 1 .. appended + 1 :
        n \in hot' \/ \E g \in 1 .. n, h \in n .. MaxRecords : <<g, h>> \in stored
  BY <1>1 DEF LogInv, LogTypes, RecordsSurvive
<1>5. \A g \in DOMAIN index : index[g] # 0 =>
        <<g, index[g]>> \in stored /\ hot' \cap (g .. index[g]) = {}
  <2> SUFFICES ASSUME NEW g \in DOMAIN index, index[g] # 0
               PROVE  <<g, index[g]>> \in stored /\ hot' \cap (g .. index[g]) = {}
    OBVIOUS
  <2>1. <<g, index[g]>> \in stored /\ hot \cap (g .. index[g]) = {}
    BY DEF LogInv, RecordsSurvive
  <2>2. appended + 1 \notin g .. index[g]
    BY DEF LogInv, LogTypes
  <2> QED
    BY <1>1, <2>1, <2>2
<1>6. RecordsSurvive'
  BY <1>1, <1>4, <1>5 DEF RecordsSurvive
<1>7. \A p : UnderSeal(p)' => Fits(p.object)'
  BY <1>1 DEF LogInv, LogTypes, UnderSeal, Fits
<1> QED
  BY <1>3, <1>6, <1>7 DEF LogInv

LEMMA LogKeeps ==
  SealInv /\ LogInv /\ [BlobsNext]_blobVars => LogInv'
<1> SUFFICES ASSUME SealInv, LogInv, [BlobsNext]_blobVars
             PROVE  LogInv'
  OBVIOUS
<1>1. CASE \E object \in BoundedSeq(Bytes, 1) : CustomerPut(object)
  BY <1>1, LogAlone DEF CustomerPut, Put, UnderSeal
<1>2. CASE \E c \in Chains, b \in Bytes : WriteBlob(c, b)
  BY <1>2, LogAlone DEF WriteBlob, UnderSeal
<1>3. CASE \E c \in Chains : SealBlob(c)
  BY <1>3, LogAlone DEF SealBlob, UnderSeal
<1>4. CASE \E c \in Chains : Materialize(c)
  BY <1>4, LogAlone DEF Materialize, UnderSeal
<1>5. CASE \E c \in Chains : BlobCompose(c)
  BY <1>5, LogAlone DEF BlobCompose, Put, UnderSeal
<1>6. CASE \E put \in storing : Stores(put)
  <2>1. PICK put \in storing : Stores(put)
    BY <1>6
  <2>2. PICK answer : settled' = settled \cup {answer} /\ answer.put = put
    <3>1. PICK ok \in BOOLEAN : settled' = settled \cup {[put |-> put, ok |-> ok]}
      BY <2>1 DEF Stores
    <3>2. [put |-> put, ok |-> ok].put = put
      OBVIOUS
    <3> QED
      BY <3>1, <3>2
  <2>3. /\ UNCHANGED <<hot, index, appended, handoffs>> /\ stored \subseteq stored'
        /\ storing' = storing \ {put}
    BY <2>1 DEF Stores
  <2> QED
    BY <2>2, <2>3, LogAlone DEF UnderSeal
<1>7. CASE \E a \in settled : BlobOnResult(a)
  <2>1. PICK a \in settled : BlobOnResult(a)
    BY <1>7
  <2>2. /\ settled' \subseteq settled /\ handoffs' \subseteq handoffs \cup {a}
        /\ UNCHANGED <<hot, index, appended, stored, storing>>
    BY <2>1 DEF BlobOnResult
  <2> QED
    BY <2>2, LogAlone DEF UnderSeal
<1>8. CASE \E a \in handoffs : ComposeOnResult(a)
  BY <1>8, LogAlone DEF ComposeOnResult, UnderSeal
<1>9. CASE \E a \in handoffs : SegmentsOnSealed(a)
  BY <1>9, OnSealedKeepsLog
<1>10. CASE AppendRecord
  BY <1>10, AppendKeepsLog
<1>11. CASE \E last \in hot : SealSegment(last)
  BY <1>11, SealSegmentKeepsLog
<1>12. CASE LoseCalls
  BY <1>12, LogAlone DEF LoseCalls, UnderSeal
<1>13. CASE UNCHANGED blobVars
  BY <1>13, LogAlone DEF blobVars, UnderSeal
<1> QED
  BY <1>1, <1>2, <1>3, <1>4, <1>5, <1>6, <1>7, <1>8, <1>9, <1>10, <1>11, <1>12, <1>13 DEF BlobsNext

(* However many seals overlap, fail or come back twice, a record of the    *)
(* log is hot or in an object that is stored, and an index row stands for  *)
(* a stored object whose records are hot no more.                          *)
THEOREM RecordsAlwaysSurvive == BlobsSpec => []RecordsSurvive
<1>1. SealInv /\ LogInv /\ [BlobsNext]_blobVars => (SealInv /\ LogInv)'
  BY SealsKeep, LogKeeps
<1>2. LogInv => RecordsSurvive
  BY DEF LogInv
<1> QED
  BY <1>1, <1>2, SealStart, LogStart, PTL DEF BlobsSpec

(* Only the row of a shorter segment that replaces a longer one's can hide *)
(* a record: while no index row shrinks, a record that is not hot is found *)
(* through the index in a stored object.                                   *)
NoRowShrinks == \A f \in DOMAIN index : index'[f] >= index[f]

THEOREM RecordsAreReadable == BlobsSpec /\ [][NoRowShrinks]_blobVars => []RecordsReadable
<1>1. BlobsInit => RecordsReadable
  BY DEF BlobsInit, RecordsReadable
<1>2. SealInv /\ LogInv /\ RecordsReadable /\ [BlobsNext]_blobVars /\ [NoRowShrinks]_blobVars
        => RecordsReadable'
  <2> SUFFICES ASSUME SealInv, LogInv, RecordsReadable, [BlobsNext]_blobVars,
                      [NoRowShrinks]_blobVars
               PROVE  RecordsReadable'
    OBVIOUS
  <2>0. stored \subseteq stored'
    BY DEF BlobsNext, CustomerPut, WriteBlob, SealBlob, Materialize, BlobCompose, Stores,
           BlobOnResult, ComposeOnResult, AppendRecord, SealSegment, SegmentsOnSealed,
           LoseCalls, blobVars
  <2>1. CASE UNCHANGED <<hot, index, appended>>
    BY <2>0, <2>1 DEF RecordsReadable
  <2>2. CASE AppendRecord
    BY <2>2 DEF AppendRecord, RecordsReadable, LogInv, LogTypes
  <2>3. ASSUME NEW a \in handoffs, SegmentsOnSealed(a), a.ok PROVE RecordsReadable'
    <3>1. PICK f \in 1 .. appended, l \in 1 .. appended : f <= l /\ a.put.object = <<f, l>>
      BY <2>3 DEF LogInv, UnderSeal, Fits, SegmentsOnSealed
    <3>2. index' = [index EXCEPT ![f] = l] /\ hot' = hot \ (f .. l) /\ UNCHANGED <<stored, appended>>
      BY <2>3, <3>1 DEF SegmentsOnSealed, Is2xx
    <3>3. <<f, l>> \in stored
      BY <2>3, <3>1 DEF SealInv, AnswersAreTrue, SegmentsOnSealed
    <3>4. f \in 1 .. MaxRecords
      BY <3>1, RecordsAssumption DEF LogInv, LogTypes
    <3>5. index'[f] = l /\ \A g \in 1 .. MaxRecords : g # f => index'[g] = index[g]
      BY <3>2, <3>4 DEF LogInv, LogTypes
    <3>6. l >= index[f]
      <4>1. CASE NoRowShrinks
        BY <3>4, <3>5, <4>1 DEF NoRowShrinks, LogInv, LogTypes
      <4>2. CASE UNCHANGED blobVars
        BY <3>1, <3>5, <4>2 DEF blobVars
      <4> QED
        BY <4>1, <4>2
    <3> SUFFICES ASSUME NEW n \in 1 .. appended, n \notin hot'
                 PROVE  \E g \in 1 .. n : index'[g] >= n /\ <<g, index'[g]>> \in stored
      BY <3>2 DEF RecordsReadable
    <3>7. CASE n \in f .. l
      BY <3>1, <3>3, <3>5, <3>7
    <3>8. CASE n \notin f .. l
      <4>1. PICK g \in 1 .. n : index[g] >= n /\ <<g, index[g]>> \in stored
        BY <3>2, <3>8 DEF RecordsReadable
      <4>2. g \in 1 .. MaxRecords /\ index[g] \in Nat
        BY RecordsAssumption DEF LogInv, LogTypes
      <4>3. g # f
        BY <3>1, <3>6, <3>8, <4>1, <4>2
      <4> QED
        BY <3>5, <4>1, <4>2, <4>3
    <3> QED
      BY <3>7, <3>8
  <2> QED
    BY <2>1, <2>2, <2>3 DEF BlobsNext, CustomerPut, WriteBlob, SealBlob, Materialize, BlobCompose,
       Stores, BlobOnResult, ComposeOnResult, SealSegment, SegmentsOnSealed, Is2xx, LoseCalls, blobVars
<1>3. SealInv /\ LogInv /\ [BlobsNext]_blobVars => (SealInv /\ LogInv)'
  BY SealsKeep, LogKeeps
<1> QED
  BY <1>1, <1>2, <1>3, SealStart, LogStart, PTL DEF BlobsSpec

-----------------------------------------------------------------------------
(* Cron.  The search for the next occurrence needs the order of instants,  *)
(* which is that of months, days and hours.  First, a set of numbers has a *)
(* least one.                                                              *)
LEMMA LeastOf ==
  ASSUME NEW S \in SUBSET Nat, S # {}
  PROVE  \E x \in S : \A y \in S : x <= y
<1> DEFINE below == OpToRel(<, Nat)
<1>1. PICK x \in S : \A y \in S : ~(<<y, x>> \in below)
  <2>1. IsWellFoundedOn(below, Nat)
    BY NatLessThanWellFounded
  <2> HIDE DEF below
  <2>2. IsWellFoundedOn(below, S)
    BY <2>1, IsWellFoundedOnSubset
  <2> QED
    BY <2>2, WFMin
<1>2. \A y \in S : x <= y
  <2> SUFFICES ASSUME NEW y \in S, ~(x <= y) PROVE FALSE
    OBVIOUS
  <2>1. y \in Nat /\ x \in Nat /\ y < x
    OBVIOUS
  <2>2. <<y, x>> \in below
    BY <2>1 DEF OpToRel
  <2> QED
    BY <1>1, <2>2
<1> QED
  BY <1>2

-----------------------------------------------------------------------------
(* The calendar.  A month has a day at least, and none has more than the   *)
(* longest.                                                                *)
LEMMA MonthsHaveDays ==
  /\ Months \in Nat \ {0}
  /\ \A i \in 1 .. Months : MonthDays[i] \in Nat \ {0}
  /\ \A m \in Nat \ {0} : MonthField([month |-> m]) \in 1 .. Months
                          /\ Length(m) = MonthDays[MonthField([month |-> m])]
                          /\ Length(m) \in Nat \ {0}
<1>1. Months \in Nat \ {0} /\ \A i \in 1 .. Months : MonthDays[i] \in Nat \ {0}
  BY CalendarAssumption DEF Months
<1>2. ASSUME NEW m \in Nat \ {0}
      PROVE  MonthField([month |-> m]) \in 1 .. Months
  <2>1. (m - 1) % Months \in 0 .. Months - 1
    BY <1>1
  <2> QED
    BY <1>1, <2>1 DEF MonthField
<1>3. \A m \in Nat \ {0} : Length(m) = MonthDays[MonthField([month |-> m])]
  BY DEF Length, MonthField
<1> QED
  BY <1>1, <1>2, <1>3

(* The longest month is one of the year's and no other is longer.          *)
LEMMA LongestIsLongest ==
  /\ LongestMonth \in Nat \ {0}
  /\ \A m \in Nat \ {0} : Length(m) <= LongestMonth
<1> DEFINE Tops(n) == {i \in 1 .. n : \A j \in 1 .. n : MonthDays[j] <= MonthDays[i]}
           Bad == {n \in 1 .. Months : Tops(n) = {}}
<1>1. Bad = {}
  <2> SUFFICES ASSUME Bad # {} PROVE FALSE
    OBVIOUS
  <2>0. Bad \in SUBSET Nat
    BY MonthsHaveDays
  <2>1. PICK n \in Bad : \A k \in Bad : n <= k
    <3> HIDE DEF Bad
    <3> QED
      BY <2>0, LeastOf
  <2>2. CASE n = 1
    <3>1. 1 \in Tops(1)
      BY MonthsHaveDays
    <3> QED
      BY <2>2, <3>1
  <2>3. CASE n # 1
    <3>1. n - 1 \in 1 .. Months /\ n - 1 \notin Bad
      BY <2>1, <2>3, MonthsHaveDays
    <3>2. PICK i \in 1 .. n - 1 : \A j \in 1 .. n - 1 : MonthDays[j] <= MonthDays[i]
      BY <3>1
    <3>3. \A j \in 1 .. n : j \in 1 .. n - 1 \/ j = n
      BY <3>1
    <3>4. n \in 1 .. n /\ i \in 1 .. n /\ i \in 1 .. Months /\ n \in 1 .. Months
      BY <3>1, <2>1, MonthsHaveDays
    <3>5. \A j \in 1 .. n - 1 : j \in 1 .. Months
      BY <3>1, MonthsHaveDays
    <3>6. i \in Tops(n) \/ n \in Tops(n)
      <4>1. CASE MonthDays[n] <= MonthDays[i]
        BY <3>2, <3>3, <3>4, <4>1
      <4>2. CASE ~(MonthDays[n] <= MonthDays[i])
        <5>1. \A j \in 1 .. n - 1 : MonthDays[j] <= MonthDays[n]
          BY <3>2, <3>4, <3>5, <4>2, MonthsHaveDays
        <5>2. MonthDays[n] <= MonthDays[n]
          BY <3>4, MonthsHaveDays
        <5> QED
          BY <3>3, <3>4, <5>1, <5>2
      <4> QED
        BY <4>1, <4>2
    <3> QED
      BY <2>1, <3>6
  <2> QED
    BY <2>2, <2>3
<1>2. PICK i \in 1 .. Months : \A j \in 1 .. Months : MonthDays[j] <= MonthDays[i]
  <2>1. Months \in 1 .. Months
    BY MonthsHaveDays
  <2>2. Tops(Months) # {}
    BY <1>1, <2>1
  <2> QED
    BY <2>2
<1>3. /\ LongestMonth \in {MonthDays[j] : j \in 1 .. Months}
      /\ \A j \in 1 .. Months : MonthDays[j] <= LongestMonth
  BY <1>2 DEF LongestMonth
<1> QED
  BY <1>3, MonthsHaveDays

-----------------------------------------------------------------------------
(* The days before a month, month by month.                                *)
DaysUpTo(f, n) == f = [m \in 1 .. n |-> IF m = 1 THEN 0 ELSE f[m - 1] + Length(m - 1)]

(* Two counts of the days, up to different months, agree as far as both go.*)
LEMMA CountsAgree ==
  ASSUME NEW n \in Nat \ {0}, NEW k \in Nat \ {0}, NEW f, NEW g, DaysUpTo(f, n), DaysUpTo(g, k),
         NEW m \in 1 .. n, m <= k
  PROVE  f[m] = g[m]
<1> DEFINE Bad == {i \in 1 .. n : i <= k /\ f[i] # g[i]}
<1> SUFFICES ASSUME Bad # {} PROVE FALSE
  OBVIOUS
<1>0. Bad \in SUBSET Nat
  OBVIOUS
<1>1. PICK i \in Bad : \A j \in Bad : i <= j
  <2> HIDE DEF Bad
  <2> QED
    BY <1>0, LeastOf
<1>2. i # 1 => i - 1 \in 1 .. n /\ i - 1 <= k /\ i - 1 \notin Bad
  BY <1>1
<1>3. i # 1 => f[i - 1] = g[i - 1]
  BY <1>2
<1>4. i \in 1 .. n /\ i \in 1 .. k /\ f[i] # g[i]
  BY <1>1
<1>5. f[i] = IF i = 1 THEN 0 ELSE f[i - 1] + Length(i - 1)
  BY <1>4 DEF DaysUpTo
<1>6. g[i] = IF i = 1 THEN 0 ELSE g[i - 1] + Length(i - 1)
  BY <1>4 DEF DaysUpTo
<1> QED
  BY <1>3, <1>4, <1>5, <1>6

(* There is a count up to every month.                                     *)
LEMMA CountsExist ==
  ASSUME NEW n \in Nat \ {0} PROVE \E f : DaysUpTo(f, n)
<1> DEFINE Bad == {k \in Nat \ {0} : ~\E f : DaysUpTo(f, k)}
<1> SUFFICES ASSUME Bad # {} PROVE FALSE
  OBVIOUS
<1>1. PICK k \in Bad : \A j \in Bad : k <= j
  BY LeastOf
<1>2. CASE k = 1
  <2> DEFINE f == [m \in 1 .. 1 |-> 0]
  <2>1. f = [m \in 1 .. 1 |-> IF m = 1 THEN 0 ELSE f[m - 1] + Length(m - 1)]
    OBVIOUS
  <2> HIDE DEF f
  <2>2. DaysUpTo(f, 1)
    BY <2>1 DEF DaysUpTo
  <2> QED
    BY <1>1, <1>2, <2>2
<1>3. CASE k # 1
  <2>1. k - 1 \in Nat \ {0} /\ k - 1 \notin Bad /\ k \in Nat
    BY <1>1, <1>3
  <2>2. PICK g : DaysUpTo(g, k - 1)
    BY <2>1
  <2> DEFINE f == [m \in 1 .. k |-> IF m = k THEN g[k - 1] + Length(k - 1) ELSE g[m]]
  <2>3. \A m \in 1 .. k - 1 : g[m] = IF m = 1 THEN 0 ELSE g[m - 1] + Length(m - 1)
    BY <2>2 DEF DaysUpTo
  <2>4. ASSUME NEW m \in 1 .. k PROVE f[m] = IF m = 1 THEN 0 ELSE f[m - 1] + Length(m - 1)
    <3>1. m # 1 => m - 1 \in 1 .. k /\ m - 1 # k
      BY <2>1
    <3>2. m # 1 => f[m - 1] = g[m - 1]
      BY <3>1
    <3>3. CASE m = k
      BY <1>3, <3>2, <3>3
    <3>4. CASE m # k
      <4>1. m \in 1 .. k - 1
        BY <2>1, <3>4
      <4>2. f[m] = g[m]
        BY <3>4
      <4> QED
        BY <2>3, <3>2, <4>1, <4>2
    <3> QED
      BY <3>3, <3>4
  <2>5. f = [m \in 1 .. k |-> f[m]]
    OBVIOUS
  <2> HIDE DEF f
  <2>6. DaysUpTo(f, k)
    BY <2>4, <2>5 DEF DaysUpTo
  <2> QED
    BY <1>1, <2>6
<1> QED
  BY <1>2, <1>3

(* So the count over all months is what its recursive definition says.     *)
LEMMA DaysBeforeIs ==
  /\ DaysBefore[1] = 0
  /\ \A m \in Nat \ {0} : DaysBefore[m + 1] = DaysBefore[m] + Length(m)
<1> DEFINE count(n) == CHOOSE f : DaysUpTo(f, n)
           d == [m \in Nat \ {0} |-> count(m)[m]]
<1>1. \A n \in Nat \ {0} : DaysUpTo(count(n), n)
  BY CountsExist
<1>2. ASSUME NEW m \in Nat \ {0} PROVE d[m] = IF m = 1 THEN 0 ELSE d[m - 1] + Length(m - 1)
  <2>1. count(m)[m] = IF m = 1 THEN 0 ELSE count(m)[m - 1] + Length(m - 1)
    <3>1. DaysUpTo(count(m), m) /\ m \in 1 .. m
      BY <1>1
    <3> HIDE DEF count
    <3> QED
      BY <3>1 DEF DaysUpTo
  <2>2. CASE m # 1
    <3>1. m - 1 \in Nat \ {0} /\ m - 1 \in 1 .. m /\ m - 1 <= m - 1
      BY <2>2
    <3>2. DaysUpTo(count(m), m) /\ DaysUpTo(count(m - 1), m - 1)
      BY <1>1, <3>1
    <3> HIDE DEF count
    <3>3. count(m)[m - 1] = count(m - 1)[m - 1]
      BY <3>1, <3>2, CountsAgree
    <3> QED
      BY <2>1, <2>2, <3>1, <3>3
  <2>3. CASE m = 1
    BY <2>1, <2>3
  <2> QED
    BY <2>2, <2>3
<1>3. d = [m \in Nat \ {0} |-> d[m]]
  OBVIOUS
<1> HIDE DEF d
<1>4. d = [m \in Nat \ {0} |-> IF m = 1 THEN 0 ELSE d[m - 1] + Length(m - 1)]
  BY <1>2, <1>3
<1>5. DaysBefore = [m \in Nat \ {0} |-> IF m = 1 THEN 0 ELSE DaysBefore[m - 1] + Length(m - 1)]
  BY <1>4 DEF DaysBefore
<1>6. DaysBefore[1] = 0
  BY <1>5
<1>7. ASSUME NEW m \in Nat \ {0} PROVE DaysBefore[m + 1] = DaysBefore[m] + Length(m)
  <2>1. m + 1 \in Nat \ {0} /\ m + 1 # 1 /\ (m + 1) - 1 = m
    OBVIOUS
  <2>2. DaysBefore[m + 1] = DaysBefore[(m + 1) - 1] + Length((m + 1) - 1)
    BY <1>5, <2>1
  <2> QED
    BY <2>1, <2>2
<1> QED
  BY <1>6, <1>7

(* Days are counted in natural numbers.                                    *)
LEMMA DaysAreCounted == \A m \in Nat \ {0} : DaysBefore[m] \in Nat
<1> DEFINE Bad == {m \in Nat \ {0} : DaysBefore[m] \notin Nat}
<1> SUFFICES ASSUME Bad # {} PROVE FALSE
  OBVIOUS
<1>1. PICK m \in Bad : \A j \in Bad : m <= j
  BY LeastOf
<1>2. CASE m = 1
  BY <1>1, <1>2, DaysBeforeIs
<1>3. CASE m # 1
  <2>1. m - 1 \in Nat \ {0} /\ m - 1 \notin Bad /\ (m - 1) + 1 = m
    BY <1>1, <1>3
  <2>2. DaysBefore[m] = DaysBefore[m - 1] + Length(m - 1)
    BY <2>1, DaysBeforeIs
  <2>3. DaysBefore[m - 1] \in Nat /\ Length(m - 1) \in Nat
    BY <2>1, MonthsHaveDays
  <2>4. DaysBefore[m] \in Nat
    BY <2>2, <2>3
  <2> QED
    BY <1>1, <2>4
<1> QED
  BY <1>2, <1>3

(* Before a later month lie all the days of an earlier one.                *)
LEMMA LaterMonths ==
  ASSUME NEW m \in Nat \ {0}, NEW n \in Nat \ {0}, m < n
  PROVE  DaysBefore[m] + Length(m) <= DaysBefore[n]
<1> DEFINE Bad == {k \in Nat \ {0} : m < k /\ ~(DaysBefore[m] + Length(m) <= DaysBefore[k])}
<1> SUFFICES ASSUME Bad # {} PROVE FALSE
  OBVIOUS
<1>1. PICK k \in Bad : \A j \in Bad : k <= j
  BY LeastOf
<1>2. k - 1 \in Nat \ {0} /\ k - 1 \notin Bad /\ (k - 1) + 1 = k
  BY <1>1
<1>3. DaysBefore[k] = DaysBefore[k - 1] + Length(k - 1)
  BY <1>2, DaysBeforeIs
<1>4. CASE k - 1 = m
  BY <1>1, <1>3, <1>4, DaysAreCounted, MonthsHaveDays
<1>5. CASE k - 1 # m
  <2>1. DaysBefore[m] + Length(m) <= DaysBefore[k - 1]
    BY <1>1, <1>2, <1>5
  <2>2. /\ DaysBefore[m] \in Nat /\ DaysBefore[k - 1] \in Nat /\ DaysBefore[k] \in Nat
        /\ Length(m) \in Nat /\ Length(k - 1) \in Nat
    BY <1>1, <1>2, DaysAreCounted, MonthsHaveDays
  <2>3. DaysBefore[m] + Length(m) <= DaysBefore[k]
    BY <1>3, <2>1, <2>2
  <2> QED
    BY <1>1, <2>3
<1> QED
  BY <1>4, <1>5

-----------------------------------------------------------------------------
(* Instants are ordered as months, days and hours are read.                *)
Time(t) ==
    /\ t \in [month : Nat \ {0}, day : Nat \ {0}, hour : 0 .. Hours - 1]
    /\ t.day <= Length(t.month)

Precedes(t, u) ==
    \/ t.month < u.month
    \/ t.month = u.month /\ t.day < u.day
    \/ t.month = u.month /\ t.day = u.day /\ t.hour < u.hour

(* An hour more or less does not outweigh a day.                           *)
LEMMA DaysThenHours ==
  ASSUME NEW a \in Int, NEW b \in Int, a < b, NEW n \in Nat \ {0},
         NEW x \in 0 .. n - 1, NEW y \in 0 .. n - 1
  PROVE  a * n + x < b * n + y
<1>1. PICK k \in Nat : b = a + 1 + k
  <2>1. b - a - 1 \in Nat /\ b = a + 1 + (b - a - 1)
    OBVIOUS
  <2> QED
    BY <2>1
<1>2. k * n \in Nat /\ a * n \in Int
  OBVIOUS
<1>3. b * n = a * n + n + k * n
  BY <1>1
<1> QED
  BY <1>2, <1>3

(* Of two times, the one with the smaller instant is the earlier one.      *)
LEMMA InstantsAreOrdered ==
  ASSUME NEW t, NEW u, Time(t), Time(u), Instant(t) < Instant(u)
  PROVE  Precedes(t, u)
<1> DEFINE s == DaysBefore[t.month] + t.day - 1
           v == DaysBefore[u.month] + u.day - 1
<1>1. /\ t.month \in Nat \ {0} /\ t.day \in Nat \ {0} /\ t.hour \in 0 .. Hours - 1
      /\ u.month \in Nat \ {0} /\ u.day \in Nat \ {0} /\ u.hour \in 0 .. Hours - 1
      /\ t.day <= Length(t.month) /\ u.day <= Length(u.month)
  BY DEF Time
<1>2. /\ DaysBefore[t.month] \in Nat /\ DaysBefore[u.month] \in Nat
      /\ Length(t.month) \in Nat /\ Length(u.month) \in Nat
  BY <1>1, DaysAreCounted, MonthsHaveDays
<1>3. s \in Int /\ v \in Int /\ Hours \in Nat \ {0}
  <2>1. s \in Int /\ v \in Int
    BY <1>1, <1>2
  <2> QED
    BY <2>1, CalendarAssumption
<1>4. Instant(t) = s * Hours + t.hour /\ Instant(u) = v * Hours + u.hour
  BY DEF Instant
<1>5. ~Precedes(t, u) => v < s \/ (s = v /\ u.hour <= t.hour)
  <2> SUFFICES ASSUME ~Precedes(t, u) PROVE v < s \/ (s = v /\ u.hour <= t.hour)
    OBVIOUS
  <2>1. CASE u.month < t.month
    <3>1. DaysBefore[u.month] + Length(u.month) <= DaysBefore[t.month]
      BY <1>1, <2>1, LaterMonths
    <3> QED
      BY <1>1, <1>2, <3>1
  <2>2. CASE u.month = t.month
    BY <1>1, <1>2, <2>2 DEF Precedes
  <2> QED
    BY <1>1, <2>1, <2>2 DEF Precedes
<1> HIDE DEF s, v
<1>6. CASE v < s
  <2>1. v * Hours + u.hour < s * Hours + t.hour
    BY <1>1, <1>3, <1>6, DaysThenHours
  <2>2. v * Hours \in Int /\ s * Hours \in Int
    BY <1>3
  <2> DEFINE p == v * Hours
             q == s * Hours
  <2>3. p \in Int /\ q \in Int /\ p + u.hour < q + t.hour /\ q + t.hour < p + u.hour
    BY <2>1, <2>2, <1>4
  <2> HIDE DEF p, q
  <2> QED
    BY <1>1, <2>3
<1>7. CASE s = v /\ u.hour <= t.hour
  <2>1. s * Hours \in Int /\ s * Hours = v * Hours
    BY <1>3, <1>7
  <2> DEFINE p == s * Hours
  <2>2. p \in Int /\ p + t.hour < p + u.hour
    BY <2>1, <1>4
  <2> HIDE DEF p
  <2> QED
    BY <1>1, <1>7, <2>2
<1> QED
  BY <1>5, <1>6, <1>7

-----------------------------------------------------------------------------
(* The fields of a time, and the days there are.                           *)
LEMMA TimeIs ==
  ASSUME NEW t, Time(t)
  PROVE  /\ t.month \in Nat \ {0} /\ t.day \in Nat \ {0} /\ t.hour \in 0 .. Hours - 1
         /\ t = [month |-> t.month, day |-> t.day, hour |-> t.hour]
         /\ t.day <= Length(t.month) /\ Length(t.month) \in Nat \ {0}
         /\ Length(t.month + 1) \in Nat \ {0} /\ Hours \in Nat \ {0}
<1>1. /\ t.month \in Nat \ {0} /\ t.day \in Nat \ {0} /\ t.hour \in 0 .. Hours - 1
      /\ t = [month |-> t.month, day |-> t.day, hour |-> t.hour]
      /\ t.day <= Length(t.month)
  BY DEF Time
<1>2. t.month + 1 \in Nat \ {0}
  BY <1>1
<1> QED
  BY <1>1, <1>2, MonthsHaveDays, CalendarAssumption

(* A day too many runs into the next month, its hour kept.                 *)
LEMMA CarriesOver ==
  ASSUME NEW m, NEW d, NEW h, d > Length(m)
  PROVE  Carry([month |-> m, day |-> d, hour |-> h])
            = [month |-> m + 1, day |-> d - Length(m), hour |-> h]
<1> DEFINE t == [month |-> m, day |-> d, hour |-> h]
<1>1. t.month = m /\ t.day = d /\ t.hour = h
  OBVIOUS
<1>2. Carry(t) = [[t EXCEPT !.month = t.month + 1] EXCEPT !.day = t.day - Length(t.month)]
  BY <1>1 DEF Carry
<1>3. [t EXCEPT !.month = t.month + 1] = [month |-> m + 1, day |-> d, hour |-> h]
  BY <1>1
<1> QED
  BY <1>1, <1>2, <1>3

(* What the setters of Date make of a time: the next hour is next, and the *)
(* starts of the next day and month come after the rest of their own.      *)
LEMMA HourAfter ==
  ASSUME NEW t, Time(t)
  PROVE  LET c == SetHour(t, t.hour + 1) IN
         /\ Time(c)
         /\ \/ c.month = t.month /\ c.day \in {t.day, t.day + 1}
            \/ c.month = t.month + 1 /\ c.day = 1
         /\ \A u : Time(u) /\ Precedes(u, c) => Precedes(u, t) \/ u = t
<1>1. /\ t.month \in Nat \ {0} /\ t.day \in Nat \ {0} /\ t.hour \in 0 .. Hours - 1
      /\ t = [month |-> t.month, day |-> t.day, hour |-> t.hour]
      /\ t.day <= Length(t.month) /\ Length(t.month) \in Nat \ {0}
      /\ Length(t.month + 1) \in Nat \ {0} /\ Hours \in Nat \ {0}
  BY TimeIs
<1>2. ASSUME NEW u, Time(u)
      PROVE  /\ u.month \in Nat \ {0} /\ u.day \in Nat \ {0} /\ u.hour \in 0 .. Hours - 1
             /\ u = [month |-> u.month, day |-> u.day, hour |-> u.hour]
             /\ u.day <= Length(u.month)
  BY <1>2 DEF Time
<1>3. CASE t.hour + 1 < Hours
  <2> DEFINE c == [month |-> t.month, day |-> t.day, hour |-> t.hour + 1]
  <2>1. SetHour(t, t.hour + 1) = c
    BY <1>1, <1>3 DEF SetHour
  <2>2. Time(c)
    BY <1>1, <1>3 DEF Time
  <2>3. ASSUME NEW u, Time(u), Precedes(u, c) PROVE Precedes(u, t) \/ u = t
    BY <1>1, <1>2, <2>3 DEF Precedes
  <2>9. c.month = t.month /\ c.day = t.day
    OBVIOUS
  <2> HIDE DEF c
  <2> QED
    BY <1>1, <2>1, <2>2, <2>3, <2>9
<1>4. CASE ~(t.hour + 1 < Hours) /\ t.day < Length(t.month)
  <2> DEFINE c == [month |-> t.month, day |-> t.day + 1, hour |-> 0]
  <2> DEFINE b == [month |-> t.month, day |-> t.day, hour |-> 0]
  <2>0. SetHour(t, t.hour + 1) = SetDay(b, t.day + 1) /\ SetDay(b, t.day + 1) = Carry(c)
    <3>1. [t EXCEPT !.hour = 0] = b /\ [b EXCEPT !.day = t.day + 1] = c
      BY <1>1
    <3> QED
      BY <1>4, <3>1 DEF SetHour, SetDay
  <2>1. SetHour(t, t.hour + 1) = c
    BY <1>1, <1>4, <2>0 DEF Carry
  <2>2. Time(c)
    BY <1>1, <1>4 DEF Time
  <2>3. ASSUME NEW u, Time(u), Precedes(u, c) PROVE Precedes(u, t) \/ u = t
    BY <1>1, <1>2, <1>4, <2>3 DEF Precedes
  <2>9. c.month = t.month /\ c.day = t.day + 1
    OBVIOUS
  <2> HIDE DEF c
  <2> QED
    BY <1>1, <2>1, <2>2, <2>3, <2>9
<1>5. CASE ~(t.hour + 1 < Hours) /\ ~(t.day < Length(t.month))
  <2> DEFINE c == [month |-> t.month + 1, day |-> 1, hour |-> 0]
  <2> DEFINE b == [month |-> t.month, day |-> t.day, hour |-> 0]
  <2> DEFINE over == [month |-> t.month, day |-> t.day + 1, hour |-> 0]
  <2>4. SetDay(b, t.day + 1) = Carry(over)
    BY <1>1 DEF SetDay
  <2>5. t.day + 1 > Length(t.month) /\ t.day + 1 - Length(t.month) = 1
    BY <1>1, <1>5
  <2>6. Carry(over) = [month |-> t.month + 1, day |-> 1, hour |-> 0]
    BY <1>1, <2>5, CarriesOver
  <2>1. SetHour(t, t.hour + 1) = c
    BY <1>1, <1>5, <2>4, <2>6 DEF SetHour
  <2>2. Time(c)
    BY <1>1, <1>5 DEF Time
  <2>3. ASSUME NEW u, Time(u), Precedes(u, c) PROVE Precedes(u, t) \/ u = t
    BY <1>1, <1>2, <1>5, <2>3 DEF Precedes
  <2>9. c.month = t.month + 1 /\ c.day = 1
    OBVIOUS
  <2> HIDE DEF c
  <2> QED
    BY <1>1, <2>1, <2>2, <2>3, <2>9
<1> QED
  BY <1>3, <1>4, <1>5

(* The start of the next day: only the rest of this one lies between.      *)
LEMMA DayAfter ==
  ASSUME NEW t, Time(t)
  PROVE  LET c == SetHour(SetDay(t, t.day + 1), 0) IN
         /\ Time(c)
         /\ c.month = t.month \/ (c.month = t.month + 1 /\ c.day = 1)
         /\ \A u : Time(u) /\ Precedes(u, c) =>
                Precedes(u, t) \/ (u.month = t.month /\ u.day = t.day)
<1>1. /\ t.month \in Nat \ {0} /\ t.day \in Nat \ {0} /\ t.hour \in 0 .. Hours - 1
      /\ t = [month |-> t.month, day |-> t.day, hour |-> t.hour]
      /\ t.day <= Length(t.month) /\ Length(t.month) \in Nat \ {0}
      /\ Length(t.month + 1) \in Nat \ {0} /\ Hours \in Nat \ {0}
  BY TimeIs
<1>2. ASSUME NEW u, Time(u)
      PROVE  /\ u.month \in Nat \ {0} /\ u.day \in Nat \ {0} /\ u.hour \in 0 .. Hours - 1
             /\ u.day <= Length(u.month)
  BY <1>2 DEF Time
<1>3. CASE t.day < Length(t.month)
  <2> DEFINE c == [month |-> t.month, day |-> t.day + 1, hour |-> 0]
  <2>1. SetHour(SetDay(t, t.day + 1), 0) = c
    BY <1>1, <1>3 DEF SetHour, SetDay, Carry
  <2>2. Time(c)
    BY <1>1, <1>3 DEF Time
  <2>3. ASSUME NEW u, Time(u), Precedes(u, c)
        PROVE  Precedes(u, t) \/ (u.month = t.month /\ u.day = t.day)
    BY <1>1, <1>2, <1>3, <2>3 DEF Precedes
  <2>9. c.month = t.month /\ c.day = t.day + 1
    OBVIOUS
  <2> HIDE DEF c
  <2> QED
    BY <1>1, <2>1, <2>2, <2>3, <2>9
<1>4. CASE ~(t.day < Length(t.month))
  <2> DEFINE c == [month |-> t.month + 1, day |-> 1, hour |-> 0]
  <2> DEFINE over == [month |-> t.month, day |-> t.day + 1, hour |-> t.hour]
  <2>4. SetDay(t, t.day + 1) = Carry(over)
    BY <1>1 DEF SetDay
  <2>5. t.day + 1 > Length(t.month) /\ t.day + 1 - Length(t.month) = 1
    BY <1>1, <1>4
  <2>6. Carry(over) = [month |-> t.month + 1, day |-> 1, hour |-> t.hour]
    BY <1>1, <2>5, CarriesOver
  <2>1. SetHour(SetDay(t, t.day + 1), 0) = c
    BY <1>1, <2>4, <2>6 DEF SetHour
  <2>2. Time(c)
    BY <1>1, <1>4 DEF Time
  <2>3. ASSUME NEW u, Time(u), Precedes(u, c)
        PROVE  Precedes(u, t) \/ (u.month = t.month /\ u.day = t.day)
    BY <1>1, <1>2, <1>4, <2>3 DEF Precedes
  <2>9. c.month = t.month + 1 /\ c.day = 1
    OBVIOUS
  <2> HIDE DEF c
  <2> QED
    BY <1>1, <2>1, <2>2, <2>3, <2>9
<1> QED
  BY <1>3, <1>4

(* The month is advanced first and the day set to 1 after: a day that the  *)
(* next month does not have would have run into the one after that.        *)
LEMMA MonthAfter ==
  ASSUME NEW t, Time(t), t.day <= Length(t.month + 1)
  PROVE  LET c == SetHour(SetDay(SetMonth(t, t.month + 1), 1), 0) IN
         /\ Time(c) /\ c.day = 1
         /\ \A u : Time(u) /\ Precedes(u, c) => Precedes(u, t) \/ u.month = t.month
<1>1. /\ t.month \in Nat \ {0} /\ t.day \in Nat \ {0} /\ t.hour \in 0 .. Hours - 1
      /\ t = [month |-> t.month, day |-> t.day, hour |-> t.hour]
      /\ Length(t.month + 1) \in Nat \ {0} /\ Hours \in Nat \ {0}
  BY TimeIs
<1> DEFINE c == [month |-> t.month + 1, day |-> 1, hour |-> 0]
<1>2. SetMonth(t, t.month + 1) = [month |-> t.month + 1, day |-> t.day, hour |-> t.hour]
  BY <1>1 DEF SetMonth, Carry
<1>3. SetHour(SetDay(SetMonth(t, t.month + 1), 1), 0) = c
  BY <1>1, <1>2 DEF SetHour, SetDay, Carry
<1>4. Time(c)
  BY <1>1 DEF Time
<1>5. ASSUME NEW u, Time(u), Precedes(u, c) PROVE Precedes(u, t) \/ u.month = t.month
  <2>1. u.month \in Nat \ {0} /\ u.day \in Nat \ {0} /\ u.hour \in 0 .. Hours - 1
    BY <1>5 DEF Time
  <2> QED
    BY <1>1, <1>5, <2>1 DEF Precedes
<1> QED
  BY <1>3, <1>4, <1>5

-----------------------------------------------------------------------------
(* The search has passed over no occurrence, and where it is about to      *)
(* advance the month the next one has its day.                             *)
Restricts ==
    /\ crontab.anyDay \in BOOLEAN /\ crontab.anyWeekday \in BOOLEAN
    /\ crontab.anyDay => crontab.days = 1 .. LongestMonth
    /\ crontab.anyWeekday => crontab.weekdays = 0 .. WeekDays - 1

CronInv ==
    /\ Restricts
    /\ Time(now) /\ Time(candidate)
    /\ \A u : Time(u) /\ Precedes(now, u) /\ Precedes(u, candidate) => ~Occurs(u)
    /\ ~MonthMatches(candidate) => candidate.day <= Length(candidate.month + 1)
    /\ search = "found" => Occurs(candidate)

(* No cron fires on a day so late that the day after could be missing from *)
(* a month.                                                                *)
StartsEarly == \A d \in StartDays : \A i \in 1 .. Months : d < MonthDays[i]

(* The fields decide as they are read one by one, on any day there is.     *)
LEMMA OccursIfAllMatch ==
  ASSUME Restricts, NEW t, Time(t)
  PROVE  Occurs(t) <=> MonthMatches(t) /\ DayMatches(t) /\ HourMatches(t)
<1>1. t.month \in Nat \ {0} /\ t.day \in Nat \ {0} /\ t.day <= Length(t.month)
  BY DEF Time
<1>2. t.day \in 1 .. LongestMonth
  <2>1. Length(t.month) <= LongestMonth /\ LongestMonth \in Nat /\ Length(t.month) \in Nat
    BY <1>1, LongestIsLongest, MonthsHaveDays
  <2> QED
    BY <1>1, <2>1
<1>3. Weekday(t) \in 0 .. WeekDays - 1
  <2>1. DaysBefore[t.month] + t.day \in Nat
    BY <1>1, DaysAreCounted
  <2>2. WeekDays \in Nat \ {0}
    BY CalendarAssumption
  <2> HIDE DEF DaysBefore
  <2> QED
    BY <2>1, <2>2 DEF Weekday
<1>4. /\ crontab.anyDay => t.day \in crontab.days
      /\ crontab.anyWeekday => Weekday(t) \in crontab.weekdays
  BY <1>2, <1>3 DEF Restricts
<1> QED
  BY <1>4 DEF Occurs, MonthMatches, DayMatches, HourMatches, Restricts

(* The search begins with the hour after now.                              *)
LEMMA CronStart == ASSUME StartsEarly PROVE CronInit => CronInv
<1> SUFFICES ASSUME CronInit PROVE CronInv
  OBVIOUS
<1>1. Restricts
  BY DEF CronInit, Restricts, Fields
<1>2. now.month \in 1 .. Months /\ now.day \in StartDays /\ Time(now)
  <2>1. /\ now \in [month : 1 .. Months, day : StartDays, hour : 0 .. Hours - 1]
        /\ now.day <= Length(now.month)
    BY DEF CronInit
  <2>2. 1 .. Months \subseteq Nat \ {0} /\ StartDays \subseteq Nat \ {0}
    BY CalendarAssumption, MonthsHaveDays
  <2> QED
    BY <2>1, <2>2 DEF Time
<1>3. /\ now.month \in Nat \ {0} /\ now.day \in Nat \ {0}
      /\ \A m \in Nat \ {0} : now.day < Length(m) /\ Length(m) \in Nat
  BY <1>2, MonthsHaveDays DEF StartsEarly, Time
<1>4. candidate = SetHour(now, now.hour + 1) /\ search = "on"
  BY DEF CronInit
<1>5. Time(candidate)
  BY <1>2, <1>4, HourAfter
<1>6. \A u : Time(u) /\ Precedes(now, u) => ~Precedes(u, candidate)
  <2> SUFFICES ASSUME NEW u, Time(u), Precedes(now, u), Precedes(u, candidate) PROVE FALSE
    OBVIOUS
  <2>1. Precedes(u, now) \/ u = now
    BY <1>2, <1>4, HourAfter
  <2> QED
    BY <1>2, <2>1 DEF Time, Precedes
<1>7. candidate.day <= Length(candidate.month + 1)
  <2>1. candidate.day \in {now.day, now.day + 1, 1} /\ candidate.month + 1 \in Nat \ {0}
    BY <1>2, <1>4, <1>5, HourAfter DEF Time
  <2> QED
    BY <1>3, <2>1
<1> QED
  BY <1>1, <1>2, <1>4, <1>5, <1>6, <1>7 DEF CronInv

(* Each step of the search passes over times that do not match only.       *)
LEMMA CronKeeps == CronInv /\ [Search]_cronVars => CronInv'
<1> SUFFICES ASSUME CronInv, [Search]_cronVars PROVE CronInv'
  OBVIOUS
<1>1. CASE UNCHANGED cronVars
  BY <1>1 DEF CronInv, cronVars, Restricts, Occurs, MonthMatches, Weekday, MonthField
<1>2. CASE Search
  <2>1. UNCHANGED <<crontab, now>> /\ search = "on"
    BY <1>2 DEF Search
  <2>2. Restricts' /\ Time(now)' /\ (Restricts /\ Time(now) /\ Time(candidate))
    BY <2>1 DEF CronInv, Restricts, Time
  <2>3. \A u : Occurs(u)' <=> Occurs(u)
    BY <2>1 DEF Occurs, Weekday, MonthField
  <2>4. CASE UNCHANGED candidate /\ search' # "found"
    BY <2>1, <2>2, <2>3, <2>4 DEF CronInv, MonthMatches, MonthField
  <2>5. CASE Found
    <3>1. Occurs(candidate)
      BY <2>2, <2>5, OccursIfAllMatch DEF Found
    <3>2. UNCHANGED candidate
      BY <2>5 DEF Found
    <3> QED
      BY <2>1, <2>2, <2>3, <3>1, <3>2 DEF CronInv, MonthMatches, MonthField
  <2>6. ASSUME NEW c, Time(c), candidate' = c, UNCHANGED search,
               \A u : Time(u) /\ Precedes(u, c) => Precedes(u, candidate) \/ ~Occurs(u),
               ~MonthMatches(c) => c.day <= Length(c.month + 1)
        PROVE  CronInv'
    <3>1. \A u : Time(u) /\ Precedes(now, u) /\ Precedes(u, c) => ~Occurs(u)
      BY <2>6 DEF CronInv
    <3>2. MonthMatches(candidate)' <=> MonthMatches(c)
      BY <2>1, <2>6 DEF MonthMatches, MonthField
    <3>3. Time(candidate)' /\ (search = "found")' = FALSE
      BY <2>1, <2>6
    <3>4. (\A u : Time(u) /\ Precedes(now, u) /\ Precedes(u, candidate) => ~Occurs(u))'
      BY <2>1, <2>3, <2>6, <3>1
    <3>5. (~MonthMatches(candidate) => candidate.day <= Length(candidate.month + 1))'
      BY <2>6, <3>2
    <3> QED
      BY <2>2, <3>3, <3>4, <3>5 DEF CronInv
  <2>7. candidate.month \in Nat \ {0} /\ \A m \in Nat \ {0} : Length(m) \in Nat \ {0}
    BY <2>2, MonthsHaveDays DEF Time
  <2>8. CASE NextMonth
    <3> DEFINE c == SetHour(SetDay(SetMonth(candidate, candidate.month + 1), 1), 0)
    <3>1. /\ Time(c) /\ c.day = 1
          /\ \A u : Time(u) /\ Precedes(u, c) =>
                 Precedes(u, candidate) \/ u.month = candidate.month
      BY <2>2, <2>8, MonthAfter DEF NextMonth, CronInv
    <3>2. candidate' = c /\ UNCHANGED search
      BY <2>8 DEF NextMonth
    <3>3. \A u : u.month = candidate.month => ~Occurs(u)
      BY <2>8 DEF NextMonth, MonthMatches, MonthField, Occurs
    <3>4. c.month + 1 \in Nat \ {0}
      BY <3>1 DEF Time
    <3> HIDE DEF c
    <3>5. c.day <= Length(c.month + 1)
      BY <2>7, <3>1, <3>4
    <3> QED
      BY <2>6, <3>1, <3>2, <3>3, <3>5
  <2>9. CASE NextDay
    <3> DEFINE c == SetHour(SetDay(candidate, candidate.day + 1), 0)
    <3>1. /\ Time(c)
          /\ c.month = candidate.month \/ (c.month = candidate.month + 1 /\ c.day = 1)
          /\ \A u : Time(u) /\ Precedes(u, c) =>
                 Precedes(u, candidate) \/ (u.month = candidate.month /\ u.day = candidate.day)
      BY <2>2, DayAfter
    <3>2. candidate' = c /\ UNCHANGED search
      BY <2>9 DEF NextDay
    <3>3. \A u : Time(u) /\ u.month = candidate.month /\ u.day = candidate.day => ~Occurs(u)
      <4> SUFFICES ASSUME NEW u, Time(u), u.month = candidate.month, u.day = candidate.day,
                          Occurs(u)
                   PROVE  FALSE
        OBVIOUS
      <4>1. DayMatches(u)
        BY <2>2, OccursIfAllMatch
      <4> QED
        BY <2>9, <4>1 DEF NextDay, DayMatches, Weekday
    <3> HIDE DEF c
    <3>4. ~MonthMatches(c) => c.day <= Length(c.month + 1)
      <4>1. c.month = candidate.month => MonthMatches(c)
        BY <2>9 DEF NextDay, MonthMatches, MonthField
      <4>2. c.month + 1 \in Nat \ {0}
        BY <3>1 DEF Time
      <4> QED
        BY <2>7, <3>1, <4>1, <4>2
    <3> QED
      BY <2>6, <3>1, <3>2, <3>3, <3>4
  <2>10. CASE NextHour
    <3> DEFINE c == SetHour(candidate, candidate.hour + 1)
    <3>1. /\ Time(c)
          /\ c.month = candidate.month \/ (c.month = candidate.month + 1 /\ c.day = 1)
          /\ \A u : Time(u) /\ Precedes(u, c) => Precedes(u, candidate) \/ u = candidate
      BY <2>2, HourAfter
    <3>2. candidate' = c /\ UNCHANGED search
      BY <2>10 DEF NextHour
    <3>3. ~Occurs(candidate)
      BY <2>10 DEF NextHour, HourMatches, Occurs
    <3> HIDE DEF c
    <3>4. ~MonthMatches(c) => c.day <= Length(c.month + 1)
      <4>1. c.month = candidate.month => MonthMatches(c)
        BY <2>10 DEF NextHour, MonthMatches, MonthField
      <4>2. c.month + 1 \in Nat \ {0}
        BY <3>1 DEF Time
      <4> QED
        BY <2>7, <3>1, <4>1, <4>2
    <3> QED
      BY <2>6, <3>1, <3>2, <3>3, <3>4
  <2> QED
    BY <1>2, <2>4, <2>5, <2>8, <2>9, <2>10 DEF Search
<1> QED
  BY <1>1, <1>2

(* What a fired cron is armed for next is an occurrence of its line, and   *)
(* none lies between: for any calendar, crontab and time, if no cron fires *)
(* so late in a month that the next might lack the day.                    *)
THEOREM NextIsAlwaysNext ==
  ASSUME StartsEarly PROVE CronSpec => []NextIsNext
<1>1. CronInv => NextIsNext
  <2> SUFFICES ASSUME CronInv PROVE NextIsNext
    OBVIOUS
  <2>1. search = "found" => Occurs(candidate)
    BY DEF CronInv
  <2>2. ASSUME NEW m \in now.month .. candidate.month, NEW d \in 1 .. Length(m),
               NEW h \in 0 .. Hours - 1,
               Instant(now) < Instant([month |-> m, day |-> d, hour |-> h]),
               Instant([month |-> m, day |-> d, hour |-> h]) < Instant(candidate)
        PROVE  ~Occurs([month |-> m, day |-> d, hour |-> h])
    <3> DEFINE u == [month |-> m, day |-> d, hour |-> h]
    <3>1. now.month \in Nat \ {0} /\ candidate.month \in Nat
      BY DEF CronInv, Time
    <3>2. m \in Nat \ {0}
      BY <3>1
    <3>3. Length(m) \in Nat
      BY <3>2, MonthsHaveDays
    <3>4. Time(u)
      BY <3>2, <3>3 DEF Time
    <3> HIDE DEF u
    <3>5. Precedes(now, u) /\ Precedes(u, candidate)
      BY <2>2, <3>4, InstantsAreOrdered DEF CronInv, u
    <3> QED
      BY <3>4, <3>5 DEF CronInv, u
  <2> QED
    BY <2>1, <2>2 DEF NextIsNext
<1> QED
  BY <1>1, CronStart, CronKeeps, PTL DEF CronSpec
=============================================================================
