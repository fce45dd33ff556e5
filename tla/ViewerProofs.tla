---------------------------- MODULE ViewerProofs ----------------------------
(***************************************************************************)
(* What the replay viewer may be trusted with: a run it re-executes is     *)
(* either the captured one or marked as poisoned, a gap it draws between   *)
(* two hops counts what the log holds between them, the pane withholds no  *)
(* row operation that has run, and the line it lights and the frame it     *)
(* steps in are the ones of the run.                                       *)
(***************************************************************************)
EXTENDS Replay, ModelView, Window, Trace, FiniteSetTheorems, SequenceTheorems,
        WellFoundedInduction, NaturalsInduction, TLAPS

------------------------------------------------------------------------------
(* Replay.  For an Ordinary run, whatever others do, a re-executed run that *)
(* is not poisoned has observed exactly what the captured one did.  A run   *)
(* that is Ordinary was so at every earlier point of it.                    *)

OpNames == {"header", "payload", "ip", "ctx", "draw", "set"}

(* Observations, of any values.                                             *)
Observations(vals) == [op : OpNames, arg : Headers \cup Keys \cup 0..2, val : vals]

(* What the platform gave the handler in a world w.                         *)
Given(w, o) ==
    /\ o.op = "header" => o.val = IF o.arg \in w.present THEN "value" ELSE "absent"
    /\ o.op = "payload" => o.val = w.payload
    /\ o.op = "ip" => o.val = "address"
    /\ o.op = "ctx" => o.val = IF w.kind \in InboundKinds THEN "undefined" ELSE "ctx"
    /\ o.op = "draw" => o.arg \in Nat
    /\ o.op = "set" => o.val \in {"ok", "refused"}

(* How far a run had drawn before each of its observations, and after the   *)
(* last of them.                                                            *)
Draws(pos, run, total) ==
    /\ pos \in [1..(Len(run) + 1) -> Nat]
    /\ pos[1] = 0 /\ pos[Len(run) + 1] = total
    /\ \A i \in 1..Len(run) :
         /\ run[i].op = "draw" =>
              /\ pos[i + 1] = pos[i] + run[i].arg
              /\ run[i].val = [j \in 1..run[i].arg |-> pos[i] + j]
         /\ run[i].op # "draw" => pos[i + 1] = pos[i]

(* The replay's cursor is where the live run was.                           *)
Drawing(pos) == Draws(pos, live, drawn) /\ (~poison => drawPos = pos[Len(seen) + 1])

ReplayShape ==
    /\ world \in Worlds /\ drawn \in Nat /\ drawPos \in Nat /\ poison \in BOOLEAN
    /\ \E vals : live \in Seq(Observations(vals))
    /\ \E vals : seen \in Seq(Observations(vals))
    /\ Len(seen) <= Len(live)
    /\ phase = "live" => seen = <<>>

ReplayInv ==
    /\ ReplayShape
    /\ \A i \in 1..Len(live) : Given(world, live[i])
    /\ \A i, j \in 1..Len(live) :
          live[i].op = "set" /\ live[j].op = "set" /\ live[i].arg = live[j].arg => i = j
    /\ \E pos : Drawing(pos)
    /\ ~poison => \A i \in 1..Len(seen) : seen[i] = live[i]

LEMMA NoDraws == ASSUME NEW d PROVE [j \in 1..0 |-> d + j] = <<>>
  OBVIOUS

LEMMA ReplayInitInv == ReplayInit => ReplayInv
<1> SUFFICES ASSUME ReplayInit PROVE ReplayInv
  OBVIOUS
<1>1. live = <<>> /\ seen = <<>> /\ drawn = 0 /\ drawPos = 0 /\ poison = FALSE /\ world \in Worlds
  BY DEF ReplayInit
<1>2. Len(live) = 0 /\ Len(seen) = 0 /\ live \in Seq(Observations({})) /\ seen \in Seq(Observations({}))
  BY <1>1, EmptySeq
<1>3. Drawing([i \in 1..1 |-> 0])
  <2> DEFINE pos == [i \in 1..1 |-> 0]
  <2>1. pos \in [1..(0 + 1) -> Nat] /\ pos[1] = 0 /\ pos[0 + 1] = 0
    OBVIOUS
  <2> QED
    BY <1>1, <1>2, <2>1 DEF Drawing, Draws
<1>4. ReplayShape
  <2>1. (\E vals : live \in Seq(Observations(vals))) /\ (\E vals : seen \in Seq(Observations(vals)))
    BY <1>2
  <2>2. 0 <= 0 /\ 0 \in Nat
    OBVIOUS
  <2> QED
    BY <1>1, <1>2, <2>1, <2>2 DEF ReplayShape
<1>5. \A i \in 1..Len(live) : FALSE
  BY <1>2
<1>6. \A i \in 1..Len(seen) : FALSE
  BY <1>2
<1> QED
  BY <1>3, <1>4, <1>5, <1>6 DEF ReplayInv

(* Another observation of any sequence of them.                             *)
LEMMA OneMoreSeen ==
  ASSUME NEW run, NEW vals, run \in Seq(Observations(vals)), NEW v, NEW e \in Observations({v})
  PROVE  /\ Append(run, e) \in Seq(Observations(vals \cup {v}))
         /\ Len(run) \in Nat /\ Len(Append(run, e)) = Len(run) + 1
         /\ \A i \in 1..Len(run) : Append(run, e)[i] = run[i]
         /\ Append(run, e)[Len(run) + 1] = e
<1> DEFINE S == Observations(vals \cup {v})
<1>1. Observations(vals) \subseteq S /\ e \in S
  BY DEF Observations
<1> HIDE DEF S
<1>2. run \in Seq(S) /\ Len(run) \in Nat
  BY <1>1, LenProperties
<1>3. /\ Append(run, e) \in Seq(S) /\ Len(Append(run, e)) = Len(run) + 1
      /\ \A i \in 1..Len(run) : Append(run, e)[i] = run[i]
      /\ Append(run, e)[Len(run) + 1] = e
  BY <1>1, <1>2, AppendProperties
<1> QED
  BY <1>2, <1>3 DEF S

(* An operation of a handler whose run is Ordinary.                         *)
LEMMA PlainOps ==
  ASSUME NEW o \in Ops, o.op \notin {"body", "status"}
  PROVE  /\ o.op \in OpNames /\ o.arg \in Headers \cup Keys \cup 0..2
         /\ o.op = "draw" => o.arg \in 0..2
  BY DEF Ops, OpNames

(* What a handler observed is a sequence, and an Ordinary run was Ordinary. *)
AnySeq == \E S : live \in Seq(S)

LEMMA LiveGrows ==
  ASSUME AnySeq, NEW e, live' = Append(live, e), world' = world, Ordinary'
  PROVE  /\ Ordinary /\ e.op \notin {"body", "status"}
         /\ e.op = "set" => ~\E i \in DOMAIN live : live[i].op = "set" /\ live[i].arg = e.arg
<1>1. PICK S : live \in Seq(S)
  BY DEF AnySeq
<1> DEFINE T == S \cup {e}
<1>2. live \in Seq(T) /\ e \in T
  BY <1>1
<1> HIDE DEF T
<1>3. /\ Len(live) \in Nat /\ DOMAIN live = 1..Len(live)
      /\ DOMAIN live' = 1..(Len(live) + 1)
      /\ \A i \in 1..Len(live) : live'[i] = live[i]
      /\ live'[Len(live) + 1] = e
  <2>1. /\ Append(live, e) \in Seq(T) /\ Len(Append(live, e)) = Len(live) + 1
        /\ \A i \in 1..Len(live) : Append(live, e)[i] = live[i]
        /\ Append(live, e)[Len(live) + 1] = e
    BY <1>2, AppendProperties
  <2>2. Len(live) \in Nat /\ DOMAIN live = 1..Len(live)
    BY <1>2, LenProperties
  <2>3. DOMAIN Append(live, e) = 1..Len(Append(live, e))
    BY <2>1, LenProperties
  <2> QED
    BY <2>1, <2>2, <2>3
<1> DEFINE L == Len(live)
<1>4. \A i \in 1..L : i \in 1..(L + 1) /\ i # L + 1
  BY <1>3
<1>5. L + 1 \in 1..(L + 1)
  BY <1>3
<1> HIDE DEF L
<1> QED
  BY <1>3, <1>4, <1>5 DEF Ordinary, L

LEMMA AlwaysASeq == AnySeq /\ [ReplayNext]_replayVars => AnySeq'
<1> SUFFICES ASSUME AnySeq, [ReplayNext]_replayVars PROVE AnySeq'
  OBVIOUS
<1>1. PICK S : live \in Seq(S)
  BY DEF AnySeq
<1>2. CASE LiveRead
  <2>1. PICK e : live' = Append(live, e)
    BY <1>2 DEF LiveRead
  <2>2. live \in Seq(S \cup {e}) /\ e \in S \cup {e}
    BY <1>1
  <2>3. live' \in Seq(S \cup {e})
    BY <2>1, <2>2, AppendProperties
  <2> QED
    BY <2>3 DEF AnySeq
<1>3. CASE Open \/ Read \/ Park \/ Brake \/ Again \/ UNCHANGED replayVars
  BY <1>1, <1>3 DEF Open, Read, Park, Brake, Again, replayVars, AnySeq
<1> QED
  BY <1>2, <1>3 DEF ReplayNext

LEMMA LiveReadStep == ASSUME AnySeq, Ordinary', ReplayInv, LiveRead PROVE ReplayInv'
<1> DEFINE L == Len(live)
<1>1. PICK o \in Ops : \E v \in LiveValues(o) :
         /\ live' = Append(live, [op |-> o.op, arg |-> o.arg, val |-> v])
         /\ drawn' = IF o.op = "draw" THEN drawn + o.arg ELSE drawn
  BY DEF LiveRead
<1>2. PICK v \in LiveValues(o) :
         /\ live' = Append(live, [op |-> o.op, arg |-> o.arg, val |-> v])
         /\ drawn' = IF o.op = "draw" THEN drawn + o.arg ELSE drawn
  BY <1>1
<1>3. seen = <<>> /\ phase = "live" /\ UNCHANGED <<world, phase, seen, drawPos, poison>>
  BY DEF LiveRead, ReplayInv, ReplayShape
<1>0. /\ o.op \notin {"body", "status"}
      /\ o.op = "set" => ~\E i \in DOMAIN live : live[i].op = "set" /\ live[i].arg = o.arg
  <2> DEFINE e == [op |-> o.op, arg |-> o.arg, val |-> v]
  <2>1. live' = Append(live, e)
    BY <1>2
  <2>2. e.op = o.op /\ e.arg = o.arg
    OBVIOUS
  <2> HIDE DEF e
  <2> QED
    BY <1>3, <2>1, <2>2, LiveGrows
<1>4. o.op \in OpNames /\ o.arg \in Headers \cup Keys \cup 0..2 /\ (o.op = "draw" => o.arg \in 0..2)
  BY <1>0, PlainOps
<1>5. PICK vals : live \in Seq(Observations(vals))
  BY DEF ReplayInv, ReplayShape
<1>6. /\ live' \in Seq(Observations(vals \cup {v})) /\ L \in Nat /\ Len(live') = L + 1
      /\ \A i \in 1..L : live'[i] = live[i]
      /\ live'[L + 1] = [op |-> o.op, arg |-> o.arg, val |-> v]
  <2> DEFINE e == [op |-> o.op, arg |-> o.arg, val |-> v]
  <2>1. e \in Observations({v})
    BY <1>4 DEF Observations
  <2>2. live' = Append(live, e)
    BY <1>2
  <2> HIDE DEF e
  <2> HIDE DEF L
  <2>3. /\ Append(live, e) \in Seq(Observations(vals \cup {v}))
        /\ Len(live) \in Nat /\ Len(Append(live, e)) = Len(live) + 1
        /\ \A i \in 1..Len(live) : Append(live, e)[i] = live[i]
        /\ Append(live, e)[Len(live) + 1] = e
    BY <1>5, <2>1, OneMoreSeen
  <2> QED
    BY <2>2, <2>3 DEF e, L
<1>7. DOMAIN live = 1..L
  BY <1>5, LenProperties
<1>8. ReplayShape'
  BY <1>2, <1>3, <1>4, <1>6, EmptySeq DEF ReplayInv, ReplayShape
<1>9. Given(world', [op |-> o.op, arg |-> o.arg, val |-> v])
  BY <1>2, <1>3, <1>4 DEF LiveValues, Given, OpNames
<1>10. \A i \in 1..Len(live') : Given(world', live'[i])
  <2>1. \A i \in 1..L : Given(world', live[i])
    BY <1>3 DEF ReplayInv
  <2>2. \A i \in 1..(L + 1) : i \in 1..L \/ i = L + 1
    BY <1>6
  <2> QED
    BY <1>6, <1>9, <2>1, <2>2
<1>11. \A i, j \in 1..Len(live') :
          live'[i].op = "set" /\ live'[j].op = "set" /\ live'[i].arg = live'[j].arg => i = j
  BY <1>0, <1>2, <1>6, <1>7 DEF ReplayInv
<1>12. \E pos : Drawing(pos)'
  <2>1. PICK pos : Drawing(pos)
    BY DEF ReplayInv
  <2> DEFINE next == [i \in 1..(L + 2) |-> IF i = L + 2 THEN drawn' ELSE pos[i]]
  <2>2. drawn' \in Nat
    BY <1>8 DEF ReplayShape
  <2>3. /\ pos \in [1..(L + 1) -> Nat] /\ pos[1] = 0 /\ pos[L + 1] = drawn
        /\ ~poison => drawPos = pos[Len(seen) + 1]
        /\ \A i \in 1..L :
             /\ live[i].op = "draw" =>
                  /\ pos[i + 1] = pos[i] + live[i].arg
                  /\ live[i].val = [j \in 1..live[i].arg |-> pos[i] + j]
             /\ live[i].op # "draw" => pos[i + 1] = pos[i]
    BY <2>1 DEF Drawing, Draws
  <2>4. /\ next \in [1..(L + 2) -> Nat] /\ next[L + 2] = drawn'
        /\ \A i \in 1..(L + 1) : next[i] = pos[i]
    BY <1>6, <2>2, <2>3
  <2>5. /\ o.op = "draw" => next[L + 2] = next[L + 1] + o.arg /\ v = [j \in 1..o.arg |-> next[L + 1] + j]
        /\ o.op # "draw" => next[L + 2] = next[L + 1]
    BY <1>2, <1>6, <2>3, <2>4 DEF LiveValues
  <2>6. Len(seen) = 0
    BY <1>3, EmptySeq
  <2> HIDE DEF next
  <2>7. \A i \in 1..(L + 1) :
           /\ live'[i].op = "draw" =>
                /\ next[i + 1] = next[i] + live'[i].arg
                /\ live'[i].val = [j \in 1..live'[i].arg |-> next[i] + j]
           /\ live'[i].op # "draw" => next[i + 1] = next[i]
    <3>1. ASSUME NEW i \in 1..L
          PROVE  /\ live'[i].op = "draw" =>
                      /\ next[i + 1] = next[i] + live'[i].arg
                      /\ live'[i].val = [j \in 1..live'[i].arg |-> next[i] + j]
                 /\ live'[i].op # "draw" => next[i + 1] = next[i]
      <4>1. live'[i] = live[i] /\ next[i] = pos[i] /\ next[i + 1] = pos[i + 1]
        BY <1>6, <2>4
      <4> QED
        BY <2>3, <4>1
    <3>2. /\ live'[L + 1].op = "draw" =>
               /\ next[(L + 1) + 1] = next[L + 1] + live'[L + 1].arg
               /\ live'[L + 1].val = [j \in 1..live'[L + 1].arg |-> next[L + 1] + j]
          /\ live'[L + 1].op # "draw" => next[(L + 1) + 1] = next[L + 1]
      <4>1. (L + 1) + 1 = L + 2
        BY <1>6
      <4>2. live'[L + 1].op = o.op /\ live'[L + 1].arg = o.arg /\ live'[L + 1].val = v
        BY <1>6
      <4> QED
        BY <2>5, <4>1, <4>2
    <3>3. \A i \in 1..(L + 1) : i \in 1..L \/ i = L + 1
      BY <1>6
    <3> QED
      BY <3>1, <3>2, <3>3
  <2>8. (L + 1) + 1 = L + 2 /\ 1 \in 1..(L + 1)
    BY <1>6
  <2>9. Draws(next, live', drawn')
    BY <1>6, <2>3, <2>4, <2>7, <2>8 DEF Draws
  <2>10. ~poison' => drawPos' = next[Len(seen') + 1]
    BY <1>3, <2>3, <2>4, <2>6, <2>8
  <2> QED
    BY <2>9, <2>10 DEF Drawing
<1>13. Len(seen) = 0 /\ seen' = seen
  BY <1>3, EmptySeq
<1> QED
  BY <1>8, <1>10, <1>11, <1>12, <1>13 DEF ReplayInv

(* An answer that is not a miss is what the handler was given live.         *)
LEMMA AnswersAreLive ==
  ASSUME Ordinary, ReplayInv, NEW n \in 1..Len(live), NEW pos, Drawing(pos), drawPos = pos[n],
         ~Replayed(live[n]).miss
  PROVE  Replayed(live[n]).val = live[n].val
<1> DEFINE o == live[n]
<1>1. Given(world, o) /\ o.op \in OpNames /\ n \in DOMAIN live
  <2>1. PICK vals : live \in Seq(Observations(vals))
    BY DEF ReplayInv, ReplayShape
  <2>2. live[n] \in Observations(vals) /\ n \in DOMAIN live
    BY <2>1, ElementOfSeq, LenProperties
  <2> QED
    BY <2>2 DEF ReplayInv, Observations
<1>2. world.payload \in {"none", "text"} /\ world.kind \in Kinds
  BY DEF ReplayInv, ReplayShape, Worlds, Ordinary
<1>3. \A p \in {"none", "text"} : Decoded(p) = p
  BY DEF Decoded
<1>4. CASE o.op = "header"
  <2>1. o.arg \in Values
    BY <1>1, <1>4 DEF Values
  <2>2. Replayed(o) = Header(o.arg)
    BY <1>4 DEF Replayed
  <2> QED
    BY <1>1, <1>4, <2>1, <2>2 DEF Header, Given, Handed, Miss
<1>5. CASE o.op = "payload"
  <2>1. Did(live, "payload")
    BY <1>1, <1>5 DEF Did
  <2>2. Replayed(o) = Payload
    BY <1>5 DEF Replayed
  <2>3. ~PayloadGone
    BY <2>2 DEF Payload, Miss
  <2>4. BodyBytes \/ world.payload = "none"
    BY <1>2, <2>1, <2>3, ReplayAssumption
    DEF PayloadGone, BodyBytes, ChunkBytes, TriggerBytes, TriggerClaimed, TriggerPlace, InboundKinds
  <2>5. Payload.val = IF BodyBytes THEN Decoded(world.payload) ELSE "none"
    BY DEF Payload, Handed, Miss
  <2> QED
    BY <1>1, <1>2, <1>3, <1>5, <2>2, <2>4, <2>5 DEF Given
<1>6. CASE o.op = "ip"
  <2>1. Did(live, "ip")
    BY <1>1, <1>6 DEF Did
  <2>2. Replayed(o) = Address
    BY <1>6 DEF Replayed
  <2> QED
    BY <1>1, <1>6, <2>1, <2>2 DEF Address, Handed, Given
<1>7. CASE o.op = "ctx"
  <2>1. Replayed(o) = Ctx
    BY <1>7 DEF Replayed
  <2>2. CASE world.kind \in InboundKinds
    BY <1>1, <1>2, <1>7, <2>1, <2>2 DEF Ctx, HasCtx, Handed, Miss, Given
  <2>3. CASE world.kind \notin InboundKinds
    <3>1. HasCtx \/ PayloadGone
      BY <2>3 DEF HasCtx, PayloadGone, TriggerBytes, TriggerClaimed
    <3>2. HasCtx
      BY <2>1, <2>3, <3>1 DEF Ctx, Miss
    <3> QED
      BY <1>1, <1>7, <2>1, <2>3, <3>2 DEF Ctx, Handed, Given
  <2> QED
    BY <2>2, <2>3
<1>8. CASE o.op = "draw"
  <2>1. Replayed(o) = Draw(o.arg)
    BY <1>8 DEF Replayed
  <2>2. o.arg \in Nat /\ o.val = [j \in 1..o.arg |-> drawPos + j]
    BY <1>1, <1>8 DEF Given, Drawing, Draws
  <2>3. CASE drawPos + o.arg <= Kept
    BY <2>1, <2>2, <2>3 DEF Draw, Handed
  <2>4. CASE ~(drawPos + o.arg <= Kept)
    <3>1. o.arg = 0
      BY <2>1, <2>4 DEF Draw, Handed, Miss
    <3>2. Replayed(o).val = <<>>
      BY <2>1, <2>4, <3>1 DEF Draw, Handed
    <3>3. o.val = [j \in 1..0 |-> drawPos + j]
      BY <2>2, <3>1
    <3> QED
      BY <3>2, <3>3, NoDraws
  <2> QED
    BY <2>3, <2>4
<1>9. CASE o.op = "set"
  <2>1. Replayed(o) = Write(o.arg)
    BY <1>9 DEF Replayed
  <2>2. o.arg \in Refusals <=> o.val = "refused"
    <3>1. o.val = "refused" => o.arg \in Refusals
      BY <1>1, <1>9 DEF Refusals
    <3>2. ASSUME o.arg \in Refusals PROVE o.val = "refused"
      <4>1. PICK j \in DOMAIN live : live[j].op = "set" /\ live[j].val = "refused" /\ live[j].arg = o.arg
        BY <3>2 DEF Refusals
      <4>2. DOMAIN live = 1..Len(live)
        BY LenProperties DEF ReplayInv, ReplayShape
      <4> QED
        BY <1>9, <4>1, <4>2 DEF ReplayInv
    <3> QED
      BY <3>1, <3>2
  <2>3. o.val \in {"ok", "refused"}
    BY <1>1, <1>9 DEF Given
  <2> QED
    BY <2>1, <2>2, <2>3 DEF Write, Handed
<1> QED
  BY <1>1, <1>4, <1>5, <1>6, <1>7, <1>8, <1>9 DEF OpNames

LEMMA ReadStep == ASSUME Ordinary, ReplayInv, Read PROVE ReplayInv'
<1> DEFINE n == Len(seen) + 1
           o == live[n]
           r == Replayed(o)
<1>1. /\ phase = "replay" /\ Len(seen) < Len(live)
      /\ seen' = Append(seen, [op |-> o.op, arg |-> o.arg, val |-> r.val])
      /\ poison' = (poison \/ r.miss)
      /\ drawPos' = IF o.op = "draw" /\ ~r.miss THEN drawPos + o.arg ELSE drawPos
      /\ UNCHANGED <<world, phase, live, drawn>>
  BY DEF Read
<1>2. PICK vals : live \in Seq(Observations(vals))
  BY DEF ReplayInv, ReplayShape
<1>3. PICK seens : seen \in Seq(Observations(seens))
  BY DEF ReplayInv, ReplayShape
<1>4. Len(seen) \in Nat /\ Len(live) \in Nat /\ n \in 1..Len(live)
  BY <1>1, <1>2, <1>3, LenProperties
<1>5. /\ o \in Observations(vals) /\ o.op \in OpNames /\ o.arg \in Headers \cup Keys \cup 0..2
      /\ o = [op |-> o.op, arg |-> o.arg, val |-> o.val]
  <2>1. o \in Observations(vals)
    BY <1>2, <1>4, ElementOfSeq
  <2> QED
    BY <2>1 DEF Observations
<1>6. /\ seen' \in Seq(Observations(seens \cup {r.val})) /\ Len(seen') = Len(seen) + 1
      /\ \A i \in 1..Len(seen) : seen'[i] = seen[i]
      /\ seen'[Len(seen) + 1] = [op |-> o.op, arg |-> o.arg, val |-> r.val]
  <2> DEFINE e == [op |-> o.op, arg |-> o.arg, val |-> r.val]
  <2>1. e \in Observations({r.val})
    BY <1>5 DEF Observations
  <2>2. seen' = Append(seen, e)
    BY <1>1
  <2> HIDE DEF e, o, r
  <2>3. /\ Append(seen, e) \in Seq(Observations(seens \cup {r.val}))
        /\ Len(seen) \in Nat /\ Len(Append(seen, e)) = Len(seen) + 1
        /\ \A i \in 1..Len(seen) : Append(seen, e)[i] = seen[i]
        /\ Append(seen, e)[Len(seen) + 1] = e
    BY <1>3, <2>1, OneMoreSeen
  <2> QED
    BY <2>2, <2>3 DEF e
<1>7. PICK pos : Drawing(pos)
  BY DEF ReplayInv
<1>8. Given(world, o) /\ (o.op = "draw" => o.arg \in Nat)
  BY <1>4 DEF ReplayInv, Given
<1>9. r.miss \in BOOLEAN
  BY <1>5 DEF OpNames, Replayed, Header, Payload, Address, Ctx, Draw, Write, Handed, Miss
<1>10. ReplayShape'
  <2>1. drawPos' \in Nat /\ poison' \in BOOLEAN
    BY <1>1, <1>8, <1>9 DEF ReplayInv, ReplayShape
  <2> QED
    BY <1>1, <1>2, <1>4, <1>6, <2>1 DEF ReplayInv, ReplayShape
<1>11. ~poison => drawPos = pos[n]
  BY <1>7 DEF Drawing
<1>12. Drawing(pos)'
  <2>1. ~poison' => drawPos' = pos[n + 1]
    BY <1>1, <1>4, <1>7, <1>11 DEF Drawing, Draws
  <2> QED
    BY <1>1, <1>6, <1>7, <2>1 DEF Drawing
<1>13. ASSUME ~poison' PROVE \A i \in 1..Len(seen') : seen'[i] = live[i]
  <2>1. ~poison /\ ~r.miss
    BY <1>1, <1>13
  <2>2. r.val = o.val
    BY <1>4, <1>7, <1>11, <2>1, AnswersAreLive
  <2>3. seen'[n] = o
    BY <1>5, <1>6, <2>2
  <2>4. \A i \in 1..Len(seen) : seen'[i] = live[i]
    BY <1>6, <2>1 DEF ReplayInv
  <2> QED
    BY <1>4, <1>6, <2>3, <2>4
<1>14. \A i \in 1..Len(live) : Given(world', live'[i])
  BY <1>1 DEF ReplayInv, Given
<1> QED
  BY <1>1, <1>10, <1>12, <1>13, <1>14 DEF ReplayInv

(* The viewer opens the record, ends a pass, or begins another.             *)
LEMMA PassStep == ASSUME ReplayInv, Open \/ Park \/ Brake \/ Again \/ UNCHANGED replayVars PROVE ReplayInv'
<1>1. UNCHANGED <<world, live, drawn>>
  BY DEF Open, Park, Brake, Again, replayVars
<1>2. \A i \in 1..Len(live) : Given(world', live'[i])
  BY <1>1 DEF ReplayInv, Given
<1>3. PICK pos : Drawing(pos)
  BY DEF ReplayInv
<1>4. CASE Again
  <2>1. seen' = <<>> /\ drawPos' = 0 /\ poison' = FALSE /\ phase' = "replay"
    BY <1>4 DEF Again
  <2>2. Len(seen') = 0 /\ seen' \in Seq(Observations({}))
    BY <2>1, EmptySeq
  <2>3. Drawing(pos)'
    BY <1>1, <1>3, <2>1, <2>2 DEF Drawing, Draws
  <2>4. ReplayShape'
    <3>1. Len(live) \in Nat
      BY LenProperties DEF ReplayInv, ReplayShape
    <3>2. (\E vals : live \in Seq(Observations(vals)))' /\ (\E vals : seen \in Seq(Observations(vals)))'
      BY <1>1, <2>2 DEF ReplayInv, ReplayShape
    <3>3. world' \in Worlds /\ drawn' \in Nat
      BY <1>1 DEF ReplayInv, ReplayShape
    <3>4. phase' # "live" /\ drawPos' \in Nat /\ poison' \in BOOLEAN
      BY <2>1
    <3>5. Len(seen') <= Len(live')
      <4>1. Len(seen') = 0 /\ Len(live') = Len(live)
        BY <1>1, <2>2
      <4> QED
        BY <3>1, <4>1
    <3> QED
      BY <3>2, <3>3, <3>4, <3>5 DEF ReplayShape
  <2> QED
    BY <1>1, <1>2, <2>2, <2>3, <2>4 DEF ReplayInv
<1>5. CASE Open \/ Park \/ Brake \/ UNCHANGED replayVars
  <2>1. UNCHANGED <<seen, drawPos, poison>> /\ (phase' = "live" => phase = "live")
    BY <1>5 DEF Open, Park, Brake, replayVars
  <2>2. Drawing(pos)'
    BY <1>1, <1>3, <2>1 DEF Drawing
  <2>3. ReplayShape'
    BY <1>1, <2>1 DEF ReplayInv, ReplayShape
  <2> QED
    BY <1>1, <1>2, <2>1, <2>2, <2>3 DEF ReplayInv
<1> QED
  BY <1>4, <1>5

(* For any headers, keys, cap of the tape, places of payloads and number of *)
(* passes, and whatever the Features of the world are, an Ordinary run that *)
(* was handed anything it was not handed live is poisoned, and only one     *)
(* that observed what the captured run observed is shown as verified.       *)
THEOREM AlwaysFaithfulOrPoisoned == ReplaySpec => [](Ordinary => FaithfulOrPoisoned)
<1>1. AnySeq /\ (Ordinary => ReplayInv) /\ [ReplayNext]_replayVars =>
         AnySeq' /\ (Ordinary => ReplayInv)'
  <2> SUFFICES ASSUME AnySeq, Ordinary => ReplayInv, [ReplayNext]_replayVars, Ordinary'
               PROVE  ReplayInv'
    BY AlwaysASeq
  <2>1. CASE LiveRead
    <3>1. Ordinary
      BY <2>1, LiveGrows DEF LiveRead
    <3> QED
      BY <2>1, <3>1, LiveReadStep
  <2>2. CASE ~LiveRead
    <3>1. UNCHANGED <<world, live>>
      BY <2>2 DEF ReplayNext, Open, Read, Park, Brake, Again, replayVars
    <3>2. Ordinary
      BY <3>1 DEF Ordinary
    <3> QED
      BY <2>2, <3>2, ReadStep, PassStep DEF ReplayNext
  <2> QED
    BY <2>1, <2>2
<1>2. ReplayInv => FaithfulOrPoisoned
  <2> SUFFICES ASSUME ReplayInv PROVE FaithfulOrPoisoned
    OBVIOUS
  <2>1. DOMAIN seen = 1..Len(seen)
    BY LenProperties DEF ReplayInv, ReplayShape
  <2>2. Faithful \/ poison
    BY <2>1 DEF ReplayInv, Faithful
  <2>3. Trust = "verified" => ~poison
    BY DEF Trust, DigestVerdict
  <2> QED
    BY <2>2, <2>3 DEF FaithfulOrPoisoned
<1>3. ReplayInit => AnySeq /\ (Ordinary => ReplayInv)
  <2>1. <<>> \in Seq({})
    BY EmptySeq
  <2> QED
    BY <2>1, ReplayInitInv DEF ReplayInit, AnySeq
<1> QED
  BY <1>1, <1>2, <1>3, PTL DEF ReplaySpec

------------------------------------------------------------------------------
(* Window.  Every payload, the one shown and those stored, is the saga from *)
(* its first hop to some hop, with the gaps between neighbours; every       *)
(* answer is a run of hops after a cursor that the log had reached.         *)

(* The m hops after c, and the seams between them.                          *)
Run(c, m) == [i \in 1..m |-> c + i]
Seam(a) == [after |-> a, before |-> a + 1, count |-> Count(a, a + 1)]
SeamsOf(c, m) == [i \in 1..(m - 1) |-> Seam(c + i)]

Counts == {Count(a, b) : a \in Nat, b \in Nat}
SeamType == [after : Nat, before : Nat, count : Counts]
TrueScans == {s \in [after : Nat, before : Nat, scanned : Counts] : s.scanned = Count(s.after, s.before)}

Sagas(n) == [bundle : Nat, hops : {Run(0, n)}, gaps : {SeamsOf(0, n)}, more : BOOLEAN,
                seams : SUBSET TrueScans]

(* A record shown without its saga, and nothing shown. *)
Bare == [bundle : Nat, hops : {<<>>}, gaps : {<<>>}, more : {FALSE}, seams : {{}}]

Good(payload) == payload \in Bare \/ \E n \in 1..recorded : payload \in Sagas(n)

Questions == [kind : {"ready", "tail"}, arg : Nat]

WindowInv ==
    /\ recorded \in Hops /\ fragment \in Hops
    /\ questions \subseteq Questions
    /\ \A question \in questions : question.kind = "tail" => question.arg < recorded
    /\ Good(shown)
    /\ DOMAIN store = Hops /\ \A h \in Hops : Good(store[h])
    /\ page = "waiting" => ~checking
    /\ checking => page = "shown" /\ shown.hops # <<>>

LEMMA RunIsSeq ==
  ASSUME NEW c \in Nat, NEW m \in Nat
  PROVE  /\ Run(c, m) \in Seq(Nat) /\ Len(Run(c, m)) = m /\ DOMAIN Run(c, m) = 1..m
         /\ \A i \in 1..m : Run(c, m)[i] = c + i
  BY DEF Run

LEMMA SeamsAreSeq ==
  ASSUME NEW c \in Nat, NEW m \in Nat \ {0}
  PROVE  /\ SeamsOf(c, m) \in Seq(SeamType) /\ Len(SeamsOf(c, m)) = m - 1
         /\ DOMAIN SeamsOf(c, m) = 1..(m - 1)
         /\ \A i \in 1..(m - 1) : SeamsOf(c, m)[i] = Seam(c + i)
<1>1. \A a \in Nat : Seam(a) \in SeamType
  BY DEF Seam, SeamType, Counts
<1>2. \A i \in 1..(m - 1) : c + i \in Nat
  OBVIOUS
<1> HIDE DEF Seam, SeamType
<1>3. \A i \in 1..(m - 1) : Seam(c + i) \in SeamType
  BY <1>1, <1>2
<1> QED
  BY <1>3 DEF SeamsOf

(* The saga from its first hop.                                             *)
LEMMA FromTheFirst ==
  ASSUME NEW n \in Nat \ {0}
  PROVE  /\ Run(0, n) \in Seq(Nat) /\ Len(Run(0, n)) = n /\ DOMAIN Run(0, n) = 1..n
         /\ \A i \in 1..n : Run(0, n)[i] = i
         /\ SeamsOf(0, n) \in Seq(SeamType) /\ Len(SeamsOf(0, n)) = n - 1
         /\ DOMAIN SeamsOf(0, n) = 1..(n - 1)
         /\ \A i \in 1..(n - 1) : SeamsOf(0, n)[i] = Seam(i)
<1>1. 0 \in Nat /\ \A i \in Int : 0 + i = i
  OBVIOUS
<1>2. /\ Run(0, n) \in Seq(Nat) /\ Len(Run(0, n)) = n /\ DOMAIN Run(0, n) = 1..n
      /\ \A i \in 1..n : Run(0, n)[i] = 0 + i
  BY <1>1, RunIsSeq
<1>3. /\ SeamsOf(0, n) \in Seq(SeamType) /\ Len(SeamsOf(0, n)) = n - 1
      /\ DOMAIN SeamsOf(0, n) = 1..(n - 1)
      /\ \A i \in 1..(n - 1) : SeamsOf(0, n)[i] = Seam(0 + i)
  BY <1>1, SeamsAreSeq
<1> QED
  BY <1>1, <1>2, <1>3

(* A page of the saga.                                                      *)
LEMMA PageOf ==
  ASSUME NEW c \in Nat, recorded \in Nat, c < recorded
  PROVE  \E m \in Nat \ {0} : /\ c + m <= recorded
                              /\ SagaAfter(c).hops = Run(c, m)
                              /\ SagaAfter(c).gaps = SeamsOf(c, m)
                              /\ SagaAfter(c).more \in BOOLEAN
<1> DEFINE m == IF recorded - c > SagaPage THEN SagaPage ELSE recorded - c
<1>1. m \in Nat \ {0} /\ c + m <= recorded
  BY WindowAssumption
<1>2. HopsAfter(c) = Run(c, m)
  BY DEF HopsAfter, Run
<1> HIDE DEF m
<1>3. GapsOf(Run(c, m)) = SeamsOf(c, m)
  <2>1. Len(Run(c, m)) = m /\ \A i \in 1..m : Run(c, m)[i] = c + i
    BY <1>1, RunIsSeq
  <2>2. \A i \in 1..(m - 1) : i \in 1..m /\ i + 1 \in 1..m /\ c + (i + 1) = (c + i) + 1
    BY <1>1
  <2>3. \A i \in 1..(m - 1) : Run(c, m)[i] = c + i /\ Run(c, m)[i + 1] = (c + i) + 1
    BY <2>1, <2>2
  <2> QED
    BY <2>1, <2>3 DEF GapsOf, SeamsOf, Seam
<1>4. /\ SagaAfter(c).hops = HopsAfter(c) /\ SagaAfter(c).gaps = GapsOf(HopsAfter(c))
      /\ SagaAfter(c).more \in BOOLEAN
  BY DEF SagaAfter
<1> QED
  BY <1>1, <1>2, <1>3, <1>4

(* A scan is of the gap it was asked for.                                   *)
LEMMA ScansAreTrue ==
  ASSUME NEW c \in Nat, NEW m \in Nat \ {0}, NEW works
  PROVE  Scanned(SeamsOf(c, m), works) \subseteq TrueScans
<1> DEFINE gaps == SeamsOf(c, m)
<1>1. \A i \in DOMAIN gaps : gaps[i] = Seam(c + i) /\ c + i \in Nat
  <2>1. DOMAIN gaps = 1..(m - 1) /\ \A i \in 1..(m - 1) : gaps[i] = Seam(c + i)
    BY SeamsAreSeq
  <2> QED
    BY <2>1
<1>2. \A a \in Nat : [after |-> Seam(a).after, before |-> Seam(a).before, scanned |-> Seam(a).count] \in TrueScans
  BY DEF Seam, TrueScans, Counts
<1>3. \A s \in Scanned(gaps, works) :
        \E i \in DOMAIN gaps : s = [after |-> gaps[i].after, before |-> gaps[i].before, scanned |-> gaps[i].count]
  BY DEF Scanned
<1> HIDE DEF gaps
<1>4. \A i \in DOMAIN gaps :
        [after |-> gaps[i].after, before |-> gaps[i].before, scanned |-> gaps[i].count] \in TrueScans
  BY <1>1, <1>2
<1> QED
  BY <1>3, <1>4 DEF gaps

(* Where a page goes on: from the second of its hops at least, or nowhere.  *)
LEMMA FirstNewOf ==
  ASSUME NEW n \in Nat \ {0}, NEW c \in Nat, NEW m \in Nat \ {0}
  PROVE  /\ c + m <= n => FirstNew(Run(0, n), Run(c, m)) = 0
         /\ c + m > n /\ c >= n => FirstNew(Run(0, n), Run(c, m)) = 1
         /\ c + m > n /\ c < n => FirstNew(Run(0, n), Run(c, m)) = n - c + 1
<1> DEFINE held == Run(0, n)
           hops == Run(c, m)
<1>1. ToSet(held) = 1..n
  <2>1. DOMAIN held = 1..n /\ \A i \in 1..n : held[i] = i
    BY FromTheFirst
  <2> HIDE DEF held
  <2> QED
    BY <2>1 DEF ToSet
<1>2. DOMAIN hops = 1..m /\ \A i \in 1..m : hops[i] = c + i
  BY RunIsSeq
<1> HIDE DEF held, hops
<1>3. \A i \in 1..m : hops[i] \in ToSet(held) <=> c + i <= n
  BY <1>1, <1>2
<1>4. CASE c + m <= n
  BY <1>2, <1>3, <1>4 DEF FirstNew, held, hops
<1>5. CASE c + m > n
  <2> DEFINE k == IF c >= n THEN 1 ELSE n - c + 1
             New(i) == hops[i] \notin ToSet(held) /\ \A j \in 1..(i - 1) : hops[j] \in ToSet(held)
  <2>1. k \in 1..m /\ ~(hops[k] \in ToSet(held)) /\ \A j \in 1..(k - 1) : j \in 1..m /\ hops[j] \in ToSet(held)
    BY <1>3, <1>5
  <2>2. ~(\A i \in DOMAIN hops : hops[i] \in ToSet(held))
    BY <1>2, <2>1
  <2>3. FirstNew(held, hops) = CHOOSE i \in DOMAIN hops : New(i)
    BY <2>2 DEF FirstNew
  <2>4. New(k) /\ k \in DOMAIN hops
    BY <1>2, <2>1
  <2>5. \A i \in DOMAIN hops : New(i) => i = k
    <3> SUFFICES ASSUME NEW i \in 1..m, New(i), i # k PROVE FALSE
      BY <1>2
    <3> HIDE DEF k
    <3>1. CASE i < k
      BY <2>1, <3>1
    <3>2. CASE k < i
      BY <2>1, <3>2
    <3> QED
      BY <2>1, <3>1, <3>2
  <2> HIDE DEF New
  <2>6. FirstNew(held, hops) = k
    BY <2>3, <2>4, <2>5
  <2> QED
    BY <1>5, <2>6 DEF held, hops
<1> QED
  BY <1>4, <1>5 DEF held, hops

(* What is held and the rest of a page that overlaps it are one run.        *)
LEMMA HopsJoin ==
  ASSUME NEW n \in Nat \ {0}, NEW c \in Nat, NEW m \in Nat \ {0}, c < n, c + m > n
  PROVE  Run(0, n) \o From(Run(c, m), n - c + 1) = Run(0, c + m)
<1> DEFINE k == n - c + 1
           rest == SubSeq(Run(c, m), k, m)
           whole == Run(0, n) \o rest
<1>1. /\ Run(0, n) \in Seq(Nat) /\ Len(Run(0, n)) = n /\ \A i \in 1..n : Run(0, n)[i] = i
      /\ Len(Run(c, m)) = m /\ \A i \in 1..m : Run(c, m)[i] = c + i
      /\ Run(0, c + m) \in Seq(Nat) /\ Len(Run(0, c + m)) = c + m
      /\ \A i \in 1..(c + m) : Run(0, c + m)[i] = i
  <2>1. c + m \in Nat \ {0}
    OBVIOUS
  <2>2. Len(Run(c, m)) = m /\ \A i \in 1..m : Run(c, m)[i] = c + i
    BY RunIsSeq
  <2> QED
    BY <2>1, <2>2, FromTheFirst
<1>2. k \in 1..m /\ \A i \in k..m : Run(c, m)[i] \in Nat
  BY <1>1
<1>3. /\ rest \in Seq(Nat) /\ Len(rest) = m - k + 1
      /\ \A i \in 1..(m - k + 1) : rest[i] = Run(c, m)[k + i - 1]
  BY <1>2, SubSeqProperties
<1>4. \A i \in 1..(m - k + 1) : rest[i] = n + i
  <2> SUFFICES ASSUME NEW i \in 1..(m - k + 1) PROVE rest[i] = n + i
    OBVIOUS
  <2>1. k + i - 1 \in 1..m /\ c + (k + i - 1) = n + i
    BY <1>2
  <2> QED
    BY <1>1, <1>3, <2>1
<1>5. From(Run(c, m), k) = rest
  BY <1>1 DEF From
<1> HIDE DEF rest
<1>6. /\ whole \in Seq(Nat) /\ Len(whole) = n + (m - k + 1)
      /\ \A i \in 1..(n + (m - k + 1)) : whole[i] = IF i <= n THEN Run(0, n)[i] ELSE rest[i - n]
  <2> DEFINE held == Run(0, n)
  <2>1. held \in Seq(Nat) /\ rest \in Seq(Nat) /\ Len(held) = n /\ Len(rest) = m - k + 1
    BY <1>1, <1>3
  <2> HIDE DEF held, k
  <2>2. /\ held \o rest \in Seq(Nat) /\ Len(held \o rest) = Len(held) + Len(rest)
        /\ \A i \in 1..(Len(held) + Len(rest)) :
             (held \o rest)[i] = IF i <= Len(held) THEN held[i] ELSE rest[i - Len(held)]
    BY <2>1, ConcatProperties
  <2> QED
    BY <2>1, <2>2 DEF held
<1>7. n + (m - k + 1) = c + m
  OBVIOUS
<1>8. \A i \in 1..(c + m) : whole[i] = i
  <2> SUFFICES ASSUME NEW i \in 1..(c + m) PROVE whole[i] = i
    OBVIOUS
  <2>1. CASE i <= n
    BY <1>1, <1>6, <1>7, <2>1
  <2>2. CASE ~(i <= n)
    <3>1. i - n \in 1..(m - k + 1) /\ n + (i - n) = i
      BY <2>2
    <3> HIDE DEF whole
    <3> QED
      BY <1>4, <1>6, <1>7, <2>2, <3>1
  <2> QED
    BY <2>1, <2>2
<1> HIDE DEF whole
<1>9. whole = Run(0, c + m)
  BY <1>1, <1>6, <1>7, <1>8, SeqEqual
<1> QED
  BY <1>5, <1>9 DEF whole

(* And so are the seams, with the one that joins them.                      *)
LEMMA SeamsJoin ==
  ASSUME NEW n \in Nat \ {0}, NEW c \in Nat, NEW m \in Nat \ {0}, c < n, c + m > n
  PROVE  SeamsOf(0, n) \o From(SeamsOf(c, m), SeamFrom(n - c + 1)) = SeamsOf(0, c + m)
<1> DEFINE k == n - c
           rest == SubSeq(SeamsOf(c, m), k, m - 1)
           whole == SeamsOf(0, n) \o rest
<1>1. /\ SeamsOf(0, n) \in Seq(SeamType) /\ Len(SeamsOf(0, n)) = n - 1
      /\ \A i \in 1..(n - 1) : SeamsOf(0, n)[i] = Seam(i)
      /\ SeamsOf(c, m) \in Seq(SeamType) /\ Len(SeamsOf(c, m)) = m - 1
      /\ \A i \in 1..(m - 1) : SeamsOf(c, m)[i] = Seam(c + i)
      /\ SeamsOf(0, c + m) \in Seq(SeamType) /\ Len(SeamsOf(0, c + m)) = c + m - 1
      /\ \A i \in 1..(c + m - 1) : SeamsOf(0, c + m)[i] = Seam(i)
  <2>1. c + m \in Nat \ {0}
    OBVIOUS
  <2>2. /\ SeamsOf(c, m) \in Seq(SeamType) /\ Len(SeamsOf(c, m)) = m - 1
        /\ \A i \in 1..(m - 1) : SeamsOf(c, m)[i] = Seam(c + i)
    BY SeamsAreSeq
  <2>3. \A w \in Nat \ {0} :
           /\ SeamsOf(0, w) \in Seq(SeamType) /\ Len(SeamsOf(0, w)) = w - 1
           /\ \A i \in 1..(w - 1) : SeamsOf(0, w)[i] = Seam(i)
    BY FromTheFirst
  <2> DEFINE w == c + m
  <2>4. /\ SeamsOf(0, w) \in Seq(SeamType) /\ Len(SeamsOf(0, w)) = w - 1
        /\ \A i \in 1..(w - 1) : SeamsOf(0, w)[i] = Seam(i)
    BY <2>1, <2>3
  <2>5. /\ SeamsOf(0, n) \in Seq(SeamType) /\ Len(SeamsOf(0, n)) = n - 1
        /\ \A i \in 1..(n - 1) : SeamsOf(0, n)[i] = Seam(i)
    BY <2>3
  <2> QED
    BY <2>2, <2>4, <2>5
<1>2. k \in 1..(m - 1) /\ \A i \in k..(m - 1) : SeamsOf(c, m)[i] \in SeamType
  BY <1>1, ElementOfSeq
<1>3. /\ rest \in Seq(SeamType) /\ Len(rest) = m - k
      /\ \A i \in 1..(m - k) : rest[i] = SeamsOf(c, m)[k + i - 1]
  <2>1. m - 1 - k + 1 = m - k /\ k \in Int /\ m - 1 \in Int /\ k <= m - 1
    BY <1>2
  <2> HIDE DEF k
  <2> QED
    BY <1>2, <2>1, SubSeqProperties
<1>4. \A i \in 1..(m - k) : rest[i] = Seam(n - 1 + i)
  <2> SUFFICES ASSUME NEW i \in 1..(m - k) PROVE rest[i] = Seam(n - 1 + i)
    OBVIOUS
  <2>1. k + i - 1 \in 1..(m - 1) /\ c + (k + i - 1) = n - 1 + i
    BY <1>2
  <2> QED
    BY <1>1, <1>3, <2>1
<1>5. From(SeamsOf(c, m), SeamFrom(n - c + 1)) = rest
  <2>1. n - c + 1 - 1 = k
    OBVIOUS
  <2> QED
    BY <1>1, <2>1 DEF From, SeamFrom
<1> HIDE DEF rest
<1>6. /\ whole \in Seq(SeamType) /\ Len(whole) = (n - 1) + (m - k)
      /\ \A i \in 1..((n - 1) + (m - k)) : whole[i] = IF i <= n - 1 THEN SeamsOf(0, n)[i] ELSE rest[i - (n - 1)]
  <2> DEFINE held == SeamsOf(0, n)
  <2>1. held \in Seq(SeamType) /\ rest \in Seq(SeamType) /\ Len(held) = n - 1 /\ Len(rest) = m - k
    BY <1>1, <1>3
  <2> HIDE DEF held, k
  <2>2. /\ held \o rest \in Seq(SeamType) /\ Len(held \o rest) = Len(held) + Len(rest)
        /\ \A i \in 1..(Len(held) + Len(rest)) :
             (held \o rest)[i] = IF i <= Len(held) THEN held[i] ELSE rest[i - Len(held)]
    BY <2>1, ConcatProperties
  <2> QED
    BY <2>1, <2>2 DEF held
<1>7. (n - 1) + (m - k) = c + m - 1
  OBVIOUS
<1>8. \A i \in 1..(c + m - 1) : whole[i] = Seam(i)
  <2> SUFFICES ASSUME NEW i \in 1..(c + m - 1) PROVE whole[i] = Seam(i)
    OBVIOUS
  <2>1. CASE i <= n - 1
    BY <1>1, <1>6, <1>7, <2>1
  <2>2. CASE ~(i <= n - 1)
    <3>1. i - (n - 1) \in 1..(m - k) /\ n - 1 + (i - (n - 1)) = i
      BY <2>2
    <3> HIDE DEF whole
    <3> QED
      BY <1>4, <1>6, <1>7, <2>2, <3>1
  <2> QED
    BY <2>1, <2>2
<1> HIDE DEF whole
<1>9. whole = SeamsOf(0, c + m)
  BY <1>1, <1>6, <1>7, <1>8, SeqEqual
<1> QED
  BY <1>5, <1>9 DEF whole

(* The merge of a page into a window keeps the window one.                  *)
LEMMA MergedIsGood ==
  ASSUME recorded \in Nat, NEW n \in 1..recorded, NEW held \in Sagas(n),
         NEW c \in Nat, NEW m \in Nat \ {0}, c + m <= recorded,
         NEW tail, tail.hops = Run(c, m), tail.gaps = SeamsOf(c, m), tail.more \in BOOLEAN,
         NEW scans \in SUBSET TrueScans, ~Refuses(held, tail)
  PROVE  Good(Merged(held, tail, scans))
<1> DEFINE first == FirstNew(held.hops, tail.hops)
<1>1. held.hops = Run(0, n) /\ held.gaps = SeamsOf(0, n) /\ held.seams \subseteq TrueScans
      /\ held.bundle \in Nat /\ n \in Nat \ {0}
  BY DEF Sagas
<1>2. MergeSeams(held.seams, scans) \in SUBSET TrueScans
  BY <1>1 DEF MergeSeams
<1>3. CASE first = 0
  <2> DEFINE p == [held EXCEPT !.more = tail.more, !.seams = MergeSeams(held.seams, scans)]
  <2>1. Merged(held, tail, scans) = p
    BY <1>3 DEF Merged
  <2>2. p \in Sagas(n)
    BY <1>2 DEF Sagas
  <2> QED
    BY <2>1, <2>2 DEF Good
<1>4. CASE first # 0
  <2>1. first # 1
    <3>1. held.hops # <<>>
      <4>1. Len(held.hops) = n
        BY <1>1, RunIsSeq
      <4> QED
        BY <1>1, <4>1, EmptySeq
    <3> QED
      BY <3>1 DEF Refuses
  <2>2. c < n /\ c + m > n /\ first = n - c + 1
    BY <1>1, <1>4, <2>1, FirstNewOf
  <2> DEFINE hops == held.hops \o From(tail.hops, first)
             gaps == held.gaps \o From(tail.gaps, SeamFrom(first))
             grown == [held EXCEPT !.hops = hops, !.gaps = gaps]
             p == [grown EXCEPT !.more = tail.more, !.seams = MergeSeams(grown.seams, scans)]
  <2>3. Merged(held, tail, scans) = p
    BY <1>4 DEF Merged
  <2>4. hops = Run(0, c + m) /\ gaps = SeamsOf(0, c + m)
    <3>1. Run(0, n) \o From(Run(c, m), n - c + 1) = Run(0, c + m)
      BY <1>1, <2>2, HopsJoin
    <3>2. SeamsOf(0, n) \o From(SeamsOf(c, m), SeamFrom(n - c + 1)) = SeamsOf(0, c + m)
      BY <1>1, <2>2, SeamsJoin
    <3> QED
      BY <1>1, <2>2, <3>1, <3>2
  <2> HIDE DEF hops, gaps
  <2>5. grown \in Sagas(c + m) /\ grown.seams = held.seams
    BY <2>4 DEF Sagas
  <2> HIDE DEF grown
  <2>6. p \in Sagas(c + m)
    BY <1>2, <2>5 DEF Sagas
  <2>7. c + m \in 1..recorded
    BY <2>2
  <2> QED
    BY <2>3, <2>6, <2>7 DEF Good
<1> QED
  BY <1>3, <1>4

LEMMA NothingIsBare == NoPayload \in Bare
  BY DEF NoPayload, Bare

LEMMA WindowInitInv == WindowInit => WindowInv
  BY WindowAssumption, NothingIsBare DEF WindowInit, WindowInv, Good, Hops

(* The log only grows.                                                      *)
LEMMA GoodStays == ASSUME recorded \in Nat, recorded' \in Nat, recorded <= recorded', NEW p, Good(p)
                   PROVE  p \in Bare \/ \E n \in 1..recorded' : p \in Sagas(n)
  BY DEF Good


(* Steps of the page that hear nothing.                                     *)
LEMMA PageStep ==
  ASSUME WindowInv, Boot \/ NavigateToHop \/ Reload \/ Back \/ TimesOut \/ DashboardCloses
                    \/ UNCHANGED windowVars
  PROVE  WindowInv'
<1>1. CASE Boot
  <2>1. UNCHANGED <<recorded, fragment, checking, store>> /\ page = "boot" /\ ~checking
    BY <1>1 DEF Boot, WindowInv
  <2>2. shown' = shown \/ shown' = store[fragment]
    BY <1>1 DEF Boot
  <2>3. questions' \subseteq questions \cup {[kind |-> "ready", arg |-> fragment]}
    BY <1>1 DEF Boot, Ask
  <2>4. [kind |-> "ready", arg |-> fragment] \in Questions
    BY DEF WindowInv, Questions, Hops
  <2>5. Good(shown)' /\ \A h \in Hops : Good(store[h])'
    BY <2>1, <2>2 DEF WindowInv, Good
  <2>6. \A question \in questions' : question.kind = "tail" => question.arg < recorded
    BY <2>3 DEF WindowInv
  <2> QED
    BY <2>1, <2>3, <2>4, <2>5, <2>6 DEF WindowInv
<1>2. CASE NavigateToHop \/ Reload
  <2>1. PICK hop : Load(hop) /\ hop \in Hops
    <3>1. CASE Reload
      BY <3>1 DEF Reload, WindowInv
    <3>2. CASE NavigateToHop
      <4>1. PICK hop \in ToSet(shown.hops) : Load(hop)
        BY <3>2 DEF NavigateToHop
      <4>2. shown \notin Bare
        <5>1. \A q \in Bare : q.hops = <<>>
          BY DEF Bare
        <5>2. DOMAIN <<>> = {}
          BY EmptySeq
        <5>3. shown.hops # <<>>
          BY <4>1, <5>2 DEF ToSet
        <5> QED
          BY <5>1, <5>3
      <4>3. PICK n \in 1..recorded : shown \in Sagas(n)
        BY <4>2 DEF WindowInv, Good
      <4>4. shown.hops = Run(0, n) /\ n \in Nat /\ n <= SagaHops
        BY <4>3, WindowAssumption DEF Sagas, WindowInv, Hops
      <4>5. DOMAIN Run(0, n) = 1..n /\ \A i \in 1..n : Run(0, n)[i] = i
        BY <4>4, FromTheFirst
      <4>6. hop \in 1..n
        BY <4>1, <4>4, <4>5 DEF ToSet
      <4> QED
        BY <4>1, <4>4, <4>6, WindowAssumption DEF Hops
    <3> QED
      BY <1>2, <3>1, <3>2
  <2> QED
    BY <2>1, NothingIsBare DEF Load, WindowInv, Good
<1>3. CASE Back
  BY <1>3 DEF Back, WindowInv, Good
<1>4. CASE TimesOut
  BY <1>4 DEF TimesOut, HearError, WindowInv, Good
<1>5. CASE DashboardCloses
  BY <1>5 DEF DashboardCloses, WindowInv, Good
<1>6. CASE UNCHANGED windowVars
  BY <1>6 DEF windowVars, WindowInv, Good
<1> QED
  BY <1>1, <1>2, <1>3, <1>4, <1>5, <1>6

(* The page asks what follows the hops it holds.                            *)
LEMMA AskStep == ASSUME WindowInv, CheckForNewHops PROVE WindowInv'
<1> DEFINE question == [kind |-> "tail", arg |-> TailCursor(shown.hops)]
<1>1. /\ page = "shown" /\ shown.hops # <<>>
      /\ UNCHANGED <<recorded, fragment, page, shown, store>>
      /\ questions' \subseteq questions \cup {question}
  BY DEF CheckForNewHops, Ask, WindowInv
<1>2. shown \notin Bare
  BY <1>1 DEF Bare
<1>3. PICK n \in 1..recorded : shown \in Sagas(n)
  BY <1>2 DEF WindowInv, Good
<1>4. shown.hops = Run(0, n) /\ n \in Nat \ {0} /\ n <= recorded /\ recorded \in Nat
  BY <1>3, WindowAssumption DEF Sagas, WindowInv, Hops
<1>5. TailCursor(shown.hops) \in Nat /\ TailCursor(shown.hops) < recorded
  <2>1. Len(Run(0, n)) = n /\ \A i \in 1..n : Run(0, n)[i] = i
    BY <1>4, FromTheFirst
  <2>2. CASE n < 2
    BY <1>4, <2>1, <2>2 DEF TailCursor
  <2>3. CASE ~(n < 2)
    <3>1. n - 1 \in 1..n /\ n - 1 < recorded
      BY <1>4, <2>3
    <3>2. TailCursor(Run(0, n)) = Run(0, n)[n - 1]
      BY <2>1, <2>3 DEF TailCursor
    <3> QED
      BY <1>4, <2>1, <3>1, <3>2
  <2> QED
    BY <2>2, <2>3
<1>6. question \in Questions /\ question.arg < recorded
  BY <1>5 DEF Questions
<1> HIDE DEF question
<1> QED
  BY <1>1, <1>2, <1>6 DEF WindowInv, Good

(* An answer of the dashboard, to the page that asked or to another.        *)
LEMMA ComposeStep == ASSUME WindowInv, Compose PROVE WindowInv'
<1>1. PICK question \in questions, works \in BOOLEAN :
        LET saga == SagaAfter(IF question.kind = "tail" THEN question.arg ELSE 0)
            seams == Scanned(saga.gaps, works)
        IN /\ opener
           /\ questions' = questions \ {question}
           /\ \/ question.kind = "ready" /\ HearBundle(question.arg, saga, seams)
              \/ question.kind = "ready" /\ HearBundle(question.arg, NoSaga, {})
              \/ question.kind = "tail" /\ HearTail(saga, seams)
              \/ HearError(question.kind)
              \/ Unheard(question.kind)
           /\ UNCHANGED <<recorded, opener, fragment>>
  BY DEF Compose
<1> DEFINE c == IF question.kind = "tail" THEN question.arg ELSE 0
           saga == SagaAfter(c)
           seams == Scanned(saga.gaps, works)
<1>2. question \in Questions /\ recorded \in Nat \ {0} /\ recorded \in Hops /\ fragment \in Hops
  BY WindowAssumption DEF WindowInv, Hops
<1>3. c \in Nat /\ c < recorded /\ question.arg \in Nat
  BY <1>2 DEF WindowInv, Questions
<1>4. PICK m \in Nat \ {0} : /\ c + m <= recorded /\ saga.hops = Run(c, m)
                             /\ saga.gaps = SeamsOf(c, m) /\ saga.more \in BOOLEAN
  BY <1>2, <1>3, PageOf
<1>5. seams \in SUBSET TrueScans
  BY <1>3, <1>4, ScansAreTrue
<1>6. UNCHANGED <<recorded, fragment>> /\ questions' \subseteq questions
  BY <1>1
<1>7. ASSUME Good(shown'), ~checking', store' = [store EXCEPT ![fragment] = shown'], page' = "shown"
      PROVE  WindowInv'
  <2>1. DOMAIN store' = Hops /\ \A h \in Hops : store'[h] = shown' \/ store'[h] = store[h]
    BY <1>7 DEF WindowInv
  <2> QED
    BY <1>6, <1>7, <2>1 DEF WindowInv, Good
<1>8. CASE question.kind = "ready" /\ HearBundle(question.arg, saga, seams)
  <2> DEFINE p == [bundle |-> question.arg, hops |-> saga.hops, gaps |-> saga.gaps,
                   more |-> saga.more, seams |-> seams]
  <2>1. shown' = p /\ page' = "shown" /\ store' = [store EXCEPT ![fragment] = p] /\ ~checking'
    BY <1>8 DEF HearBundle, WindowInv
  <2>2. c = 0 /\ m \in 1..recorded
    BY <1>2, <1>4, <1>8
  <2>3. saga.hops = Run(0, m) /\ saga.gaps = SeamsOf(0, m) /\ saga.more \in BOOLEAN
    BY <1>4, <2>2
  <2> HIDE DEF saga, seams
  <2>4. p \in Sagas(m)
    BY <1>3, <1>5, <2>3 DEF Sagas
  <2> HIDE DEF p
  <2>5. Good(p)
    BY <2>2, <2>4 DEF Good
  <2> QED
    BY <1>7, <2>1, <2>5
<1>9. CASE question.kind = "tail" /\ HearTail(saga, seams)
  <2>1. checking /\ checking' = FALSE /\ page' = page /\ page = "shown" /\ shown \notin Bare
    BY <1>9 DEF HearTail, WindowInv, Bare
  <2>2. CASE Refuses(shown, saga)
    BY <1>6, <1>9, <2>1, <2>2 DEF HearTail, WindowInv, Good
  <2>3. CASE ~Refuses(shown, saga)
    <3>1. PICK n \in 1..recorded : shown \in Sagas(n)
      BY <2>1 DEF WindowInv, Good
    <3>2. shown' = Merged(shown, saga, seams) /\ store' = [store EXCEPT ![fragment] = shown']
      BY <1>9, <2>3 DEF HearTail
    <3> HIDE DEF saga, seams, c
    <3>3. Good(Merged(shown, saga, seams))
      BY <1>2, <1>3, <1>4, <1>5, <2>3, <3>1, MergedIsGood
    <3> QED
      BY <1>7, <2>1, <3>2, <3>3
  <2> QED
    BY <2>2, <2>3
<1>10. CASE HearError(question.kind)
  BY <1>6, <1>10 DEF HearError, WindowInv, Good
<1>11. CASE Unheard(question.kind)
  BY <1>6, <1>11 DEF Unheard, WindowInv, Good
<1>12. CASE question.kind = "ready" /\ HearBundle(question.arg, NoSaga, {})
  <2> DEFINE p == [bundle |-> question.arg, hops |-> <<>>, gaps |-> <<>>, more |-> FALSE, seams |-> {}]
  <2>1. shown' = p /\ page' = "shown" /\ store' = [store EXCEPT ![fragment] = p] /\ ~checking'
    BY <1>12 DEF HearBundle, NoSaga, WindowInv
  <2>2. p \in Bare
    BY <1>3 DEF Bare
  <2> HIDE DEF p
  <2> QED
    BY <1>7, <2>1, <2>2 DEF Good
<1> QED
  BY <1>1, <1>8, <1>9, <1>10, <1>11, <1>12

LEMMA RecordedStep == ASSUME WindowInv, Recorded PROVE WindowInv'
<1>1. /\ recorded \in Nat /\ recorded' = recorded + 1 /\ recorded' \in Hops
      /\ UNCHANGED <<questions, fragment, page, shown, checking, store>>
  BY WindowAssumption DEF Recorded, WindowInv, Hops
<1>2. \A p : Good(p) => (p \in Bare \/ \E n \in 1..recorded' : p \in Sagas(n))
  BY <1>1, GoodStays
<1>3. \A question \in questions : question.kind = "tail" => question.arg < recorded'
  BY <1>1 DEF WindowInv, Questions
<1> QED
  BY <1>1, <1>2, <1>3 DEF WindowInv, Good

(* Whatever the order of answers, timeouts, reloads and cached windows, for *)
(* any saga, page size and scan cap, the count and the scan drawn between   *)
(* two neighbours are of the activations between exactly those two hops.    *)
THEOREM GapsAreAlwaysTrue == WindowSpec => []GapsAreTrue
<1>1. WindowInv /\ [WindowNext]_windowVars => WindowInv'
  BY PageStep, AskStep, ComposeStep, RecordedStep DEF WindowNext
<1>2. WindowInv => GapsAreTrue
  <2> SUFFICES ASSUME WindowInv PROVE GapsAreTrue
    OBVIOUS
  <2>1. CASE shown \in Bare
    <3>1. shown.hops = <<>> /\ Len(<<>>) = 0
      BY <2>1, EmptySeq DEF Bare
    <3> QED
      BY <3>1 DEF GapsAreTrue
  <2>2. CASE shown \notin Bare
    <3>1. PICK n \in 1..recorded : shown \in Sagas(n)
      BY <2>2 DEF WindowInv, Good
    <3>2. /\ n \in Nat \ {0} /\ shown.hops = Run(0, n) /\ shown.gaps = SeamsOf(0, n)
          /\ shown.seams \subseteq TrueScans
      BY <3>1, WindowAssumption DEF Sagas, WindowInv, Hops
    <3>3. /\ Len(shown.hops) = n /\ \A i \in 1..n : shown.hops[i] = i
          /\ DOMAIN shown.gaps = 1..(n - 1) /\ \A i \in 1..(n - 1) : shown.gaps[i] = Seam(i)
      BY <3>2, FromTheFirst
    <3>4. ASSUME NEW i \in 1..(n - 1)
          PROVE  /\ i \in SeamsDrawn(shown)
                 /\ shown.gaps[i].after = shown.hops[i] /\ shown.gaps[i].before = shown.hops[i + 1]
                 /\ shown.gaps[i].count = Count(shown.hops[i], shown.hops[i + 1])
                 /\ \A scan \in ScanFor(shown, shown.gaps[i]) : scan.scanned = shown.gaps[i].count
                 /\ shown.hops[i + 1] = shown.hops[i] + 1
      <4>1. i \in 1..n /\ i + 1 \in 1..n /\ i < n
        BY <3>2
      <4>2. shown.hops[i] = i /\ shown.hops[i + 1] = i + 1 /\ shown.gaps[i] = Seam(i)
        BY <3>3, <4>1
      <4>3. Seam(i).after = i /\ Seam(i).before = i + 1 /\ Seam(i).count = Count(i, i + 1)
        BY DEF Seam
      <4>4. i \in SeamsDrawn(shown)
        BY <3>3, <4>1 DEF SeamsDrawn
      <4>5. \A scan \in ScanFor(shown, shown.gaps[i]) : scan.scanned = Count(i, i + 1)
        BY <3>2, <4>2, <4>3 DEF ScanFor, TrueScans
      <4> QED
        BY <4>2, <4>3, <4>4, <4>5
    <3> QED
      BY <3>3, <3>4 DEF GapsAreTrue
  <2> QED
    BY <2>1, <2>2
<1> QED
  BY <1>1, <1>2, WindowInitInv, PTL DEF WindowSpec

(* Every set of numbers has a least one: induction, where it is needed.     *)
LEMMA LeastOf ==
  ASSUME NEW S \in SUBSET Nat, S # {}
  PROVE  \E x \in S : \A y \in S : x <= y
<1> DEFINE below == OpToRel(<, Nat)
<1>1. PICK x \in S : \A y \in S : ~(<<y, x>> \in below)
  <2>1. IsWellFoundedOn(below, Nat)
    BY NatLessThanWellFounded
  <2> HIDE DEF below
  <2>2. IsWellFoundedOn(below, S)
    BY <2>1, IsWellFoundedOnSubset
  <2> QED
    BY <2>2, WFMin
<1>2. \A y \in S : x <= y
  <2> SUFFICES ASSUME NEW y \in S, ~(x <= y) PROVE FALSE
    OBVIOUS
  <2>1. y \in Nat /\ x \in Nat /\ y < x
    OBVIOUS
  <2>2. <<y, x>> \in below
    BY <2>1 DEF OpToRel
  <2> QED
    BY <1>1, <2>2
<1> QED
  BY <1>2

------------------------------------------------------------------------------
(* ModelView.  Up to the stop the simulated log keeps in step with the two  *)
(* signals, so the last row operation before it is a candidate for the cut; *)
(* after it the cut only moves on.                                          *)

RowOp(i) == log[i].kind # "fetch" /\ ~log[i].tagged

(* The cut c lies behind every row operation of the first n entries.        *)
Covers(c, n) == c >= 0 /\ \A i \in 1..n : RowOp(i) => i <= c

LogInv == log \in Seq(Entries) /\ at \in 0..Len(log)

Layered(f, m) == f = [i \in 0..m |-> IF i = 0 THEN NoRows ELSE Overlaid(f[i - 1], log[i])]
ScannedBy(f, m, reads, writes) ==
    f = [i \in 0..m |-> IF i = 0 THEN AtStart(reads, writes) ELSE Simulated(f[i - 1], i, reads, writes)]

LEMMA SomeLayers == ASSUME NEW m \in Nat PROVE \E f : Layered(f, m)
<1> DEFINE Bad == {n \in Nat : ~ \E f : Layered(f, n)}
<1>1. SUFFICES ASSUME Bad # {} PROVE FALSE
  OBVIOUS
<1>2. PICK k \in Bad : \A n \in Bad : k <= n
  BY <1>1, LeastOf
<1>3. CASE k = 0
  <2> DEFINE f == [i \in 0..0 |-> NoRows]
  <2>1. f = [i \in 0..0 |-> IF i = 0 THEN NoRows ELSE Overlaid(f[i - 1], log[i])]
    OBVIOUS
  <2> HIDE DEF f
  <2>2. Layered(f, 0)
    BY <2>1 DEF Layered
  <2> QED
    BY <1>2, <1>3, <2>2
<1>4. CASE k # 0
  <2>1. k \in Nat /\ k - 1 \in Nat /\ k - 1 \notin Bad
    BY <1>2, <1>4
  <2> HIDE DEF Bad
  <2>2. PICK g : Layered(g, k - 1)
    BY <2>1 DEF Bad
  <2> DEFINE f == [n \in 0..k |-> IF n = k THEN Overlaid(g[k - 1], log[k]) ELSE g[n]]
  <2>3. \A n \in 0..(k - 1) : g[n] = IF n = 0 THEN NoRows ELSE Overlaid(g[n - 1], log[n])
    BY <2>2 DEF Layered
  <2>4. ASSUME NEW n \in 0..k PROVE f[n] = IF n = 0 THEN NoRows ELSE Overlaid(f[n - 1], log[n])
    <3>1. n # 0 => n - 1 \in 0..k /\ n - 1 # k
      BY <2>1
    <3>2. n # 0 => f[n - 1] = g[n - 1]
      BY <3>1
    <3>3. CASE n = k
      BY <1>4, <3>2, <3>3
    <3>4. CASE n # k
      <4>1. n \in 0..(k - 1)
        BY <2>1, <3>4
      <4>2. f[n] = g[n]
        BY <3>4
      <4> QED
        BY <2>3, <3>2, <4>1, <4>2
    <3> QED
      BY <3>3, <3>4
  <2>5. f = [n \in 0..k |-> f[n]]
    OBVIOUS
  <2> HIDE DEF f
  <2>6. f = [n \in 0..k |-> IF n = 0 THEN NoRows ELSE Overlaid(f[n - 1], log[n])]
    BY <2>4, <2>5
  <2>7. Layered(f, k)
    BY <2>6 DEF Layered
  <2> QED
    BY <1>2, <2>7 DEF Bad
<1> QED
  BY <1>3, <1>4

LEMMA SomeScans == ASSUME NEW m \in Nat, NEW reads, NEW writes PROVE \E f : ScannedBy(f, m, reads, writes)
<1> DEFINE Bad == {n \in Nat : ~ \E f : ScannedBy(f, n, reads, writes)}
<1>1. SUFFICES ASSUME Bad # {} PROVE FALSE
  OBVIOUS
<1>2. PICK k \in Bad : \A n \in Bad : k <= n
  BY <1>1, LeastOf
<1>3. CASE k = 0
  <2> DEFINE f == [i \in 0..0 |-> AtStart(reads, writes)]
  <2>1. f = [i \in 0..0 |-> IF i = 0 THEN AtStart(reads, writes) ELSE Simulated(f[i - 1], i, reads, writes)]
    OBVIOUS
  <2> HIDE DEF f
  <2>2. ScannedBy(f, 0, reads, writes)
    BY <2>1 DEF ScannedBy
  <2> QED
    BY <1>2, <1>3, <2>2
<1>4. CASE k # 0
  <2>1. k \in Nat /\ k - 1 \in Nat /\ k - 1 \notin Bad
    BY <1>2, <1>4
  <2> HIDE DEF Bad
  <2>2. PICK g : ScannedBy(g, k - 1, reads, writes)
    BY <2>1 DEF Bad
  <2> DEFINE f == [n \in 0..k |-> IF n = k THEN Simulated(g[k - 1], k, reads, writes) ELSE g[n]]
  <2>3. \A n \in 0..(k - 1) : g[n] = IF n = 0 THEN AtStart(reads, writes) ELSE Simulated(g[n - 1], n, reads, writes)
    BY <2>2 DEF ScannedBy
  <2>4. ASSUME NEW n \in 0..k
        PROVE  f[n] = IF n = 0 THEN AtStart(reads, writes) ELSE Simulated(f[n - 1], n, reads, writes)
    <3>1. n # 0 => n - 1 \in 0..k /\ n - 1 # k
      BY <2>1
    <3>2. n # 0 => f[n - 1] = g[n - 1]
      BY <3>1
    <3>3. CASE n = k
      BY <1>4, <3>2, <3>3
    <3>4. CASE n # k
      <4>1. n \in 0..(k - 1)
        BY <2>1, <3>4
      <4>2. f[n] = g[n]
        BY <3>4
      <4> QED
        BY <2>3, <3>2, <4>1, <4>2
    <3> QED
      BY <3>3, <3>4
  <2>5. f = [n \in 0..k |-> f[n]]
    OBVIOUS
  <2> HIDE DEF f
  <2>6. f = [n \in 0..k |-> IF n = 0 THEN AtStart(reads, writes) ELSE Simulated(f[n - 1], n, reads, writes)]
    BY <2>4, <2>5
  <2>7. ScannedBy(f, k, reads, writes)
    BY <2>6 DEF ScannedBy
  <2> QED
    BY <1>2, <2>7 DEF Bad
<1> QED
  BY <1>3, <1>4

(* The overlay grows by an entry at a time.                                 *)
LEMMA OverlayIs ==
  /\ OverlayAt(0) = NoRows
  /\ \A n \in Nat : n # 0 => OverlayAt(n) = Overlaid(OverlayAt(n - 1), log[n])
<1> DEFINE Rows(n) == CHOOSE f : Layered(f, n)
<1>1. ASSUME NEW n \in Nat PROVE Layered(Rows(n), n) /\ OverlayAt(n) = Rows(n)[n]
  <2>1. Layered(Rows(n), n)
    BY SomeLayers
  <2>2. OverlayAt(n) = Rows(n)[n]
    BY DEF OverlayAt, Layered
  <2> QED
    BY <2>1, <2>2
<1> HIDE DEF Rows
<1>2. ASSUME NEW n \in Nat
      PROVE  /\ Rows(n)[0] = NoRows
             /\ \A i \in 0..n : i # 0 => Rows(n)[i] = Overlaid(Rows(n)[i - 1], log[i])
  BY <1>1 DEF Layered
<1>3. ASSUME NEW n \in Nat, NEW m \in 0..n PROVE Rows(n)[m] = Rows(m)[m]
  <2> DEFINE Bad == {i \in 0..m : Rows(n)[i] # Rows(m)[i]}
  <2> SUFFICES ASSUME Bad # {} PROVE FALSE
    <3>1. m \in 0..m
      OBVIOUS
    <3> QED
      BY <3>1
  <2>1. Bad \in SUBSET Nat
    OBVIOUS
  <2>2. PICK i \in Bad : \A j \in Bad : i <= j
    BY <2>1, LeastOf
  <2>3. m \in Nat /\ i \in 0..m /\ Rows(n)[i] # Rows(m)[i]
    OBVIOUS
  <2>4. i # 0
    BY <1>2, <2>3
  <2>5. i - 1 \in 0..m /\ ~(i <= i - 1) /\ i \in 0..n
    BY <2>3, <2>4
  <2>6. Rows(n)[i - 1] = Rows(m)[i - 1]
    BY <2>2, <2>5
  <2>7. Rows(n)[i] = Overlaid(Rows(n)[i - 1], log[i]) /\ Rows(m)[i] = Overlaid(Rows(m)[i - 1], log[i])
    BY <1>2, <2>3, <2>4, <2>5
  <2> QED
    BY <2>3, <2>6, <2>7
<1>4. OverlayAt(0) = NoRows
  BY <1>1, <1>2
<1>5. ASSUME NEW n \in Nat, n # 0 PROVE OverlayAt(n) = Overlaid(OverlayAt(n - 1), log[n])
  <2>1. n - 1 \in Nat /\ n - 1 \in 0..n /\ n \in 0..n
    BY <1>5
  <2>2. OverlayAt(n) = Overlaid(Rows(n)[n - 1], log[n])
    BY <1>1, <1>2, <1>5, <2>1
  <2> QED
    BY <1>1, <1>3, <2>1, <2>2
<1> QED
  BY <1>4, <1>5

(* So does the number of reads served.                                      *)
LEMMA ReadsAre ==
  /\ ReadsAt(0) = 0
  /\ \A n \in Nat : ReadsAt(n) \in Nat
  /\ \A n \in Nat : n # 0 => ReadsAt(n) = ReadsAt(n - 1) + (IF Serves(n) THEN 1 ELSE 0)
  /\ \A n \in Nat : \A m \in 0..n : ReadsAt(m) <= ReadsAt(n)
<1> DEFINE By(n) == {i \in 1..n : Serves(i)}
<1>1. ASSUME NEW n \in Nat PROVE IsFiniteSet(By(n)) /\ Cardinality(By(n)) \in Nat
  <2>1. IsFiniteSet(1..n)
    BY FS_Interval
  <2>2. IsFiniteSet(By(n))
    BY <2>1, FS_Subset
  <2> QED
    BY <2>2, FS_CardinalityType
<1>2. By(0) = {}
  OBVIOUS
<1>3. ASSUME NEW n \in Nat, n # 0, Serves(n) PROVE By(n) = By(n - 1) \cup {n} /\ n \notin By(n - 1)
  <2>1. \A i : i \in 1..n <=> i \in 1..(n - 1) \/ i = n
    BY <1>3
  <2>2. n \notin 1..(n - 1)
    OBVIOUS
  <2> QED
    BY <1>3, <2>1, <2>2
<1>4. ASSUME NEW n \in Nat, n # 0, ~Serves(n) PROVE By(n) = By(n - 1)
  <2>1. \A i : i \in 1..n <=> i \in 1..(n - 1) \/ i = n
    BY <1>4
  <2> QED
    BY <1>4, <2>1
<1>5. ASSUME NEW n \in Nat, NEW m \in 0..n PROVE By(m) \subseteq By(n)
  OBVIOUS
<1>6. \A n : ReadsAt(n) = Cardinality(By(n))
  BY DEF ReadsAt
<1> HIDE DEF By
<1>7. ReadsAt(0) = 0
  BY <1>2, <1>6, FS_EmptySet
<1>8. ASSUME NEW n \in Nat, n # 0 PROVE ReadsAt(n) = ReadsAt(n - 1) + (IF Serves(n) THEN 1 ELSE 0)
  <2>1. n - 1 \in Nat
    BY <1>8
  <2>2. IsFiniteSet(By(n - 1)) /\ Cardinality(By(n - 1)) \in Nat
    BY <1>1, <2>1
  <2>3. CASE Serves(n)
    <3>1. Cardinality(By(n - 1) \cup {n}) = Cardinality(By(n - 1)) + 1
      BY <1>3, <1>8, <2>2, <2>3, FS_AddElement
    <3> QED
      BY <1>3, <1>6, <1>8, <2>3, <3>1
  <2>4. CASE ~Serves(n)
    BY <1>4, <1>6, <1>8, <2>2, <2>4
  <2> QED
    BY <2>3, <2>4
<1>9. ASSUME NEW n \in Nat, NEW m \in 0..n PROVE ReadsAt(m) <= ReadsAt(n)
  BY <1>1, <1>5, <1>6, FS_Subset
<1> QED
  BY <1>1, <1>6, <1>7, <1>8, <1>9

(* The scan up to the stop, and past it.                                    *)
LEMMA ScanCovers ==
  ASSUME LogInv, NEW f, ScannedBy(f, Len(log), ReadsAt(at), OverlayAt(at))
  PROVE  f[Len(log)].cut \in Int /\ Covers(f[Len(log)].cut, at)
<1> DEFINE reads == ReadsAt(at)
           writes == OverlayAt(at)
           Met(n) == reads = ReadsAt(n) /\ writes = OverlayAt(n)
           Sim(r, v, o, c) == [rows |-> r, served |-> v, open |-> o, cut |-> c]
           InStep(n) == \E c \in Int : /\ f[n] = Sim(OverlayAt(n), ReadsAt(n), TRUE, c)
                                       /\ Met(n) => Covers(c, n)
           After(n) == "cut" \in DOMAIN f[n] /\ f[n].cut \in Int /\ Covers(f[n].cut, at)
           Fine(n) == IF n <= at THEN InStep(n) ELSE After(n)
           Bad == {n \in 0..Len(log) : ~Fine(n)}
<1>1. /\ at \in Nat /\ Len(log) \in Nat /\ at <= Len(log) /\ \A n \in 0..Len(log) : n \in Nat
      /\ reads \in Nat
  BY ReadsAre DEF LogInv
<1>2. /\ f[0] = AtStart(reads, writes)
      /\ \A n \in 0..Len(log) : n # 0 => f[n] = Simulated(f[n - 1], n, reads, writes)
  BY <1>1 DEF ScannedBy
<1>3. InStep(0)
  <2>1. OverlayAt(0) = NoRows /\ ReadsAt(0) = 0
    BY OverlayIs, ReadsAre
  <2>2. PICK c : c = IF reads = 0 /\ writes = NoRows THEN 0 ELSE -1
    OBVIOUS
  <2>3. f[0] = Sim(OverlayAt(0), ReadsAt(0), TRUE, c)
    BY <1>2, <2>1, <2>2 DEF AtStart
  <2>4. c \in Int /\ (Met(0) => c = 0)
    BY <2>1, <2>2
  <2>5. Covers(0, 0)
    BY DEF Covers
  <2> QED
    BY <2>3, <2>4, <2>5
<1>4. ASSUME NEW n \in 1..Len(log), InStep(n - 1), n <= at PROVE InStep(n)
  <2> DEFINE e == log[n]
  <2>1. n \in Nat /\ n # 0 /\ n - 1 \in Nat /\ n \in 0..Len(log) /\ n \in 0..at /\ n \in Int
    BY <1>1, <1>4
  <2>2. PICK c \in Int : /\ f[n - 1] = Sim(OverlayAt(n - 1), ReadsAt(n - 1), TRUE, c)
                         /\ Met(n - 1) => Covers(c, n - 1)
    BY <1>4
  <2>3. f[n] = Simulated(f[n - 1], n, reads, writes)
    BY <1>2, <2>1
  <2>4. /\ OverlayAt(n) = Overlaid(OverlayAt(n - 1), e)
        /\ ReadsAt(n) = ReadsAt(n - 1) + (IF Serves(n) THEN 1 ELSE 0)
        /\ ReadsAt(n - 1) \in Nat /\ ReadsAt(n) \in Nat /\ ReadsAt(n) <= reads
    BY <1>1, <2>1, OverlayIs, ReadsAre
  <2>5. e \in Entries /\ e.kind \in {"read", "write", "delete", "fetch"}
    <3>1. e \in Entries
      BY <2>1 DEF LogInv
    <3> QED
      BY <3>1 DEF Entries
  <2>6. \A i \in 1..n : i \in 1..(n - 1) \/ i = n
    BY <2>1
  <2> HIDE DEF Met, reads, writes, e
  <2>7. CASE RowOp(n)
    <3> DEFINE c1 == IF ReadsAt(n) = reads /\ OverlayAt(n) = writes THEN n ELSE c
    <3>1. e.kind \in {"read", "write", "delete"} /\ ~e.tagged
      BY <2>5, <2>7 DEF RowOp, e
    <3>2. Serves(n) <=> e.kind = "read" /\ e.key \notin DOMAIN OverlayAt(n - 1)
      BY <3>1 DEF Serves, e
    <3>3. ~(Serves(n) /\ ReadsAt(n - 1) >= reads)
      BY <1>1, <2>4 DEF reads
    <3>4. f[n] = Sim(OverlayAt(n), ReadsAt(n), TRUE, c1)
      <4>1. PICK s : s = f[n - 1]
        OBVIOUS
      <4>2. s.rows = OverlayAt(n - 1) /\ s.served = ReadsAt(n - 1) /\ s.open = TRUE /\ s.cut = c
        BY <2>2, <4>1
      <4>3. IF Serves(n) THEN ReadsAt(n) = s.served + 1 ELSE ReadsAt(n) = s.served
        BY <2>4, <4>2
      <4>4. Simulated(s, n, reads, writes) = Sim(OverlayAt(n), ReadsAt(n), TRUE, c1)
        <5>1. /\ s.open /\ log[n].kind \in {"read", "write", "delete"} /\ ~log[n].tagged
              /\ (log[n].kind = "read" /\ log[n].key \notin DOMAIN s.rows) <=> Serves(n)
              /\ ~(Serves(n) /\ s.served >= reads)
              /\ OverlayAt(n) = Overlaid(s.rows, log[n])
          BY <2>4, <3>1, <3>2, <3>3, <4>2 DEF e
        <5>2. CASE Serves(n)
          BY <4>2, <4>3, <5>1, <5>2 DEF Simulated
        <5>3. CASE ~Serves(n)
          BY <4>2, <4>3, <5>1, <5>3 DEF Simulated
        <5> QED
          BY <5>2, <5>3
      <4> QED
        BY <2>3, <4>1, <4>4
    <3>5. c1 \in Int
      BY <2>1, <2>2
    <3>6. ASSUME Met(n) PROVE Covers(c1, n)
      <4>1. c1 = n
        BY <3>6 DEF Met
      <4>2. n >= 0 /\ \A i \in 1..n : i <= n
        BY <2>1
      <4> QED
        BY <4>1, <4>2 DEF Covers
    <3> HIDE DEF c1
    <3> QED
      BY <3>4, <3>5, <3>6
  <2>8. CASE ~RowOp(n)
    <3>1. ~(e.kind \in {"read", "write", "delete"} /\ ~e.tagged)
      BY <2>8 DEF RowOp, e
    <3>2. f[n] = f[n - 1]
      BY <2>2, <2>3, <3>1 DEF Simulated, e
    <3>3. OverlayAt(n) = OverlayAt(n - 1)
      BY <2>4, <2>5, <3>1 DEF Overlaid, Writes
    <3>4. ~Serves(n)
      BY <3>1 DEF Serves, e
    <3>5. ReadsAt(n) = ReadsAt(n - 1)
      BY <2>4, <3>4
    <3>6. ASSUME Met(n) PROVE Covers(c, n)
      <4>1. Covers(c, n - 1)
        BY <2>2, <3>3, <3>5, <3>6 DEF Met
      <4> QED
        BY <2>6, <2>8, <4>1 DEF Covers
    <3> QED
      BY <2>2, <3>2, <3>3, <3>5, <3>6
  <2> QED
    BY <2>7, <2>8
<1>5. ASSUME NEW n \in 1..Len(log), ~(n <= at), \/ InStep(n - 1) /\ n - 1 = at
                                                \/ After(n - 1)
      PROVE  After(n)
  <2>1. n \in Nat /\ n # 0 /\ n \in 0..Len(log) /\ at < n /\ n \in Int
    BY <1>1, <1>5
  <2>2. Met(at)
    OBVIOUS
  <2>3. "cut" \in DOMAIN f[n - 1] /\ f[n - 1].cut \in Int /\ Covers(f[n - 1].cut, at)
    <3>1. CASE After(n - 1)
      BY <3>1
    <3>2. CASE InStep(n - 1) /\ n - 1 = at
      <4>1. PICK c \in Int : f[n - 1] = Sim(OverlayAt(n - 1), ReadsAt(n - 1), TRUE, c) /\ Covers(c, at)
        BY <2>2, <3>2
      <4> QED
        BY <4>1
    <3> QED
      BY <1>5, <3>1, <3>2
  <2>4. PICK s : s = f[n - 1]
    OBVIOUS
  <2>5. f[n] = Simulated(s, n, reads, writes)
    BY <1>2, <2>1, <2>4
  <2>6. Covers(n, at)
    BY <1>1, <2>1 DEF Covers
  <2> HIDE DEF Met, reads, writes
  <2>7. \/ f[n] = s \/ f[n] = [s EXCEPT !.open = FALSE]
        \/ \E r, v : \E c \in {s.cut, n} : f[n] = Sim(r, v, TRUE, c)
    BY <2>5 DEF Simulated
  <2>8. CASE f[n] = s
    BY <2>3, <2>4, <2>8
  <2>9. CASE f[n] = [s EXCEPT !.open = FALSE]
    <3>1. "cut" \in DOMAIN f[n] /\ f[n].cut = s.cut
      BY <2>3, <2>4, <2>9
    <3> QED
      BY <2>3, <2>4, <3>1
  <2>10. CASE \E r, v : \E c \in {s.cut, n} : f[n] = Sim(r, v, TRUE, c)
    <3>1. PICK c \in {s.cut, n} : "cut" \in DOMAIN f[n] /\ f[n].cut = c
      BY <2>10
    <3> QED
      BY <2>1, <2>3, <2>4, <2>6, <3>1
  <2> QED
    BY <2>7, <2>8, <2>9, <2>10
<1>6. Bad = {}
  <2> SUFFICES ASSUME Bad # {} PROVE FALSE
    OBVIOUS
  <2>1. Bad \in SUBSET Nat
    BY <1>1
  <2>2. PICK n \in Bad : \A m \in Bad : n <= m
    BY <2>1, LeastOf
  <2>3. n \in 0..Len(log) /\ ~Fine(n)
    OBVIOUS
  <2> HIDE DEF InStep, After
  <2>4. n # 0
    BY <1>1, <1>3, <2>3
  <2>5. n - 1 \in 0..Len(log) /\ n \in 1..Len(log) /\ ~(n <= n - 1) /\ n \in Nat
    BY <1>1, <2>3, <2>4
  <2>6. Fine(n - 1)
    BY <2>2, <2>5
  <2>7. CASE n <= at
    <3>1. n - 1 <= at
      BY <1>1, <2>5, <2>7
    <3> QED
      BY <1>4, <2>3, <2>5, <2>6, <2>7, <3>1
  <2>8. CASE ~(n <= at)
    <3>1. n - 1 = at \/ ~(n - 1 <= at)
      BY <1>1, <2>5, <2>8
    <3>2. at <= at
      BY <1>1
    <3> QED
      BY <1>5, <2>3, <2>5, <2>6, <2>8, <3>1, <3>2
  <2> QED
    BY <2>7, <2>8
<1>7. Fine(Len(log))
  <2>1. Len(log) \in 0..Len(log)
    BY <1>1
  <2> HIDE DEF Fine
  <2> QED
    BY <1>6, <2>1
<1>8. CASE Len(log) <= at
  <2>1. Len(log) = at
    BY <1>1, <1>8
  <2>2. InStep(at)
    BY <1>7, <1>8, <2>1
  <2>3. Met(at)
    OBVIOUS
  <2>4. PICK c \in Int : f[at] = Sim(OverlayAt(at), ReadsAt(at), TRUE, c) /\ Covers(c, at)
    BY <2>2, <2>3
  <2> QED
    BY <2>1, <2>4
<1>9. CASE ~(Len(log) <= at)
  <2>1. After(Len(log))
    BY <1>7, <1>9
  <2> QED
    BY <2>1
<1> QED
  BY <1>8, <1>9

LEMMA CutHolds == LogInv => CutCoversTheRun
<1> SUFFICES ASSUME LogInv PROVE CutCoversTheRun
  OBVIOUS
<1> DEFINE reads == ReadsAt(at)
           writes == OverlayAt(at)
           f == CHOOSE f : ScannedBy(f, Len(log), reads, writes)
<1>1. Len(log) \in Nat
  BY DEF LogInv
<1>2. ScannedBy(f, Len(log), reads, writes)
  BY <1>1, SomeScans
<1>3. TheCut = IF f[Len(log)].cut < 0 THEN [cut |-> Len(log), confident |-> FALSE]
               ELSE [cut |-> f[Len(log)].cut, confident |-> TRUE]
  BY DEF TheCut, Cut, ScannedBy
<1> HIDE DEF f
<1>4. f[Len(log)].cut \in Int /\ Covers(f[Len(log)].cut, at)
  BY <1>2, ScanCovers
<1>5. TheCut = [cut |-> f[Len(log)].cut, confident |-> TRUE]
  BY <1>3, <1>4 DEF Covers
<1> QED
  BY <1>4, <1>5 DEF CutCoversTheRun, Covers, RowOp

LEMMA LogSteps == LogInv /\ [ModelViewNext]_modelViewVars => LogInv'
<1> SUFFICES ASSUME LogInv, [ModelViewNext]_modelViewVars PROVE LogInv'
  OBVIOUS
<1>1. CASE Interact
  BY <1>1 DEF Interact, LogInv
<1>2. CASE StopAt
  BY <1>2 DEF StopAt, LogInv
<1>3. CASE UNCHANGED modelViewVars
  BY <1>3 DEF modelViewVars, LogInv
<1> QED
  BY <1>1, <1>2, <1>3 DEF ModelViewNext

(* Wherever a run is stopped, cutInteractionLog is confident and its cut    *)
(* withholds no row operation that has run, for any log: repeated reads and *)
(* writes and operations on other stores included.                          *)
THEOREM CutAlwaysCoversTheRun == ModelViewSpec => []CutCoversTheRun
<1>1. ModelViewInit => LogInv
  BY DEF ModelViewInit, LogInv
<1> QED
  BY <1>1, LogSteps, CutHolds, PTL DEF ModelViewSpec

------------------------------------------------------------------------------
(* Trace.  The stack the viewer walks is the stack of frames alive, frame   *)
(* by frame, so the line it keeps for one is the last that it executed, and *)
(* depths counted from the playhead are lengths of that stack.              *)

(* The frames alive after event i of a trace, innermost last.               *)
LiveAt(i) == IF i = 0 THEN <<>> ELSE events[i].live

EventType == [kind : EventTypes, file : {"app", "shim"}, line : Nat, live : Seq(Nat), ended : Nat]

(* Event i is one the engine can emit after those before it.                *)
Enters(i) ==
    /\ events[i].kind = "ENTER" /\ events[i].live = Append(LiveAt(i - 1), i) /\ events[i].ended = 0
    /\ LiveAt(i - 1) = <<>> => events[i].file = "app" /\ events[i].line = 1
Runs(i) ==
    /\ events[i].kind \in {"LINE", "THROW"} /\ events[i].ended = 0
    /\ LiveAt(i - 1) # <<>> /\ events[i].live = LiveAt(i - 1)
    /\ LET enter == events[Last(LiveAt(i - 1))]
       IN /\ events[i].file = enter.file
          /\ Len(enter.live) = 1 \/ (events[i].line > LineCount) = (enter.line > LineCount)
Exits(i) ==
    /\ events[i].kind = "EXIT"
    /\ LiveAt(i - 1) # <<>> /\ events[i].live = Front(LiveAt(i - 1))
    /\ events[i].ended = Last(LiveAt(i - 1))

(* Frames are entered one in the other.                                     *)
Nested(i) ==
    /\ \A s \in DOMAIN LiveAt(i) :
          /\ LiveAt(i)[s] \in 1..i /\ events[LiveAt(i)[s]].kind = "ENTER"
          /\ Len(LiveAt(LiveAt(i)[s])) = s
          /\ \A j \in LiveAt(i)[s]..i : s <= Len(LiveAt(j))
    /\ \A s, t \in DOMAIN LiveAt(i) : s < t => LiveAt(i)[s] < LiveAt(i)[t]

TraceInv ==
    /\ events \in Seq(EventType) /\ over \in BOOLEAN
    /\ \A i \in 1..Total : (Enters(i) \/ Runs(i) \/ Exits(i)) /\ Nested(i)
    /\ over => playhead \in 1..Total

LEMMA TraceStart == TraceInit => TraceInv
<1> SUFFICES ASSUME TraceInit PROVE TraceInv
  OBVIOUS
<1>1. events = <<>> /\ over = FALSE
  BY DEF TraceInit
<1>2. events \in Seq(EventType) /\ Total = 0
  BY <1>1 DEF Total
<1>3. over \in BOOLEAN
  BY <1>1
<1>4. (over => playhead \in 1..Total) /\ 1..Total = {}
  BY <1>1, <1>2
<1> QED
  BY <1>2, <1>3, <1>4 DEF TraceInv

LEMMA EventIs ==
  ASSUME TraceInv
  PROVE  /\ Total \in Nat /\ DOMAIN events = 1..Total /\ Len(events) = Total
         /\ \A i \in 1..Total : events[i] \in EventType
         /\ \A i \in 0..Total : LiveAt(i) \in Seq(Nat) /\ Nested(i)
         /\ LiveAt(0) = <<>> /\ \A i \in 1..Total : LiveAt(i) = events[i].live
<1>1. Total \in Nat /\ DOMAIN events = 1..Total /\ Len(events) = Total /\ \A i \in 1..Total : events[i] \in EventType
  BY DEF TraceInv, Total
<1>2. LiveAt(0) = <<>> /\ \A i \in 1..Total : LiveAt(i) = events[i].live
  BY <1>1 DEF LiveAt
<1>3. ASSUME NEW i \in 0..Total PROVE LiveAt(i) \in Seq(Nat) /\ Nested(i)
  <2>1. CASE i = 0
    <3>1. LiveAt(i) = <<>> /\ <<>> \in Seq(Nat) /\ DOMAIN LiveAt(i) = {}
      BY <2>1 DEF LiveAt
    <3> QED
      BY <3>1 DEF Nested
  <2>2. CASE i # 0
    <3>1. i \in 1..Total
      BY <1>1, <2>2
    <3>2. events[i].live \in Seq(Nat)
      BY <1>1, <3>1 DEF EventType
    <3> QED
      BY <1>2, <3>1, <3>2 DEF TraceInv
  <2> QED
    BY <2>1, <2>2
<1> QED
  BY <1>1, <1>2, <1>3

(* One more event changes nothing of those before.                          *)
LEMMA TraceGrows ==
  ASSUME TraceInv, over' = FALSE, NEW e \in EventType, events' = Append(events, e), NEW n, n = Total + 1,
         Enters(n)' \/ Runs(n)' \/ Exits(n)', Nested(n)'
  PROVE  TraceInv'
<1>0. Total \in Nat
  BY EventIs
<1>1. /\ Total \in Nat /\ Total' = Total + 1 /\ events' \in Seq(EventType)
      /\ \A i \in 1..Total : events'[i] = events[i]
  <2>1. Total \in Nat /\ DOMAIN events = 1..Total /\ Len(events) = Total /\ events \in Seq(EventType)
    BY EventIs DEF TraceInv
  <2>2. events' \in Seq(EventType) /\ Len(events') = Total + 1 /\ \A i \in 1..Total : events'[i] = events[i]
    BY <2>1
  <2> QED
    BY <2>1, <2>2 DEF Total
<1>2. ASSUME NEW i \in 0..Total PROVE LiveAt(i)' = LiveAt(i)
  <2>1. CASE i = 0
    BY <2>1 DEF LiveAt
  <2>2. CASE i # 0
    <3>1. i \in 1..Total
      BY <1>0, <2>2
    <3>2. events'[i] = events[i]
      BY <1>1, <3>1
    <3> QED
      BY <3>2, <2>2 DEF LiveAt
  <2> QED
    BY <2>1, <2>2
<1>3. ASSUME NEW i \in 1..Total PROVE (Enters(i)' \/ Runs(i)' \/ Exits(i)') /\ Nested(i)'
  <2>01. i \in 0..Total
    BY <1>0
  <2>02. i - 1 \in 0..Total
    BY <1>0
  <2>03. events'[i] = events[i]
    BY <1>1
  <2>1. i \in 0..Total /\ i - 1 \in 0..Total /\ events'[i] = events[i]
    BY <2>01, <2>02, <2>03
  <2>2. LiveAt(i)' = LiveAt(i) /\ LiveAt(i - 1)' = LiveAt(i - 1)
    BY <1>2, <2>1
  <2>3. Nested(i) /\ Nested(i - 1) /\ LiveAt(i - 1) \in Seq(Nat)
    BY <2>1, EventIs
  <2>4. ASSUME NEW s \in DOMAIN LiveAt(i)
        PROVE  /\ events'[LiveAt(i)[s]] = events[LiveAt(i)[s]] /\ LiveAt(i)[s] \in 1..i
               /\ \A j \in LiveAt(i)[s]..i : LiveAt(j)' = LiveAt(j)
    <3>1. LiveAt(i)[s] \in 1..i
      BY <2>3 DEF Nested
    <3>2. LiveAt(i)[s] \in 1..Total /\ \A j \in LiveAt(i)[s]..i : j \in 0..Total
      BY <1>1, <3>1
    <3> QED
      BY <1>1, <1>2, <3>1, <3>2
  <2>5. LiveAt(i - 1) # <<>> => /\ events'[Last(LiveAt(i - 1))] = events[Last(LiveAt(i - 1))]
    <3> SUFFICES ASSUME LiveAt(i - 1) # <<>> PROVE events'[Last(LiveAt(i - 1))] = events[Last(LiveAt(i - 1))]
      OBVIOUS
    <3>1. Len(LiveAt(i - 1)) \in DOMAIN LiveAt(i - 1)
      BY <2>3
    <3>2. Last(LiveAt(i - 1)) \in 1..(i - 1)
      BY <2>3, <3>1 DEF Nested, Last
    <3>3. Last(LiveAt(i - 1)) \in 1..Total
      BY <1>1, <3>2
    <3> QED
      BY <1>1, <3>3
  <2>6. Nested(i)'
    <3>1. ASSUME NEW s \in DOMAIN LiveAt(i)
          PROVE  /\ LiveAt(i)[s] \in 1..i /\ events'[LiveAt(i)[s]].kind = "ENTER"
                 /\ Len(LiveAt(LiveAt(i)[s])') = s
                 /\ \A j \in LiveAt(i)[s]..i : s <= Len(LiveAt(j)')
      <4>1. LiveAt(i)[s] \in 1..i
        BY <2>4
      <4>2. LiveAt(i)[s] \in LiveAt(i)[s]..i
        BY <4>1
      <4>3. Len(LiveAt(LiveAt(i)[s])') = s
        BY <2>3, <2>4, <4>2 DEF Nested
      <4>4. events'[LiveAt(i)[s]].kind = "ENTER"
        BY <2>3, <2>4 DEF Nested
      <4>5. ASSUME NEW j \in LiveAt(i)[s]..i PROVE s <= Len(LiveAt(j)')
        BY <2>3, <2>4 DEF Nested
      <4> QED
        BY <4>1, <4>3, <4>4, <4>5
    <3>2. \A s, t \in DOMAIN LiveAt(i) : s < t => LiveAt(i)[s] < LiveAt(i)[t]
      BY <2>3 DEF Nested
    <3> QED
      BY <2>2, <3>1, <3>2 DEF Nested
  <2>7. Enters(i)' <=> Enters(i)
    BY <2>1, <2>2 DEF Enters
  <2>8. Runs(i)' <=> Runs(i)
    BY <2>1, <2>2, <2>5 DEF Runs
  <2>9. Exits(i)' <=> Exits(i)
    BY <2>1, <2>2 DEF Exits
  <2> QED
    BY <2>6, <2>7, <2>8, <2>9 DEF TraceInv
<1>4. \A i \in 1..(Total + 1) : i \in 1..Total \/ i = n
  BY <1>1
<1> QED
  BY <1>1, <1>3, <1>4 DEF TraceInv

LEMMA EmitKeeps ==
  ASSUME TraceInv, NEW kind \in EventTypes, NEW loc \in [file : {"app", "shim"}, line : Nat],
         NEW alive \in Seq(Nat), NEW ended \in Nat, Emit(kind, loc, alive, ended),
         \/ kind = "ENTER" /\ alive = Append(Live, Total + 1) /\ ended = 0
            /\ (Live = <<>> => loc.file = "app" /\ loc.line = 1)
         \/ kind \in {"LINE", "THROW"} /\ ended = 0 /\ Live # <<>> /\ alive = Live /\ loc \in CanVisit(Last(Live))
         \/ kind = "EXIT" /\ Live # <<>> /\ alive = Front(Live) /\ ended = Last(Live)
  PROVE  TraceInv'
<1> DEFINE e == [kind |-> kind, file |-> loc.file, line |-> loc.line, live |-> alive, ended |-> ended]
<1>0. PICK n : n = Total + 1
  OBVIOUS
<1>1. e \in EventType /\ events' = Append(events, e) /\ over' = FALSE
  BY DEF EventType, Emit, TraceInv
<1>2. Total \in Nat /\ n \in Nat /\ n - 1 = Total /\ n \in 1..n /\ n # 0
  BY <1>0, EventIs
<1>3. events'[n] = e /\ \A i \in 1..Total : events'[i] = events[i]
  BY <1>0, <1>1, EventIs DEF TraceInv
<1>4. LiveAt(n)' = alive
  BY <1>2, <1>3 DEF LiveAt
<1>5. ASSUME NEW i \in 0..Total PROVE LiveAt(i)' = LiveAt(i)
  <2>1. CASE i = 0
    BY <2>1 DEF LiveAt
  <2>2. CASE i # 0
    <3>1. i \in 1..Total
      BY <1>2, <2>2
    <3>2. events'[i] = events[i]
      BY <1>3, <3>1
    <3> QED
      BY <3>2, <2>2 DEF LiveAt
  <2> QED
    BY <2>1, <2>2
<1>6. Live = LiveAt(Total)
  <2>1. CASE Total = 0
    <3>1. events = <<>>
      BY <2>1, EventIs DEF TraceInv
    <3> QED
      BY <2>1, <3>1 DEF Live, LiveAt
  <2>2. CASE Total # 0
    <3>1. events # <<>> /\ Last(events) = events[Total]
      BY <2>2, EventIs DEF Last
    <3> QED
      BY <2>2, <3>1 DEF Live, LiveAt
  <2> QED
    BY <2>1, <2>2
<1>61. PICK open : open = Live
  OBVIOUS
<1>7. Total \in 0..Total
  BY <1>2
<1>8. open \in Seq(Nat) /\ Nested(Total) /\ LiveAt(n - 1)' = open /\ open = LiveAt(Total) /\ open = Live
  BY <1>2, <1>5, <1>6, <1>61, <1>7, EventIs
<1>9. ASSUME NEW s \in DOMAIN open
      PROVE  /\ open[s] \in 1..Total /\ events'[open[s]] = events[open[s]] /\ open[s] \in 1..n
             /\ events'[open[s]].kind = "ENTER" /\ Len(LiveAt(open[s])') = s
             /\ \A j \in open[s]..Total : s <= Len(LiveAt(j)')
  <2>1. open[s] \in 1..Total
    BY <1>8 DEF Nested
  <2>2. events'[open[s]] = events[open[s]]
    BY <1>3, <2>1
  <2>3. open[s] \in 0..Total /\ open[s] \in 1..n
    BY <1>2, <2>1
  <2>4. events'[open[s]].kind = "ENTER"
    BY <1>8, <2>2 DEF Nested
  <2>5. Len(LiveAt(open[s])') = s
    <3>1. Len(LiveAt(open[s])) = s
      BY <1>8 DEF Nested
    <3>2. LiveAt(open[s])' = LiveAt(open[s])
      BY <1>5, <2>3
    <3> QED
      BY <3>1, <3>2
  <2>6. ASSUME NEW j \in open[s]..Total PROVE s <= Len(LiveAt(j)')
    <3>1. j \in 0..Total
      BY <1>2, <2>1
    <3> QED
      BY <1>5, <1>8, <3>1 DEF Nested
  <2> QED
    BY <2>1, <2>2, <2>3, <2>4, <2>5, <2>6
<1>10. \A s, t \in DOMAIN open : s < t => open[s] < open[t]
  BY <1>8 DEF Nested
<1>11. e.kind = kind /\ e.file = loc.file /\ e.line = loc.line /\ e.live = alive /\ e.ended = ended
  OBVIOUS
<1> HIDE DEF e
<1>12. ASSUME Enters(n)' \/ Runs(n)' \/ Exits(n)',
              \A s \in DOMAIN alive : \/ s \in DOMAIN open /\ alive[s] = open[s]
                                      \/ s = Len(alive) /\ alive[s] = n /\ kind = "ENTER",
              \A s, t \in DOMAIN alive : s < t => s \in DOMAIN open
       PROVE  TraceInv'
  <2>1. ASSUME NEW s \in DOMAIN alive
        PROVE  /\ alive[s] \in 1..n /\ events'[alive[s]].kind = "ENTER"
               /\ Len(LiveAt(alive[s])') = s
               /\ \A j \in alive[s]..n : s <= Len(LiveAt(j)')
    <3>1. s \in Nat /\ s <= Len(alive)
      OBVIOUS
    <3>2. CASE s \in DOMAIN open /\ alive[s] = open[s]
      <4>1. ASSUME NEW j \in alive[s]..n PROVE s <= Len(LiveAt(j)')
        <5>1. CASE j = n
          BY <1>4, <3>1, <5>1
        <5>2. CASE j # n
          <6>1. j \in open[s]..Total
            BY <1>2, <1>9, <3>2, <5>2
          <6> QED
            BY <1>9, <3>2, <6>1
        <5> QED
          BY <5>1, <5>2
      <4>2. alive[s] \in 1..n /\ events'[alive[s]].kind = "ENTER"
        BY <1>9, <3>2
      <4>3. Len(LiveAt(alive[s])') = s
        BY <1>9, <3>2
      <4> QED
        BY <4>1, <4>2, <4>3
    <3>3. CASE s = Len(alive) /\ alive[s] = n /\ kind = "ENTER"
      <4>1. ASSUME NEW j \in alive[s]..n PROVE s <= Len(LiveAt(j)')
        <5>1. j = n
          BY <1>2, <3>3
        <5> QED
          BY <1>4, <3>1, <5>1
      <4>2. events'[alive[s]].kind = "ENTER"
        BY <1>3, <1>11, <3>3
      <4>3. Len(LiveAt(alive[s])') = s
        BY <1>4, <3>3
      <4> QED
        BY <1>2, <3>3, <4>1, <4>2, <4>3
    <3> QED
      BY <1>12, <3>2, <3>3
  <2>2. ASSUME NEW s \in DOMAIN alive, NEW t \in DOMAIN alive, s < t PROVE alive[s] < alive[t]
    <3>1. s \in DOMAIN open /\ s # Len(alive)
      BY <1>12, <2>2
    <3>2. alive[s] = open[s] /\ open[s] \in 1..Total
      BY <1>9, <1>12, <3>1
    <3>3. CASE t \in DOMAIN open /\ alive[t] = open[t]
      BY <1>10, <2>2, <3>1, <3>2, <3>3
    <3>4. CASE alive[t] = n
      BY <1>2, <3>2, <3>4
    <3> QED
      BY <1>12, <3>3, <3>4
  <2>3. Nested(n)'
    BY <1>4, <2>1, <2>2 DEF Nested
  <2> QED
    BY <1>0, <1>1, <1>12, <2>3, TraceGrows
<1>13. CASE kind = "ENTER" /\ alive = Append(Live, Total + 1) /\ ended = 0 /\ (Live = <<>> => loc.file = "app" /\ loc.line = 1)
  <2>1. Enters(n)'
    BY <1>0, <1>3, <1>8, <1>11, <1>13 DEF Enters
  <2>2. /\ DOMAIN alive = 1..(Len(open) + 1) /\ Len(open) \in Nat /\ alive[Len(open) + 1] = n
        /\ DOMAIN open = 1..Len(open) /\ \A s \in 1..Len(open) : alive[s] = open[s]
        /\ Len(alive) = Len(open) + 1
    BY <1>0, <1>8, <1>13
  <2>3. \A s \in DOMAIN alive : \/ s \in DOMAIN open /\ alive[s] = open[s]
                                \/ s = Len(alive) /\ alive[s] = n /\ kind = "ENTER"
    BY <1>13, <2>2
  <2>4. \A s, t \in DOMAIN alive : s < t => s \in DOMAIN open
    BY <2>2
  <2> QED
    BY <1>12, <2>1, <2>3, <2>4
<1>14. CASE kind \in {"LINE", "THROW"} /\ ended = 0 /\ Live # <<>> /\ alive = Live /\ loc \in CanVisit(Last(Live))
  <2>1. Len(open) \in DOMAIN open
    BY <1>8, <1>14
  <2>2. events'[Last(open)] = events[Last(open)]
    BY <1>9, <2>1 DEF Last
  <2>3. LET enter == events[Last(open)]
        IN loc.file = enter.file /\ (Len(enter.live) = 1 \/ (loc.line > LineCount) = (enter.line > LineCount))
    BY <1>8, <1>14 DEF CanVisit
  <2>4. Runs(n)'
    BY <1>3, <1>8, <1>11, <1>14, <2>2, <2>3 DEF Runs
  <2> QED
    BY <1>8, <1>12, <1>14, <2>4
<1>15. CASE kind = "EXIT" /\ Live # <<>> /\ alive = Front(Live) /\ ended = Last(Live)
  <2>1. Exits(n)'
    BY <1>3, <1>8, <1>11, <1>15 DEF Exits
  <2>2. /\ Len(open) \in Nat /\ Len(open) # 0 /\ DOMAIN open = 1..Len(open)
        /\ DOMAIN alive = 1..(Len(open) - 1) /\ \A s \in 1..(Len(open) - 1) : alive[s] = open[s]
    BY <1>8, <1>15 DEF Front
  <2>3. ASSUME NEW s \in DOMAIN alive PROVE s \in DOMAIN open /\ alive[s] = open[s]
    <3>1. s \in 1..(Len(open) - 1)
      BY <2>2
    <3>2. Len(open) \in Nat
      BY <2>2
    <3>3. s \in 1..Len(open)
      BY <3>1, <3>2
    <3> QED
      BY <2>2, <3>1, <3>3
  <2> QED
    <3>1. \A s, t \in DOMAIN alive : s < t => s \in DOMAIN open
      BY <2>3
    <3> QED
      BY <1>12, <2>1, <2>3, <3>1
<1> QED
  BY <1>13, <1>14, <1>15
LEMMA FirstIs ==
  ASSUME NEW S \in SUBSET Nat, NEW default
  PROVE  \/ S = {} /\ First(S, default) = default
         \/ First(S, default) \in S /\ \A j \in S : First(S, default) <= j
<1>1. CASE S = {}
  BY <1>1 DEF First
<1>2. CASE S # {}
  BY <1>2, LeastOf DEF First
<1> QED
  BY <1>1, <1>2

(* A verb leaves the playhead on an event.                                  *)
LEMMA HeadStays ==
  ASSUME TraceInv, NEW to \in 1..Total, SetPlayhead(to)
  PROVE  TraceInv'
<1>1. over /\ events' = events /\ over' = over /\ playhead' = to
  BY DEF SetPlayhead
<1>2. Total' = Total /\ playhead' \in 1..Total
  BY <1>1 DEF Total
<1>3. ASSUME NEW i PROVE LiveAt(i)' = LiveAt(i)
  BY <1>1 DEF LiveAt
<1>4. ASSUME NEW i \in 1..Total PROVE (Enters(i)' \/ Runs(i)' \/ Exits(i)') /\ Nested(i)'
  <2>1. (Enters(i) \/ Runs(i) \/ Exits(i)) /\ Nested(i)
    BY DEF TraceInv
  <2>2. (Enters(i)' <=> Enters(i)) /\ (Runs(i)' <=> Runs(i)) /\ (Exits(i)' <=> Exits(i))
    BY <1>1 DEF Enters, Runs, Exits, LiveAt
  <2>3. Nested(i)' <=> Nested(i)
    BY <1>1 DEF Nested, LiveAt
  <2> QED
    BY <2>1, <2>2, <2>3
<1> QED
  BY <1>1, <1>2, <1>4 DEF TraceInv

LEMMA WhereTo ==
  ASSUME TraceInv, over, NEW p \in 1..Total
  PROVE  /\ OverTo(p) \in 1..Total /\ OutTo(p) \in 1..Total /\ InTo(p) \in 1..Total
         /\ ErrorTo(p) \in 1..Total /\ First(ThrowIndexes, Total) \in 1..Total
         /\ Resting \subseteq 1..Total
<1>1. Total \in Nat /\ Total \in 1..Total /\ DOMAIN events = 1..Total /\ 1..Total \subseteq Nat
  BY EventIs
<1>2. ASSUME NEW S \in SUBSET (1..Total), NEW d \in 1..Total PROVE First(S, d) \in 1..Total
  <2>1. S \in SUBSET Nat
    BY <1>1
  <2> QED
    BY <2>1, FirstIs
<1>3. \A i \in (p + 1)..Total : i \in 1..Total
  BY <1>1
<1>4. OverTo(p) \in 1..Total
  <2>1. {i \in (p + 1)..Total : OverStops(p, i)} \in SUBSET (1..Total)
    BY <1>3
  <2> QED
    BY <1>1, <1>2, <2>1 DEF OverTo
<1>5. OutTo(p) \in 1..Total
  <2>1. {x \in DOMAIN events : \E i \in Unmatched(p) : <<i, x>> \in MatchingExit} \in SUBSET (1..Total)
    BY <1>1
  <2> QED
    BY <1>1, <1>2, <2>1 DEF OutTo
<1>6. InTo(p) \in 1..Total
  <2>1. {i \in (p + 1)..Total : events[i].kind = "ENTER" /\ (HasCustomer => Own(i))} \in SUBSET (1..Total)
    BY <1>3
  <2> QED
    BY <1>1, <1>2, <2>1 DEF InTo
<1>7. ThrowIndexes \in SUBSET (1..Total) /\ {i \in ThrowIndexes : i > p} \in SUBSET (1..Total)
  BY <1>1 DEF ThrowIndexes
<1>8. First(ThrowIndexes, p) \in 1..Total /\ First(ThrowIndexes, Total) \in 1..Total
  BY <1>1, <1>2, <1>7
<1>9. ErrorTo(p) \in 1..Total
  BY <1>2, <1>7, <1>8 DEF ErrorTo
<1>10. Resting \subseteq 1..Total
  BY <1>1 DEF Resting
<1> QED
  BY <1>4, <1>5, <1>6, <1>8, <1>9, <1>10

LEMMA TraceSteps == TraceInv /\ [TraceNext]_traceVars => TraceInv'
<1> SUFFICES ASSUME TraceInv, [TraceNext]_traceVars PROVE TraceInv'
  OBVIOUS
<1>1. CASE UNCHANGED traceVars
  <2>1. events' = events /\ over' = over /\ playhead' = playhead
    BY <1>1 DEF traceVars
  <2> QED
    BY <2>1 DEF TraceInv, Total, Enters, Runs, Exits, Nested, LiveAt
<1>2. \A loc \in Locations : loc \in [file : {"app", "shim"}, line : Nat]
  <2>1. LineCount \in Nat
    BY TraceAssumption
  <2> QED
    BY <2>1 DEF Locations
<1>3. Live \in Seq(Nat) /\ Total \in Nat
  <2>1. Total \in Nat
    BY EventIs
  <2>2. CASE events = <<>>
    <3>1. Live = <<>> /\ <<>> \in Seq(Nat)
      BY <2>2 DEF Live
    <3> QED
      BY <2>1, <3>1
  <2>3. CASE events # <<>>
    <3>1. Total \in 1..Total /\ Len(events) = Total
      BY <2>1, <2>3, EventIs DEF TraceInv
    <3>2. events[Total] \in EventType
      BY <3>1, EventIs
    <3> QED
      BY <2>3, <3>1, <3>2 DEF Live, Last, EventType
  <2> QED
    BY <2>1, <2>2, <2>3
<1>4. Live # <<>> => Last(Live) \in Nat /\ Front(Live) \in Seq(Nat)
  BY <1>3 DEF Last, Front
<1>5. CASE EnterFrame
  <2>1. PICK loc \in Locations : /\ Live = <<>> => loc = [file |-> "app", line |-> 1]
                                 /\ Emit("ENTER", loc, Append(Live, Total + 1), 0)
    BY <1>5 DEF EnterFrame
  <2>2. Live = <<>> => loc.file = "app" /\ loc.line = 1
    BY <2>1
  <2>3. PICK alive : alive = Append(Live, Total + 1)
    OBVIOUS
  <2>4. alive \in Seq(Nat) /\ Emit("ENTER", loc, alive, 0)
    BY <1>3, <2>1, <2>3
  <2>5. "ENTER" \in EventTypes /\ loc \in [file : {"app", "shim"}, line : Nat]
    BY <1>2 DEF EventTypes
  <2> QED
    BY <2>2, <2>3, <2>4, <2>5, EmitKeeps
<1>6. CASE VisitLine \/ Throws
  <2>1. PICK kind \in {"LINE", "THROW"}, loc \in CanVisit(Last(Live)) : Live # <<>> /\ Emit(kind, loc, Live, 0)
    BY <1>6 DEF VisitLine, Throws
  <2>2. PICK alive : alive = Live
    OBVIOUS
  <2>3. alive \in Seq(Nat) /\ Emit(kind, loc, alive, 0)
    BY <1>3, <2>1, <2>2
  <2>4. kind \in EventTypes /\ loc \in [file : {"app", "shim"}, line : Nat]
    BY <1>2 DEF EventTypes, CanVisit
  <2> QED
    BY <2>1, <2>2, <2>3, <2>4, EmitKeeps
<1>7. CASE LeaveFrame
  <2>1. PICK loc, alive, ended : /\ loc = [file |-> events[Last(Live)].file, line |-> 0]
                                 /\ alive = Front(Live) /\ ended = Last(Live)
    OBVIOUS
  <2>2. Live # <<>> /\ Emit("EXIT", loc, alive, ended)
    BY <1>7, <2>1 DEF LeaveFrame
  <2>3. alive \in Seq(Nat) /\ ended \in Nat
    BY <1>4, <2>1, <2>2
  <2>4. events[Last(Live)].file \in {"app", "shim"}
    <3>1. events # <<>> /\ Total \in 1..Total /\ Live = events[Total].live
      BY <1>3, <2>2, EventIs DEF Live, Last, TraceInv
    <3>2. Live = LiveAt(Total) /\ Nested(Total)
      BY <3>1, EventIs
    <3>3. Len(Live) \in DOMAIN Live
      BY <1>3, <2>2
    <3>4. Last(Live) \in 1..Total
      BY <3>2, <3>3 DEF Nested, Last
    <3>5. events[Last(Live)] \in EventType
      BY <3>4, EventIs
    <3> QED
      BY <3>5 DEF EventType
  <2>5. "EXIT" \in EventTypes /\ loc \in [file : {"app", "shim"}, line : Nat]
    BY <2>1, <2>4 DEF EventTypes
  <2> QED
    BY <2>1, <2>2, <2>3, <2>5, EmitKeeps
<1>8. CASE Materialised
  <2>1. Total > 0 /\ over' = TRUE /\ events' = events /\ playhead' = First(ThrowIndexes, Total)
    BY <1>8 DEF Materialised
  <2>2. Total \in 1..Total /\ ThrowIndexes \subseteq 1..Total /\ 1..Total \subseteq Nat
    BY <1>3, <2>1, EventIs DEF ThrowIndexes
  <2>3. ThrowIndexes \in SUBSET Nat
    BY <2>2
  <2>4. playhead' \in 1..Total
    BY <2>1, <2>2, <2>3, FirstIs
  <2>5. over' \in BOOLEAN
    BY <2>1
  <2>6. Total' = Total /\ (events \in Seq(EventType))'
    BY <2>1 DEF TraceInv, Total
  <2>7. ASSUME NEW i \in 1..Total PROVE (Enters(i)' \/ Runs(i)' \/ Exits(i)') /\ Nested(i)'
    <3>1. (Enters(i) \/ Runs(i) \/ Exits(i)) /\ Nested(i)
      BY DEF TraceInv
    <3>2. (Enters(i)' <=> Enters(i)) /\ (Runs(i)' <=> Runs(i)) /\ (Exits(i)' <=> Exits(i))
      BY <2>1 DEF Enters, Runs, Exits, LiveAt
    <3>3. Nested(i)' <=> Nested(i)
      BY <2>1 DEF Nested, LiveAt
    <3> QED
      BY <3>1, <3>2, <3>3
  <2> QED
    BY <2>4, <2>5, <2>6, <2>7 DEF TraceInv
<1>9. ASSUME over, StepOver \/ StepOut \/ StepIn \/ NextError \/ JumpEnd \/ JumpStart \/ Scrub PROVE TraceInv'
  <2>1. playhead \in 1..Total
    BY <1>9 DEF TraceInv
  <2>2. 1 \in 1..Total /\ Total \in 1..Total
    BY <1>3, <2>1
  <2>3. PICK to \in 1..Total : SetPlayhead(to)
    BY <1>9, <2>1, <2>2, WhereTo DEF StepOver, StepOut, StepIn, NextError, JumpEnd, JumpStart, Scrub
  <2> QED
    BY <2>3, HeadStays
<1> QED
  BY <1>1, <1>5, <1>6, <1>7, <1>8, <1>9
     DEF TraceNext, StepOver, StepOut, StepIn, NextError, JumpEnd, JumpStart, Scrub, SetPlayhead
(* The stack of a walk, as the frames alive have it.                        *)
Frame == [file : {"app", "shim"}, line : Nat, customer : BOOLEAN, cust : Nat]

(* The last of its own lines that a frame has executed by event i.          *)
OwnLine(k, f) == events[k].kind \in {"ENTER", "LINE"} /\ Home(k) = f /\ Customer(events[k])
Lit(f, i, line) ==
    \E k \in 1..i : OwnLine(k, f) /\ events[k].line = line /\ \A j \in (k + 1)..i : ~OwnLine(j, f)

Mirrors(stack, i) ==
    /\ stack \in Seq(Frame) /\ Len(stack) = Len(LiveAt(i))
    /\ \A s \in DOMAIN stack : /\ stack[s].file = events[LiveAt(i)[s]].file
                               /\ stack[s].customer = Customer(events[LiveAt(i)[s]])
                               /\ stack[s].customer => Lit(LiveAt(i)[s], i, stack[s].cust)

LEMMA LitStays ==
  ASSUME NEW f, NEW line, NEW n \in Nat, n # 0, Lit(f, n - 1, line), ~OwnLine(n, f)
  PROVE  Lit(f, n, line)
<1>1. PICK k \in 1..(n - 1) : OwnLine(k, f) /\ events[k].line = line /\ \A j \in (k + 1)..(n - 1) : ~OwnLine(j, f)
  BY DEF Lit
<1>2. k \in 1..n /\ \A j \in (k + 1)..n : j = n \/ j \in (k + 1)..(n - 1)
  OBVIOUS
<1> QED
  BY <1>1, <1>2 DEF Lit

LEMMA LitNow ==
  ASSUME NEW f, NEW n \in Nat, n # 0, OwnLine(n, f)
  PROVE  Lit(f, n, events[n].line)
<1>1. n \in 1..n /\ (n + 1)..n = {}
  OBVIOUS
<1> QED
  BY <1>1 DEF Lit

LEMMA WalkMirrors ==
  ASSUME TraceInv, NEW n \in 1..Total, NEW stack, Mirrors(stack, n - 1)
  PROVE  Mirrors(WalkFrames(stack, events[n]), n)
<1> DEFINE before == LiveAt(n - 1)
           now == LiveAt(n)
           e == events[n]
<1>1. /\ n \in Nat /\ n # 0 /\ n - 1 \in 0..Total /\ n \in 0..Total
      /\ Total \in Nat /\ e \in EventType /\ now = e.live
  BY EventIs
<1>2. /\ before \in Seq(Nat) /\ now \in Seq(Nat) /\ Nested(n - 1) /\ Nested(n)
      /\ Enters(n) \/ Runs(n) \/ Exits(n)
  BY <1>1, EventIs DEF TraceInv
<1>3. /\ stack \in Seq(Frame) /\ Len(stack) = Len(before) /\ Len(stack) \in Nat
      /\ DOMAIN stack = 1..Len(stack) /\ DOMAIN before = 1..Len(stack)
  BY <1>2 DEF Mirrors
<1>4. ASSUME NEW s \in DOMAIN stack
      PROVE  /\ stack[s].file = events[before[s]].file /\ stack[s].customer = Customer(events[before[s]])
             /\ stack[s].customer => Lit(before[s], n - 1, stack[s].cust)
             /\ before[s] \in 1..(n - 1) /\ stack[s] \in Frame
  BY <1>2, <1>3 DEF Mirrors, Nested
<1>5. Home(n) = IF now = <<>> THEN 0 ELSE Last(now)
  BY <1>1 DEF Home
<1>6. /\ e.kind \in EventTypes /\ e.file \in {"app", "shim"} /\ e.line \in Nat /\ Customer(e) \in BOOLEAN
  BY <1>1 DEF EventType, Customer
<1> HIDE DEF before, now, e
<1>7. CASE Enters(n)
  <2> DEFINE top == [file |-> e.file, line |-> e.line, customer |-> Customer(e), cust |-> e.line]
  <2>1. e.kind = "ENTER" /\ now = Append(before, n)
    BY <1>1, <1>7 DEF Enters, e, now, before
  <2>2. WalkFrames(stack, e) = Append(stack, top)
    BY <2>1 DEF WalkFrames
  <2>3. top \in Frame /\ top.file = e.file /\ top.customer = Customer(e) /\ top.cust = e.line
    BY <1>6 DEF Frame
  <2> HIDE DEF top
  <2>4. PICK st : st = Append(stack, top)
    OBVIOUS
  <2>5. /\ st \in Seq(Frame) /\ Len(st) = Len(stack) + 1 /\ DOMAIN st = 1..(Len(stack) + 1)
        /\ st[Len(stack) + 1] = top /\ \A s \in 1..Len(stack) : st[s] = stack[s]
    BY <1>3, <2>3, <2>4
  <2>6. /\ Len(now) = Len(stack) + 1 /\ now[Len(stack) + 1] = n /\ \A s \in 1..Len(stack) : now[s] = before[s]
    BY <1>2, <1>3, <2>1 DEF before
  <2>7. Home(n) = n
    BY <1>2, <1>3, <1>5, <2>1, <2>6 DEF Last, now
  <2>8. ASSUME NEW s \in DOMAIN st
        PROVE  /\ st[s].file = events[now[s]].file /\ st[s].customer = Customer(events[now[s]])
               /\ st[s].customer => Lit(now[s], n, st[s].cust)
    <3>1. CASE s = Len(stack) + 1
      <4>1. st[s] = top /\ now[s] = n
        BY <2>5, <2>6, <3>1
      <4>2. Customer(e) => Lit(n, n, e.line)
        BY <1>1, <2>1, <2>7, LitNow DEF OwnLine, e
      <4> QED
        BY <2>3, <4>1, <4>2 DEF e
    <3>2. CASE s # Len(stack) + 1
      <4>1. s \in DOMAIN stack /\ st[s] = stack[s] /\ now[s] = before[s]
        BY <1>3, <2>5, <2>6, <3>2
      <4>2. before[s] # n
        BY <1>1, <1>4, <4>1
      <4>3. ~OwnLine(n, before[s])
        BY <2>7, <4>2 DEF OwnLine
      <4> QED
        BY <1>1, <1>4, <4>1, <4>3, LitStays
    <3> QED
      BY <3>1, <3>2
  <2> QED
    BY <2>2, <2>4, <2>5, <2>6, <2>8 DEF Mirrors, e, now
<1>8. CASE Runs(n)
  <2>1. e.kind \in {"LINE", "THROW"} /\ before # <<>> /\ now = before
    BY <1>1, <1>8 DEF Runs, e, now, before
  <2>2. Len(stack) \in DOMAIN stack /\ stack # <<>> /\ Home(n) = before[Len(stack)]
    BY <1>2, <1>3, <1>5, <2>1 DEF Last, before
  <2>3. CASE e.kind = "THROW"
    <3>1. WalkFrames(stack, e) = stack
      BY <2>3 DEF WalkFrames
    <3>2. ASSUME NEW s \in DOMAIN stack
          PROVE  /\ stack[s].file = events[now[s]].file /\ stack[s].customer = Customer(events[now[s]])
                 /\ stack[s].customer => Lit(now[s], n, stack[s].cust)
      <4>1. ~OwnLine(n, before[s])
        BY <2>3 DEF OwnLine, e
      <4> QED
        BY <1>1, <1>4, <2>1, <4>1, LitStays
    <3> QED
      BY <1>3, <2>1, <3>1, <3>2 DEF Mirrors, e, now, before
  <2>4. CASE e.kind = "LINE"
    <3> DEFINE old == stack[Len(stack)]
               top == [old EXCEPT !.line = e.line, !.cust = IF Customer(e) THEN e.line ELSE @]
    <3>1. WalkFrames(stack, e) = [stack EXCEPT ![Len(stack)] = top]
      BY <1>3, <1>4, <2>2, <2>4 DEF WalkFrames, Frame
    <3>2. /\ top \in Frame /\ top.file = old.file /\ top.customer = old.customer
          /\ top.cust = IF Customer(e) THEN e.line ELSE old.cust
      BY <1>4, <1>6, <2>2 DEF Frame
    <3> HIDE DEF top
    <3>3. PICK st : st = [stack EXCEPT ![Len(stack)] = top]
      OBVIOUS
    <3>4. /\ st \in Seq(Frame) /\ Len(st) = Len(stack) /\ DOMAIN st = DOMAIN stack
          /\ st[Len(stack)] = top /\ \A s \in DOMAIN stack : s # Len(stack) => st[s] = stack[s]
      BY <1>3, <2>2, <3>2, <3>3
    <3>5. ASSUME NEW s \in DOMAIN st
          PROVE  /\ st[s].file = events[now[s]].file /\ st[s].customer = Customer(events[now[s]])
                 /\ st[s].customer => Lit(now[s], n, st[s].cust)
      <4>1. CASE s = Len(stack) /\ Customer(e)
        <5>1. st[s] = top /\ now[s] = Home(n) /\ top.cust = e.line /\ s \in DOMAIN stack
          BY <2>1, <2>2, <3>2, <3>4, <4>1
        <5>2. Lit(now[s], n, e.line)
          BY <1>1, <2>4, <4>1, <5>1, LitNow DEF OwnLine, e
        <5> QED
          BY <1>4, <2>1, <3>2, <4>1, <5>1, <5>2
      <4>2. CASE s = Len(stack) /\ ~Customer(e)
        <5>1. st[s] = top /\ top.cust = old.cust /\ s \in DOMAIN stack
          BY <2>2, <3>2, <3>4, <4>2
        <5>2. ~OwnLine(n, before[s])
          BY <4>2 DEF OwnLine, e
        <5> QED
          BY <1>1, <1>4, <2>1, <3>2, <4>2, <5>1, <5>2, LitStays
      <4>3. CASE s # Len(stack)
        <5>1. st[s] = stack[s] /\ s \in DOMAIN stack /\ s < Len(stack)
          BY <1>3, <3>4, <4>3
        <5>2. before[s] # Home(n)
          BY <1>2, <1>3, <1>4, <2>2, <5>1 DEF Nested, before
        <5>3. ~OwnLine(n, before[s])
          BY <5>2 DEF OwnLine
        <5> QED
          BY <1>1, <1>4, <2>1, <5>1, <5>3, LitStays
      <4> QED
        BY <4>1, <4>2, <4>3
    <3> QED
      BY <1>3, <2>1, <3>1, <3>3, <3>4, <3>5 DEF Mirrors, e, now, before
  <2> QED
    BY <2>1, <2>3, <2>4
<1>9. CASE Exits(n)
  <2>1. e.kind = "EXIT" /\ before # <<>> /\ now = Front(before)
    BY <1>1, <1>9 DEF Exits, e, now, before
  <2>2. stack # <<>> /\ Len(stack) # 0
    BY <1>2, <1>3, <2>1 DEF before
  <2>3. WalkFrames(stack, e) = Front(stack)
    BY <2>1, <2>2 DEF WalkFrames
  <2>4. PICK st : st = Front(stack)
    OBVIOUS
  <2>5. /\ st \in Seq(Frame) /\ Len(st) = Len(stack) - 1 /\ DOMAIN st = 1..(Len(stack) - 1)
        /\ \A s \in 1..(Len(stack) - 1) : st[s] = stack[s] /\ s \in DOMAIN stack
    BY <1>3, <2>2, <2>4 DEF Front
  <2>6. Len(now) = Len(stack) - 1 /\ \A s \in 1..(Len(stack) - 1) : now[s] = before[s]
    BY <1>2, <1>3, <2>1, <2>2 DEF Front, before
  <2>7. ASSUME NEW s \in DOMAIN st
        PROVE  /\ st[s].file = events[now[s]].file /\ st[s].customer = Customer(events[now[s]])
               /\ st[s].customer => Lit(now[s], n, st[s].cust)
    <3>1. ~OwnLine(n, before[s])
      BY <2>1 DEF OwnLine, e
    <3>2. s \in DOMAIN stack /\ st[s] = stack[s] /\ now[s] = before[s]
      BY <2>5, <2>6
    <3> QED
      BY <1>1, <1>4, <3>1, <3>2, LitStays
  <2> QED
    BY <2>3, <2>4, <2>5, <2>6, <2>7 DEF Mirrors, e, now
<1> QED
  BY <1>2, <1>7, <1>8, <1>9
(* A walk up to any event takes one step per event.                         *)
Stacked(st, k) == st = [n \in 0..k |-> IF n = 0 THEN <<>> ELSE WalkFrames(st[n - 1], events[n])]

LEMMA SomeStacks == ASSUME NEW m \in Nat PROVE \E st : Stacked(st, m)
<1> DEFINE Bad == {n \in Nat : ~ \E st : Stacked(st, n)}
<1>1. SUFFICES ASSUME Bad # {} PROVE FALSE
  OBVIOUS
<1>2. PICK k \in Bad : \A n \in Bad : k <= n
  BY <1>1, LeastOf
<1>3. CASE k = 0
  <2> DEFINE st == [n \in 0..0 |-> <<>>]
  <2>1. st = [n \in 0..0 |-> IF n = 0 THEN <<>> ELSE WalkFrames(st[n - 1], events[n])]
    OBVIOUS
  <2> HIDE DEF st
  <2>2. Stacked(st, 0)
    BY <2>1 DEF Stacked
  <2> QED
    BY <1>2, <1>3, <2>2
<1>4. CASE k # 0
  <2>1. k \in Nat /\ k - 1 \in Nat /\ k - 1 \notin Bad
    BY <1>2, <1>4
  <2> HIDE DEF Bad
  <2>2. PICK g : Stacked(g, k - 1)
    BY <2>1 DEF Bad
  <2> DEFINE st == [n \in 0..k |-> IF n = k THEN WalkFrames(g[k - 1], events[k]) ELSE g[n]]
  <2>3. \A n \in 0..(k - 1) : g[n] = IF n = 0 THEN <<>> ELSE WalkFrames(g[n - 1], events[n])
    BY <2>2 DEF Stacked
  <2>4. ASSUME NEW n \in 0..k PROVE st[n] = IF n = 0 THEN <<>> ELSE WalkFrames(st[n - 1], events[n])
    <3>1. n # 0 => n - 1 \in 0..k /\ n - 1 # k
      BY <2>1
    <3>2. n # 0 => st[n - 1] = g[n - 1]
      BY <3>1
    <3>3. CASE n = k
      BY <1>4, <3>2, <3>3
    <3>4. CASE n # k
      <4>1. n \in 0..(k - 1)
        BY <2>1, <3>4
      <4>2. st[n] = g[n]
        BY <3>4
      <4> QED
        BY <2>3, <3>2, <4>1, <4>2
    <3> QED
      BY <3>3, <3>4
  <2>5. st = [n \in 0..k |-> st[n]]
    OBVIOUS
  <2> HIDE DEF st
  <2>6. st = [n \in 0..k |-> IF n = 0 THEN <<>> ELSE WalkFrames(st[n - 1], events[n])]
    BY <2>4, <2>5
  <2>7. Stacked(st, k)
    BY <2>6 DEF Stacked
  <2> QED
    BY <1>2, <2>7 DEF Bad
<1> QED
  BY <1>3, <1>4

LEMMA StackMirrors == ASSUME TraceInv, NEW i \in 0..Total PROVE Mirrors(StackAt(i), i)
<1> DEFINE st == CHOOSE st : Stacked(st, i)
<1>1. i \in Nat /\ Total \in Nat
  BY EventIs
<1>2. Stacked(st, i)
  BY <1>1, SomeStacks
<1>3. StackAt(i) = st[i]
  BY DEF StackAt, Stacked
<1> HIDE DEF st
<1>4. st[0] = <<>> /\ \A n \in 0..i : n # 0 => st[n] = WalkFrames(st[n - 1], events[n])
  BY <1>1, <1>2 DEF Stacked
<1> DEFINE Bad == {n \in 0..i : ~Mirrors(st[n], n)}
<1>5. Mirrors(st[0], 0)
  <2>1. LiveAt(0) = <<>> /\ st[0] \in Seq(Frame) /\ DOMAIN st[0] = {} /\ Len(st[0]) = 0 /\ Len(LiveAt(0)) = 0
    BY <1>4, EventIs
  <2> QED
    BY <2>1 DEF Mirrors
<1>6. Bad = {}
  <2> SUFFICES ASSUME Bad # {} PROVE FALSE
    OBVIOUS
  <2>1. Bad \in SUBSET Nat
    BY <1>1
  <2>2. PICK k \in Bad : \A n \in Bad : k <= n
    BY <2>1, LeastOf
  <2>3. k # 0 /\ k - 1 \in 0..i /\ k - 1 \notin Bad /\ k \in 0..i /\ k \in 1..Total
    BY <1>1, <1>5, <2>2
  <2>4. Mirrors(st[k - 1], k - 1) /\ st[k] = WalkFrames(st[k - 1], events[k])
    BY <1>4, <2>3
  <2>5. Mirrors(st[k], k)
    BY <2>3, <2>4, WalkMirrors
  <2> QED
    BY <2>2, <2>5
<1>7. i \in 0..i
  BY <1>1
<1> QED
  BY <1>3, <1>6, <1>7

(* The first event of a run enters the customer's module.                   *)
LEMMA FirstEvent == ASSUME TraceInv, Total # 0 PROVE 1 \in 1..Total /\ Customer(events[1]) /\ events[1].kind = "ENTER"
<1>1. 1 \in 1..Total
  BY EventIs
<1>2. Enters(1) \/ Runs(1) \/ Exits(1)
  BY <1>1 DEF TraceInv
<1>3. LiveAt(1 - 1) = <<>>
  BY EventIs
<1>4. events[1].kind = "ENTER" /\ events[1].file = "app" /\ events[1].line = 1
  BY <1>2, <1>3 DEF Enters, Runs, Exits
<1> QED
  BY <1>1, <1>4, TraceAssumption DEF Customer

(* A line of the customer's is executed in a frame of the customer's.       *)
LEMMA HomeOfCustomer ==
  ASSUME TraceInv, NEW n \in 1..Total, Customer(events[n]), events[n].kind \in {"ENTER", "LINE"}
  PROVE  /\ LiveAt(n) # <<>> /\ Last(LiveAt(n)) \in 1..n /\ Home(n) = Last(LiveAt(n))
         /\ Customer(events[Home(n)])
<1>1. /\ LiveAt(n) = events[n].live /\ LiveAt(n) \in Seq(Nat) /\ Nested(n) /\ n \in Nat
      /\ n - 1 \in 0..Total
  BY EventIs
<1>2. LiveAt(n - 1) \in Seq(Nat) /\ (Enters(n) \/ Runs(n) \/ Exits(n))
  BY <1>1, EventIs DEF TraceInv
<1>3. CASE Enters(n)
  <2>1. LiveAt(n) = Append(LiveAt(n - 1), n)
    BY <1>1, <1>3 DEF Enters
  <2>2. LiveAt(n) # <<>> /\ Last(LiveAt(n)) = n
    BY <1>2, <2>1 DEF Last
  <2> QED
    BY <1>1, <2>2 DEF Home
<1>4. CASE Runs(n)
  <2>1. LiveAt(n) = LiveAt(n - 1) /\ LiveAt(n) # <<>>
    BY <1>1, <1>4 DEF Runs
  <2>2. Len(LiveAt(n)) \in DOMAIN LiveAt(n)
    BY <1>1, <2>1
  <2>3. PICK f : f = Last(LiveAt(n))
    OBVIOUS
  <2>4. f \in 1..n /\ events[f].kind = "ENTER" /\ Home(n) = f
    BY <1>1, <2>1, <2>2, <2>3 DEF Nested, Last, Home
  <2>5. f \in 1..Total
    <3>1. Total \in Nat /\ f \in Nat /\ 1 <= f /\ f <= n /\ n <= Total
      BY <1>1, <2>4, EventIs
    <3> QED
      BY <3>1
  <2>6. events[n].file = events[f].file /\ (Len(events[f].live) = 1 \/ (events[n].line > LineCount) = (events[f].line > LineCount))
    BY <1>4, <2>1, <2>3 DEF Runs
  <2>7. CASE Len(events[f].live) = 1
    <3>1. f \in Nat /\ f - 1 \in 0..Total /\ LiveAt(f) = events[f].live
      BY <2>5, EventIs
    <3>2. Enters(f)
      BY <2>4, <2>5 DEF TraceInv, Runs, Exits
    <3>3. LiveAt(f) = Append(LiveAt(f - 1), f) /\ LiveAt(f - 1) \in Seq(Nat)
      BY <3>1, <3>2, EventIs DEF Enters
    <3>4. Len(LiveAt(f - 1)) = 0
      BY <2>7, <3>1, <3>3
    <3>5. LiveAt(f - 1) = <<>>
      BY <3>3, <3>4
    <3>6. Customer(events[f])
      BY <3>2, <3>5, TraceAssumption DEF Enters, Customer
    <3> QED
      BY <2>1, <2>3, <2>4, <3>6
  <2>8. CASE (events[n].line > LineCount) = (events[f].line > LineCount)
    <3>1. events[n] \in EventType /\ events[f] \in EventType
      BY <2>5, EventIs
    <3>2. events[n].line \in Nat /\ events[f].line \in Nat /\ LineCount \in Nat
      BY <3>1, TraceAssumption DEF EventType
    <3>3. Customer(events[f])
      BY <2>6, <2>8, <3>2 DEF Customer
    <3> QED
      BY <2>1, <2>3, <2>4, <3>3
  <2> QED
    BY <2>6, <2>7, <2>8
<1> QED
  BY <1>2, <1>3, <1>4 DEF Exits
(* The line of a frame on the stack is its last.                            *)
LEMMA LitIsLast ==
  ASSUME NEW f, NEW p \in Nat, NEW line, Lit(f, p, line)
  PROVE  events[LastLine(f, p)].line = line
<1>1. PICK k \in 1..p : OwnLine(k, f) /\ events[k].line = line /\ \A j \in (k + 1)..p : ~OwnLine(j, f)
  BY DEF Lit
<1> DEFINE Is(i) == OwnLine(i, f) /\ \A j \in (i + 1)..p : ~OwnLine(j, f)
<1>2. LastLine(f, p) = CHOOSE i \in 1..p : Is(i)
  <2>1. \A i \in 1..p : Is(i) <=> /\ events[i].kind \in {"ENTER", "LINE"} /\ Home(i) = f /\ Customer(events[i])
                                  /\ \A j \in (i + 1)..p :
                                        events[j].kind \in {"ENTER", "LINE"} /\ Home(j) = f => ~Customer(events[j])
    BY DEF OwnLine
  <2> HIDE DEF Is
  <2> QED
    BY <2>1 DEF LastLine
<1>3. ASSUME NEW i \in 1..p, Is(i) PROVE i = k
  <2>1. CASE i < k
    <3>1. k \in (i + 1)..p
      BY <2>1
    <3> QED
      BY <1>1, <1>3, <3>1
  <2>2. CASE k < i
    <3>1. i \in (k + 1)..p
      BY <2>2
    <3> QED
      BY <1>1, <1>3, <3>1
  <2> QED
    BY <2>1, <2>2
<1>4. Is(k)
  BY <1>1
<1> HIDE DEF Is
<1>5. LastLine(f, p) = k
  BY <1>2, <1>3, <1>4
<1> QED
  BY <1>1, <1>5

(* The innermost customer frame on the stack is the innermost one alive.    *)
LEMMA ShownFrame ==
  ASSUME TraceInv, NEW p \in 1..Total, NEW s \in CustomerFrames(StackAt(p))
  PROVE  /\ s \in DOMAIN LiveAt(p) /\ Customer(events[LiveAt(p)[s]])
         /\ \A t \in DOMAIN LiveAt(p) : Customer(events[LiveAt(p)[t]]) => LiveAt(p)[t] <= LiveAt(p)[s]
         /\ Lit(LiveAt(p)[s], p, StackAt(p)[s].cust)
         /\ StackAt(p)[s].file = "app" /\ StackAt(p)[s].cust <= LineCount
<1> DEFINE stack == StackAt(p)
<1>1. p \in 0..Total /\ LiveAt(p) \in Seq(Nat) /\ Nested(p)
  BY EventIs
<1>2. Mirrors(stack, p)
  BY <1>1, StackMirrors
<1>3. s \in DOMAIN stack /\ stack[s].customer /\ \A t \in (s + 1)..Len(stack) : ~stack[t].customer
  BY DEF CustomerFrames
<1> HIDE DEF stack
<1>4. stack \in Seq(Frame) /\ DOMAIN stack = 1..Len(stack) /\ Len(stack) \in Nat /\ DOMAIN LiveAt(p) = 1..Len(stack)
  BY <1>1, <1>2 DEF Mirrors
<1>5. /\ stack[s].file = events[LiveAt(p)[s]].file /\ stack[s].customer = Customer(events[LiveAt(p)[s]])
      /\ Lit(LiveAt(p)[s], p, stack[s].cust)
  BY <1>2, <1>3 DEF Mirrors
<1>6. ASSUME NEW t \in DOMAIN LiveAt(p), Customer(events[LiveAt(p)[t]]) PROVE LiveAt(p)[t] <= LiveAt(p)[s]
  <2>1. stack[t].customer
    BY <1>2, <1>4, <1>6 DEF Mirrors
  <2>2. ~(t \in (s + 1)..Len(stack))
    BY <1>3, <2>1
  <2>3. t = s \/ t < s
    BY <1>3, <1>4, <2>2
  <2>4. LiveAt(p)[t] \in Nat /\ LiveAt(p)[s] \in Nat
    BY <1>1, <1>3, <1>4
  <2> QED
    BY <1>1, <1>3, <1>4, <2>3, <2>4 DEF Nested
<1>7. stack[s].file = "app" /\ stack[s].cust <= LineCount
  <2>1. Customer(events[LiveAt(p)[s]])
    BY <1>3, <1>5
  <2>2. PICK k \in 1..p : Customer(events[k]) /\ events[k].line = stack[s].cust
    BY <1>5 DEF Lit, OwnLine
  <2> QED
    BY <1>5, <2>1, <2>2 DEF Customer
<1> QED
  BY <1>3, <1>4, <1>5, <1>6, <1>7 DEF stack

LEMMA SomeShown ==
  ASSUME TraceInv, NEW p \in 1..Total, NEW t \in DOMAIN LiveAt(p), Customer(events[LiveAt(p)[t]])
  PROVE  CustomerFrames(StackAt(p)) # {}
<1> DEFINE stack == StackAt(p)
<1>1. p \in 0..Total /\ LiveAt(p) \in Seq(Nat)
  BY EventIs
<1>2. Mirrors(stack, p)
  BY <1>1, StackMirrors
<1> HIDE DEF stack
<1>3. Len(stack) \in Nat /\ DOMAIN stack = 1..Len(stack) /\ DOMAIN LiveAt(p) = 1..Len(stack)
  BY <1>1, <1>2 DEF Mirrors
<1>4. t \in 1..Len(stack) /\ stack[t].customer
  BY <1>2, <1>3 DEF Mirrors
<1> DEFINE Above == {n \in 0..Len(stack) : Len(stack) - n \in DOMAIN stack /\ stack[Len(stack) - n].customer}
<1>5. Len(stack) - t \in 0..Len(stack) /\ Len(stack) - (Len(stack) - t) = t
  BY <1>3, <1>4
<1>6. Above # {} /\ Above \in SUBSET Nat
  BY <1>3, <1>4, <1>5
<1>7. PICK n \in Above : \A m \in Above : n <= m
  BY <1>6, LeastOf
<1>8. PICK s : s = Len(stack) - n
  OBVIOUS
<1>9. s \in DOMAIN stack /\ stack[s].customer /\ n \in 0..Len(stack)
  BY <1>7, <1>8
<1>10. ASSUME NEW u \in (s + 1)..Len(stack), stack[u].customer PROVE FALSE
  <2>1. PICK m : m = Len(stack) - u
    OBVIOUS
  <2>2. m \in 0..Len(stack) /\ Len(stack) - m = u /\ u \in 1..Len(stack) /\ m < n
    BY <1>3, <1>8, <1>9, <2>1
  <2>3. m \in Above
    BY <1>3, <1>10, <2>2
  <2> HIDE DEF Above
  <2>4. n <= m /\ m \in Nat /\ n \in Nat
    BY <1>3, <1>7, <1>9, <2>2, <2>3
  <2> QED
    BY <2>2, <2>4
<1>11. s \in CustomerFrames(stack)
  BY <1>9, <1>10 DEF CustomerFrames
<1> QED
  BY <1>11 DEF stack

(* The line shown is of the customer's, whatever branch it is taken from.   *)
LEMMA LitIsCustomers ==
  ASSUME TraceInv, HasCustomer, NEW p \in 1..Total
  PROVE  Customer(SourceAt(p))
<1> DEFINE Last1 == CHOOSE i \in LastThrow(p) : TRUE
           Shown == CHOOSE s \in CustomerFrames(StackAt(p)) : TRUE
           ran == {i \in 1..p : Customer(events[i])}
           Latest == CHOOSE i \in ran : \A j \in ran : j <= i
<1>1. Total \in Nat /\ p \in Nat /\ p # 0 /\ p <= Total
  BY EventIs
<1>2. ASSUME NEW i \in LastThrow(p), Customer(events[i]) PROVE Customer(events[Last1])
  <2>1. ASSUME NEW j \in LastThrow(p) PROVE j = i
    <3>1. i \in 1..p /\ j \in 1..p /\ events[i].kind = "THROW" /\ events[j].kind = "THROW"
      BY DEF LastThrow
    <3>2. ~(i \in (j + 1)..p) /\ ~(j \in (i + 1)..p)
      BY <3>1 DEF LastThrow
    <3> QED
      BY <1>1, <3>1, <3>2
  <2>2. Last1 \in LastThrow(p)
    OBVIOUS
  <2> QED
    BY <1>2, <2>1, <2>2
<1>3. ASSUME NEW i, Customer(events[i]) PROVE Customer([file |-> events[i].file, line |-> events[i].line])
  BY <1>3 DEF Customer
<1>4. Own(p) /\ events[p].kind # "EXIT" => Customer(events[p])
  BY DEF Own
<1>5. ASSUME CustomerFrames(StackAt(p)) # {}
      PROVE  Customer([file |-> StackAt(p)[Shown].file, line |-> StackAt(p)[Shown].cust])
  <2>1. Shown \in CustomerFrames(StackAt(p))
    BY <1>5
  <2> HIDE DEF Shown
  <2>2. StackAt(p)[Shown].file = "app" /\ StackAt(p)[Shown].cust <= LineCount
    BY <2>1, ShownFrame
  <2> QED
    BY <2>2 DEF Customer
<1>6. Customer(Fallback(p))
  <2>1. 1 \in ran
    BY <1>1, FirstEvent
  <2> DEFINE Behind == {n \in 0..p : p - n \in ran}
  <2>2. p - 1 \in 0..p /\ p - (p - 1) = 1
    BY <1>1
  <2>3. Behind # {} /\ Behind \in SUBSET Nat
    <3> HIDE DEF ran
    <3>1. p - (p - 1) \in ran
      BY <2>1, <2>2
    <3> QED
      BY <1>1, <2>2, <3>1
  <2>4. PICK n \in Behind : \A m \in Behind : n <= m
    BY <2>3, LeastOf
  <2>5. PICK i : i = p - n
    OBVIOUS
  <2>6. i \in ran /\ n \in 0..p
    BY <2>4, <2>5
  <2>7. ASSUME NEW j \in ran PROVE j <= i
    <3>1. j \in 1..p
      OBVIOUS
    <3>2. PICK m : m = p - j
      OBVIOUS
    <3>3. m \in 0..p /\ p - m = j
      BY <1>1, <3>1, <3>2
    <3>4. n <= m
      BY <2>4, <3>3
    <3> QED
      BY <1>1, <2>5, <2>6, <3>1, <3>3, <3>4
  <2>8. Latest \in ran
    BY <2>6, <2>7
  <2>9. Customer(events[Latest])
    BY <2>8
  <2>10. Fallback(p) = [file |-> events[Latest].file, line |-> events[Latest].line]
    BY <2>1 DEF Fallback
  <2> HIDE DEF Latest
  <2> QED
    BY <1>3, <2>9, <2>10
<1> HIDE DEF Last1, Shown, Latest
<1>7. CASE p = Total /\ \E i \in LastThrow(p) : Customer(events[i])
  <2>1. SourceAt(p) = [file |-> events[Last1].file, line |-> events[Last1].line]
    BY <1>7 DEF SourceAt, Last1
  <2> QED
    BY <1>2, <1>3, <1>7, <2>1
<1>8. CASE ~(p = Total /\ \E i \in LastThrow(p) : Customer(events[i])) /\ Own(p) /\ events[p].kind # "EXIT"
  <2>1. SourceAt(p) = [file |-> events[p].file, line |-> events[p].line]
    BY <1>8 DEF SourceAt
  <2> QED
    BY <1>3, <1>4, <1>8, <2>1
<1>9. CASE /\ ~(p = Total /\ \E i \in LastThrow(p) : Customer(events[i])) /\ ~(Own(p) /\ events[p].kind # "EXIT")
           /\ CustomerFrames(StackAt(p)) # {}
  <2>1. SourceAt(p) = [file |-> StackAt(p)[Shown].file, line |-> StackAt(p)[Shown].cust]
    BY <1>9 DEF SourceAt, Shown
  <2> QED
    BY <1>5, <1>9, <2>1
<1>10. CASE /\ ~(p = Total /\ \E i \in LastThrow(p) : Customer(events[i])) /\ ~(Own(p) /\ events[p].kind # "EXIT")
            /\ CustomerFrames(StackAt(p)) = {}
  <2>1. SourceAt(p) = Fallback(p)
    BY <1>10 DEF SourceAt
  <2> QED
    BY <1>6, <2>1
<1> QED
  BY <1>7, <1>8, <1>9, <1>10

LEMMA SourceHolds == TraceInv => SourceIsLive
<1> SUFFICES ASSUME TraceInv, over, HasCustomer, NEW p, p = playhead
             PROVE  /\ Customer(SourceAt(p))
                    /\ LET alive == {f \in ToSet(events[p].live) : Customer(events[f])}
                       IN alive # {} /\ p # Total /\ events[p].kind # "THROW" =>
                            LET frame == CHOOSE f \in alive : \A g \in alive : g <= f
                            IN SourceAt(p).line = events[LastLine(frame, p)].line
  BY DEF SourceIsLive
<1>1. p \in 1..Total /\ Total \in Nat /\ p \in Nat /\ p # 0
  BY EventIs DEF TraceInv
<1>2. /\ LiveAt(p) = events[p].live /\ LiveAt(p) \in Seq(Nat) /\ Nested(p)
  BY <1>1, EventIs
<1> DEFINE alive == {f \in ToSet(events[p].live) : Customer(events[f])}
           Top(f) == \A g \in alive : g <= f
           frame == CHOOSE f \in alive : Top(f)
<1>3. \A f : f \in alive <=> Customer(events[f]) /\ \E t \in DOMAIN LiveAt(p) : LiveAt(p)[t] = f
  BY <1>2 DEF ToSet
<1>4. alive \in SUBSET Nat
  BY <1>2, <1>3
<1>5. ASSUME NEW f \in alive, \A g \in alive : g <= f PROVE frame = f
  <2>1. Top(f) /\ \A g \in alive : Top(g) => g <= f /\ f <= g
    BY <1>5
  <2>2. \A g \in alive : Top(g) => g = f
    BY <1>4, <2>1
  <2> HIDE DEF alive, Top
  <2> QED
    BY <2>1, <2>2
<1> HIDE DEF alive, frame
<1>6. ASSUME alive # {}, p # Total, events[p].kind # "THROW" PROVE SourceAt(p).line = events[LastLine(frame, p)].line
  <2>1. CASE Own(p) /\ events[p].kind # "EXIT"
    <3>1. SourceAt(p) = [file |-> events[p].file, line |-> events[p].line]
      BY <1>6, <2>1 DEF SourceAt
    <3>2. Customer(events[p]) /\ events[p].kind \in {"ENTER", "LINE"}
      <4>1. events[p].kind \in EventTypes
        BY <1>1, EventIs DEF EventType
      <4> QED
        BY <1>6, <2>1, <4>1 DEF Own, EventTypes
    <3>3. /\ LiveAt(p) # <<>> /\ Last(LiveAt(p)) \in 1..p /\ Home(p) = Last(LiveAt(p)) /\ Customer(events[Home(p)])
      BY <1>1, <3>2, HomeOfCustomer
    <3>4. Len(LiveAt(p)) \in DOMAIN LiveAt(p) /\ Home(p) = LiveAt(p)[Len(LiveAt(p))]
      BY <1>2, <3>3 DEF Last
    <3>5. Home(p) \in alive
      BY <1>3, <3>3, <3>4
    <3>6. ASSUME NEW g \in alive PROVE g <= Home(p)
      <4>1. PICK t \in DOMAIN LiveAt(p) : LiveAt(p)[t] = g
        BY <1>3
      <4>2. t = Len(LiveAt(p)) \/ t < Len(LiveAt(p))
        BY <1>2
      <4>3. g \in Nat /\ Home(p) \in Nat
        BY <1>4, <3>5
      <4> QED
        BY <1>2, <3>4, <4>1, <4>2, <4>3 DEF Nested
    <3>7. frame = Home(p)
      BY <1>5, <3>5, <3>6
    <3>8. Lit(Home(p), p, events[p].line)
      BY <1>1, <3>2, LitNow DEF OwnLine
    <3> QED
      BY <1>1, <3>1, <3>7, <3>8, LitIsLast
  <2>2. CASE ~(Own(p) /\ events[p].kind # "EXIT")
    <3>1. PICK t \in DOMAIN LiveAt(p) : Customer(events[LiveAt(p)[t]])
      BY <1>3, <1>6
    <3>2. CustomerFrames(StackAt(p)) # {}
      BY <1>1, <3>1, SomeShown
    <3>3. PICK s : s = CHOOSE inner \in CustomerFrames(StackAt(p)) : TRUE
      OBVIOUS
    <3>4. SourceAt(p) = [file |-> StackAt(p)[s].file, line |-> StackAt(p)[s].cust]
      BY <1>6, <2>2, <3>2, <3>3 DEF SourceAt
    <3>5. s \in CustomerFrames(StackAt(p))
      BY <3>2, <3>3
    <3>6. /\ s \in DOMAIN LiveAt(p) /\ Customer(events[LiveAt(p)[s]])
          /\ \A u \in DOMAIN LiveAt(p) : Customer(events[LiveAt(p)[u]]) => LiveAt(p)[u] <= LiveAt(p)[s]
          /\ Lit(LiveAt(p)[s], p, StackAt(p)[s].cust)
      BY <1>1, <3>5, ShownFrame
    <3>7. LiveAt(p)[s] \in alive /\ \A g \in alive : g <= LiveAt(p)[s]
      BY <1>3, <3>6
    <3>8. frame = LiveAt(p)[s]
      BY <1>5, <3>7
    <3> QED
      BY <1>1, <3>4, <3>6, <3>8, LitIsLast
  <2> QED
    BY <2>1, <2>2
<1>7. Customer(SourceAt(p))
  BY <1>1, LitIsCustomers
<1> QED
  BY <1>6, <1>7 DEF alive, frame
(* Depths.                                                                  *)
Tally(from, to, kind) == Cardinality({i \in from..to : events[i].kind = kind})

LEMMA CountOne ==
  ASSUME NEW from \in Nat, NEW k \in Nat, from <= k, NEW kind
  PROVE  /\ Tally(from, k, kind) \in Nat
         /\ Tally(from, k, kind) = Tally(from, k - 1, kind) + (IF events[k].kind = kind THEN 1 ELSE 0)
<1> DEFINE All == {i \in from..k : events[i].kind = kind}
           Before == {i \in from..(k - 1) : events[i].kind = kind}
<1>1. IsFiniteSet(from..k) /\ IsFiniteSet(from..(k - 1))
  BY FS_Interval
<1>2. All \in SUBSET (from..k) /\ Before \in SUBSET (from..(k - 1))
  OBVIOUS
<1>3. IsFiniteSet(All) /\ IsFiniteSet(Before)
  BY <1>1, <1>2, FS_Subset
<1>4. Cardinality(All) \in Nat /\ Cardinality(Before) \in Nat
  BY <1>3, FS_CardinalityType
<1>5. k \in from..k /\ k \notin Before /\ \A i \in from..k : i = k \/ i \in from..(k - 1)
  OBVIOUS
<1>6. ASSUME events[k].kind = kind PROVE Cardinality(All) = Cardinality(Before) + 1
  <2>1. All = Before \cup {k}
    BY <1>5, <1>6
  <2>2. Cardinality(Before \cup {k}) = Cardinality(Before) + 1
    BY <1>3, <1>5, FS_AddElement
  <2> QED
    BY <2>1, <2>2
<1>7. ASSUME events[k].kind # kind PROVE Cardinality(All) = Cardinality(Before) + 0
  <2>1. All = Before
    BY <1>5, <1>7
  <2> HIDE DEF All, Before
  <2> QED
    BY <1>4, <2>1
<1> HIDE DEF All, Before
<1>8. Cardinality(All) = Cardinality(Before) + (IF events[k].kind = kind THEN 1 ELSE 0)
  BY <1>6, <1>7
<1> QED
  BY <1>4, <1>8 DEF All, Before, Tally

(* What one event does to the frames alive.                                 *)
LEMMA StepLength ==
  ASSUME TraceInv, NEW n \in 1..Total
  PROVE  /\ LiveAt(n) \in Seq(Nat) /\ LiveAt(n - 1) \in Seq(Nat) /\ n - 1 \in 0..Total /\ n \in 0..Total
         /\ events[n].kind = "ENTER" =>
               Enters(n) /\ Len(LiveAt(n)) = Len(LiveAt(n - 1)) + 1 /\ events[n].ended = 0
         /\ events[n].kind = "EXIT" =>
               /\ Exits(n) /\ Len(LiveAt(n)) = Len(LiveAt(n - 1)) - 1 /\ Len(LiveAt(n - 1)) # 0
               /\ events[n].ended = LiveAt(n - 1)[Len(LiveAt(n - 1))]
         /\ events[n].kind \notin {"ENTER", "EXIT"} =>
               /\ LiveAt(n) = LiveAt(n - 1) /\ Len(LiveAt(n)) # 0 /\ events[n].ended = 0
               /\ events[n].kind \in {"LINE", "THROW"}
         /\ \A s \in DOMAIN LiveAt(n) \cap DOMAIN LiveAt(n - 1) : LiveAt(n)[s] = LiveAt(n - 1)[s]
<1>1. /\ LiveAt(n) \in Seq(Nat) /\ LiveAt(n - 1) \in Seq(Nat) /\ n - 1 \in 0..Total /\ n \in 0..Total
      /\ LiveAt(n) = events[n].live
  <2>1. n - 1 \in 0..Total /\ n \in 0..Total
    BY EventIs
  <2> QED
    BY <2>1, EventIs
<1>2. Enters(n) \/ Runs(n) \/ Exits(n)
  BY DEF TraceInv
<1>3. CASE Enters(n)
  BY <1>1, <1>3 DEF Enters
<1>4. CASE Runs(n)
  BY <1>1, <1>4 DEF Runs
<1>5. CASE Exits(n)
  BY <1>1, <1>5 DEF Exits, Front, Last
<1> QED
  BY <1>2, <1>3, <1>4, <1>5

LEMMA Depths ==
  ASSUME TraceInv, NEW p \in 0..Total, NEW k \in p..Total
  PROVE  /\ Depth(p + 1, k) \in Nat /\ Below(p + 1, k) \in Nat
         /\ Len(LiveAt(k)) + Below(p + 1, k) = Len(LiveAt(p)) + Depth(p + 1, k)
<1> DEFINE Right(n) == /\ Depth(p + 1, n) \in Nat /\ Below(p + 1, n) \in Nat
                       /\ Len(LiveAt(n)) + Below(p + 1, n) = Len(LiveAt(p)) + Depth(p + 1, n)
           Bad == {n \in p..Total : ~Right(n)}
<1>1. Total \in Nat /\ p \in Nat /\ p \in p..Total
  BY EventIs
<1>2. Right(p)
  <2>1. (p + 1)..p = {}
    BY <1>1
  <2>2. {i \in (p + 1)..p : events[i].kind = "ENTER"} = {} /\ {i \in (p + 1)..p : events[i].kind = "EXIT"} = {}
    BY <2>1
  <2>3. Depth(p + 1, p) = 0 /\ Below(p + 1, p) = 0
    BY <2>2, FS_EmptySet DEF Depth, Below, Balance
  <2>4. Len(LiveAt(p)) \in Nat
    BY EventIs
  <2> QED
    BY <2>3, <2>4
<1>3. Bad = {}
  <2> SUFFICES ASSUME Bad # {} PROVE FALSE
    OBVIOUS
  <2>1. Bad \in SUBSET Nat
    BY <1>1
  <2>2. PICK n \in Bad : \A m \in Bad : n <= m
    BY <2>1, LeastOf
  <2>3. n # p
    BY <1>2, <2>2
  <2>4. n \in p..Total
    OBVIOUS
  <2>5. n - 1 \in p..Total /\ n \in 1..Total /\ n \in Nat /\ p + 1 \in Nat /\ p + 1 <= n /\ n - 1 \in Nat /\ ~(n <= n - 1)
    BY <1>1, <2>3, <2>4
  <2>6. Right(n - 1)
    BY <2>2, <2>5
  <2>7. /\ Depth(p + 1, n) = Depth(p + 1, n - 1) + (IF events[n].kind = "ENTER" THEN 1 ELSE 0)
        /\ Below(p + 1, n) = Below(p + 1, n - 1) + (IF events[n].kind = "EXIT" THEN 1 ELSE 0)
    <3>1. \A kind : Tally(p + 1, n, kind) = Tally(p + 1, n - 1, kind) + (IF events[n].kind = kind THEN 1 ELSE 0)
      BY <2>5, CountOne
    <3>2. Depth(p + 1, n) = Depth(p + 1, n - 1) + (IF events[n].kind = "ENTER" THEN 1 ELSE 0)
      BY <3>1 DEF Depth, Balance, Tally
    <3>3. Below(p + 1, n) = Below(p + 1, n - 1) + (IF events[n].kind = "EXIT" THEN 1 ELSE 0)
      BY <3>1 DEF Below, Balance, Tally
    <3> QED
      BY <3>2, <3>3
  <2>8. /\ Len(LiveAt(n)) \in Nat /\ Len(LiveAt(n - 1)) \in Nat /\ Len(LiveAt(p)) \in Nat
        /\ events[n].kind = "ENTER" => Len(LiveAt(n)) = Len(LiveAt(n - 1)) + 1
        /\ events[n].kind = "EXIT" => Len(LiveAt(n)) = Len(LiveAt(n - 1)) - 1
        /\ events[n].kind \notin {"ENTER", "EXIT"} => Len(LiveAt(n)) = Len(LiveAt(n - 1))
    BY <2>5, StepLength, EventIs
  <2>9. Right(n)
    <3>1. CASE events[n].kind = "ENTER"
      <4>1. Depth(p + 1, n) = Depth(p + 1, n - 1) + 1 /\ Below(p + 1, n) = Below(p + 1, n - 1) + 0
        BY <2>7, <3>1
      <4>2. Depth(p + 1, n) \in Nat /\ Below(p + 1, n) \in Nat
        BY <2>6, <4>1
      <4>3. Len(LiveAt(n)) + Below(p + 1, n) = Len(LiveAt(p)) + Depth(p + 1, n)
        <5>1. /\ Len(LiveAt(n)) = Len(LiveAt(n - 1)) + 1
              /\ Len(LiveAt(n - 1)) + Below(p + 1, n - 1) = Len(LiveAt(p)) + Depth(p + 1, n - 1)
          BY <2>6, <2>8, <3>1
        <5>2. /\ Len(LiveAt(n - 1)) \in Nat /\ Len(LiveAt(p)) \in Nat
              /\ Below(p + 1, n - 1) \in Nat /\ Depth(p + 1, n - 1) \in Nat
          BY <2>6, <2>8
        <5> HIDE DEF Right, Bad
        <5> QED
          BY <4>1, <5>1, <5>2
      <4> QED
        BY <4>2, <4>3
    <3>2. CASE events[n].kind = "EXIT"
      <4>1. Depth(p + 1, n) = Depth(p + 1, n - 1) + 0 /\ Below(p + 1, n) = Below(p + 1, n - 1) + 1
        BY <2>7, <3>2
      <4>2. Depth(p + 1, n) \in Nat /\ Below(p + 1, n) \in Nat
        BY <2>6, <4>1
      <4>3. Len(LiveAt(n)) + Below(p + 1, n) = Len(LiveAt(p)) + Depth(p + 1, n)
        BY <2>6, <2>8, <3>2, <4>1
      <4> QED
        BY <4>2, <4>3
    <3>3. CASE events[n].kind \notin {"ENTER", "EXIT"}
      <4>1. Depth(p + 1, n) = Depth(p + 1, n - 1) + 0 /\ Below(p + 1, n) = Below(p + 1, n - 1) + 0
        BY <2>7, <3>3
      <4>2. Depth(p + 1, n) \in Nat /\ Below(p + 1, n) \in Nat
        BY <2>6, <4>1
      <4>3. Len(LiveAt(n)) + Below(p + 1, n) = Len(LiveAt(p)) + Depth(p + 1, n)
        BY <2>6, <2>8, <3>3, <4>1
      <4> QED
        BY <4>2, <4>3
    <3> QED
      BY <3>1, <3>2, <3>3
  <2> QED
    BY <2>2, <2>9
<1> QED
  BY <1>3

(* While depths stay, so do the frames below.                               *)
LEMMA FramesKept ==
  ASSUME TraceInv, NEW p \in 0..Total, NEW k \in p..Total, \A j \in p..k : Len(LiveAt(p)) <= Len(LiveAt(j))
  PROVE  \A s \in DOMAIN LiveAt(p) : s \in DOMAIN LiveAt(k) /\ LiveAt(k)[s] = LiveAt(p)[s]
<1> DEFINE Right(n) == \A s \in DOMAIN LiveAt(p) : LiveAt(n)[s] = LiveAt(p)[s]
           Bad == {n \in p..k : ~Right(n)}
<1>1. Total \in Nat /\ p \in Nat /\ k \in Nat /\ p <= k /\ k <= Total /\ LiveAt(p) \in Seq(Nat)
  BY EventIs
<1>2. \A j \in p..k : j \in 0..Total /\ LiveAt(j) \in Seq(Nat) /\ DOMAIN LiveAt(p) \subseteq DOMAIN LiveAt(j)
  <2> SUFFICES ASSUME NEW j \in p..k
               PROVE  j \in 0..Total /\ LiveAt(j) \in Seq(Nat) /\ DOMAIN LiveAt(p) \subseteq DOMAIN LiveAt(j)
    OBVIOUS
  <2>1. j \in 0..Total
    BY <1>1
  <2>2. LiveAt(j) \in Seq(Nat)
    BY <2>1, EventIs
  <2>3. Len(LiveAt(p)) <= Len(LiveAt(j))
    OBVIOUS
  <2> QED
    BY <1>1, <2>1, <2>2, <2>3
<1>3. Bad = {}
  <2> SUFFICES ASSUME Bad # {} PROVE FALSE
    OBVIOUS
  <2>1. Bad \in SUBSET Nat
    BY <1>1
  <2>2. PICK n \in Bad : \A m \in Bad : n <= m
    BY <2>1, LeastOf
  <2>3. n # p
    BY <2>2
  <2>4. n \in p..k
    OBVIOUS
  <2>5. n - 1 \in p..k /\ n \in 1..Total /\ ~(n <= n - 1)
    BY <1>1, <2>3, <2>4
  <2>6. Right(n - 1)
    BY <2>2, <2>5
  <2>7. \A s \in DOMAIN LiveAt(n) \cap DOMAIN LiveAt(n - 1) : LiveAt(n)[s] = LiveAt(n - 1)[s]
    BY <2>5, StepLength
  <2>8. Right(n)
    BY <1>2, <2>4, <2>5, <2>6, <2>7
  <2> QED
    BY <2>2, <2>8
<1>4. k \in p..k
  BY <1>1
<1> QED
  BY <1>2, <1>3, <1>4

LEMMA HomeIs ==
  ASSUME TraceInv, NEW p \in 1..Total
  PROVE  /\ LiveAt(p) \in Seq(Nat) /\ Nested(p) /\ Len(LiveAt(p)) \in Nat
         /\ Len(LiveAt(p)) = 0 => Home(p) = 0
         /\ Len(LiveAt(p)) # 0 => /\ Len(LiveAt(p)) \in DOMAIN LiveAt(p) /\ Home(p) = LiveAt(p)[Len(LiveAt(p))]
                                  /\ Home(p) \in 1..p /\ Home(p) # 0
<1>1. LiveAt(p) = events[p].live /\ LiveAt(p) \in Seq(Nat) /\ Nested(p) /\ p \in Nat
  BY EventIs
<1>2. CASE Len(LiveAt(p)) = 0
  BY <1>1, <1>2 DEF Home
<1>3. CASE Len(LiveAt(p)) # 0
  <2>1. Len(LiveAt(p)) \in DOMAIN LiveAt(p)
    BY <1>1, <1>3
  <2>2. Home(p) = LiveAt(p)[Len(LiveAt(p))]
    BY <1>1, <1>3 DEF Home, Last
  <2>3. Home(p) \in 1..p
    BY <1>1, <2>1, <2>2 DEF Nested
  <2> QED
    BY <1>1, <1>3, <2>1, <2>2, <2>3
<1> QED
  BY <1>2, <1>3, <1>1
(* Where a step stops.                                                      *)
EndsHome(p, i) == Home(p) # 0 /\ events[i].ended = Home(p)
StopsHome(p, i) == IsHome(i, Home(p)) \/ EndsHome(p, i)

(* Until the depth falls below the playhead's, stepOver's counting of       *)
(* enters and exits recognises the playhead's frame.                        *)
LEMMA StopIs ==
  ASSUME TraceInv, NEW p \in 1..Total, NEW i \in (p + 1)..Total,
         \A j \in p..(i - 1) : Len(LiveAt(p)) <= Len(LiveAt(j))
  PROVE  /\ OverStops(p, i) <=> StopsHome(p, i)
         /\ Len(LiveAt(i)) < Len(LiveAt(p)) => OverStops(p, i)
<1> DEFINE d == Len(LiveAt(p))
<1>1. Total \in Nat /\ p \in Nat /\ i \in Nat /\ p < i /\ p \in 0..Total /\ i \in 1..Total /\ i \in p..Total
  BY EventIs
<1>2. i - 1 \in p..Total /\ i - 1 \in p..(i - 1)
  BY <1>1
<1>3. /\ LiveAt(i) \in Seq(Nat) /\ LiveAt(i - 1) \in Seq(Nat) /\ Nested(i - 1)
      /\ events[i].kind = "ENTER" =>
            Enters(i) /\ Len(LiveAt(i)) = Len(LiveAt(i - 1)) + 1 /\ events[i].ended = 0
      /\ events[i].kind = "EXIT" =>
            /\ Len(LiveAt(i)) = Len(LiveAt(i - 1)) - 1 /\ Len(LiveAt(i - 1)) # 0
            /\ events[i].ended = LiveAt(i - 1)[Len(LiveAt(i - 1))]
      /\ events[i].kind \notin {"ENTER", "EXIT"} =>
            /\ LiveAt(i) = LiveAt(i - 1) /\ Len(LiveAt(i)) # 0 /\ events[i].ended = 0
            /\ events[i].kind \in {"LINE", "THROW"}
  <2>1. i - 1 \in 0..Total
    BY <1>1
  <2> QED
    BY <1>1, <2>1, StepLength, EventIs
<1>4. /\ d \in Nat /\ LiveAt(p) \in Seq(Nat)
      /\ d = 0 => Home(p) = 0
      /\ d # 0 => d \in DOMAIN LiveAt(p) /\ Home(p) = LiveAt(p)[d] /\ Home(p) # 0
  BY HomeIs
<1>5. \A s \in DOMAIN LiveAt(p) : s \in DOMAIN LiveAt(i - 1) /\ LiveAt(i - 1)[s] = LiveAt(p)[s]
  BY <1>1, <1>2, FramesKept
<1>6. d <= Len(LiveAt(i - 1))
  BY <1>2
<1>7. /\ Depth(p + 1, i) \in Nat /\ Below(p + 1, i) \in Nat
      /\ Len(LiveAt(i)) + Below(p + 1, i) = d + Depth(p + 1, i)
  BY <1>1, Depths
<1>8. Len(LiveAt(i)) \in Nat /\ Len(LiveAt(i - 1)) \in Nat
  BY <1>3
<1>9. /\ Below(p + 1, i) > Depth(p + 1, i) <=> Len(LiveAt(i)) < d
      /\ Below(p + 1, i) = Depth(p + 1, i) <=> Len(LiveAt(i)) = d
  BY <1>4, <1>7, <1>8
\* The innermost frame is the playhead's exactly when the depth is.
<1>10. Len(LiveAt(i - 1)) # 0 => (Len(LiveAt(i - 1)) = d <=> Home(p) # 0 /\ LiveAt(i - 1)[Len(LiveAt(i - 1))] = Home(p))
  <2> SUFFICES ASSUME Len(LiveAt(i - 1)) # 0
               PROVE  Len(LiveAt(i - 1)) = d <=> Home(p) # 0 /\ LiveAt(i - 1)[Len(LiveAt(i - 1))] = Home(p)
    OBVIOUS
  <2>1. ASSUME Len(LiveAt(i - 1)) = d PROVE Home(p) # 0 /\ LiveAt(i - 1)[Len(LiveAt(i - 1))] = Home(p)
    BY <1>4, <1>5, <2>1
  <2>2. ASSUME Home(p) # 0, LiveAt(i - 1)[Len(LiveAt(i - 1))] = Home(p), Len(LiveAt(i - 1)) # d PROVE FALSE
    <3>1. d < Len(LiveAt(i - 1)) /\ Len(LiveAt(i - 1)) \in DOMAIN LiveAt(i - 1)
      BY <1>3, <1>4, <1>6, <1>8, <2>2
    <3>2. d \in DOMAIN LiveAt(i - 1) /\ LiveAt(i - 1)[d] = Home(p)
      BY <1>4, <1>5, <2>2
    <3>3. LiveAt(i - 1)[d] < LiveAt(i - 1)[Len(LiveAt(i - 1))] /\ LiveAt(i - 1)[d] \in Nat
      BY <1>3, <3>1, <3>2 DEF Nested
    <3> QED
      BY <2>2, <3>2, <3>3
  <2> QED
    BY <2>1, <2>2
<1> HIDE DEF d
<1>11. CASE events[i].kind = "EXIT"
  <2>1. OverStops(p, i) <=> Len(LiveAt(i)) < d
    BY <1>9, <1>11 DEF OverStops
  <2>2. StopsHome(p, i) <=> Len(LiveAt(i - 1)) = d
    BY <1>3, <1>10, <1>11 DEF StopsHome, IsHome, EndsHome
  <2>3. Len(LiveAt(i)) < d <=> Len(LiveAt(i - 1)) = d
    BY <1>3, <1>4, <1>6, <1>8, <1>11
  <2> QED
    BY <2>1, <2>2, <2>3 DEF d
<1>12. CASE events[i].kind = "ENTER"
  <2>1. ~OverStops(p, i)
    BY <1>12 DEF OverStops
  <2>2. ~StopsHome(p, i)
    BY <1>3, <1>12 DEF StopsHome, IsHome, EndsHome
  <2>3. ~(Len(LiveAt(i)) < d)
    BY <1>3, <1>4, <1>6, <1>8, <1>12
  <2> QED
    BY <2>1, <2>2, <2>3 DEF d
<1>13. CASE events[i].kind \notin {"ENTER", "EXIT"}
  <2>1. OverStops(p, i) <=> Len(LiveAt(i)) = d
    BY <1>9, <1>13 DEF OverStops
  <2>2. Home(i) = LiveAt(i - 1)[Len(LiveAt(i - 1))] /\ Home(i) # 0 /\ Len(LiveAt(i - 1)) # 0
    BY <1>1, <1>3, <1>13, HomeIs
  <2>3. StopsHome(p, i) <=> Home(i) = Home(p)
    BY <1>3, <1>13 DEF StopsHome, IsHome, EndsHome
  <2>4. StopsHome(p, i) <=> Len(LiveAt(i - 1)) = d
    BY <1>10, <2>2, <2>3
  <2>5. Len(LiveAt(i)) = Len(LiveAt(i - 1)) /\ ~(Len(LiveAt(i)) < d)
    BY <1>3, <1>4, <1>6, <1>8, <1>13
  <2> QED
    BY <2>1, <2>4, <2>5 DEF d
<1> QED
  BY <1>11, <1>12, <1>13

LEMMA OverReaches ==
  ASSUME TraceInv, NEW p \in 1..Total
  PROVE  /\ OverTo(p) = Total \/ StopsHome(p, OverTo(p))
         /\ \A j \in (p + 1)..(OverTo(p) - 1) : ~StopsHome(p, j)
<1> DEFINE S == {i \in (p + 1)..Total : OverStops(p, i)}
           Deep(m) == \A j \in p..(m - 1) : Len(LiveAt(p)) <= Len(LiveAt(j))
<1>1. Total \in Nat /\ p \in Nat /\ p <= Total
  BY EventIs
<1>2. S \in SUBSET Nat /\ OverTo(p) = First(S, Total)
  BY <1>1 DEF OverTo
<1>3. ASSUME NEW m \in (p + 1)..Total, \A j \in S : m <= j PROVE Deep(m)
  <2> SUFFICES ASSUME ~Deep(m) PROVE FALSE
    OBVIOUS
  <2> DEFINE Low == {j \in p..(m - 1) : ~(Len(LiveAt(p)) <= Len(LiveAt(j)))}
  <2>1. Low # {} /\ Low \in SUBSET Nat
    BY <1>1
  <2>2. PICK j \in Low : \A k \in Low : j <= k
    BY <2>1, LeastOf
  <2>3. j \in p..(m - 1) /\ ~(Len(LiveAt(p)) <= Len(LiveAt(j)))
    OBVIOUS
  <2>4. Len(LiveAt(p)) \in Nat
    BY HomeIs
  <2>5. j # p
    BY <2>3, <2>4
  <2>6. j \in (p + 1)..Total /\ j \in Nat /\ m \in Nat /\ j < m /\ j \in 0..Total
    BY <1>1, <1>3, <2>3, <2>5
  <2>7. Len(LiveAt(j)) \in Nat
    BY <2>6, EventIs
  <2>8. ASSUME NEW k \in p..(j - 1) PROVE Len(LiveAt(p)) <= Len(LiveAt(k))
    <3>1. k \in p..(m - 1) /\ ~(j <= k)
      BY <1>1, <2>6
    <3> QED
      BY <2>2, <3>1
  <2>9. OverStops(p, j)
    <3>1. Len(LiveAt(j)) < Len(LiveAt(p))
      BY <2>3, <2>4, <2>7
    <3> QED
      BY <2>6, <2>8, <3>1, StopIs
  <2> QED
    BY <1>3, <2>6, <2>9
<1>4. ASSUME NEW m \in (p + 1)..Total, \A j \in S : m <= j PROVE OverStops(p, m) <=> StopsHome(p, m)
  <2>1. Deep(m)
    BY <1>3, <1>4
  <2> QED
    BY <2>1, StopIs
<1>5. CASE S = {} /\ First(S, Total) = Total
  <2>1. ASSUME NEW j \in (p + 1)..(Total - 1) PROVE ~StopsHome(p, j)
    <3>1. j \in (p + 1)..Total
      BY <1>1
    <3>2. ~OverStops(p, j)
      BY <1>5, <3>1
    <3> QED
      BY <1>4, <1>5, <3>1, <3>2
  <2> QED
    BY <1>2, <1>5, <2>1
<1>6. CASE First(S, Total) \in S /\ \A j \in S : First(S, Total) <= j
  <2>1. PICK m : m = OverTo(p)
    OBVIOUS
  <2>2. m \in (p + 1)..Total /\ OverStops(p, m) /\ \A j \in S : m <= j
    BY <1>2, <1>6, <2>1
  <2>3. StopsHome(p, m)
    BY <1>4, <2>2
  <2>4. ASSUME NEW j \in (p + 1)..(m - 1) PROVE ~StopsHome(p, j)
    <3>1. j \in (p + 1)..Total /\ ~(m <= j)
      BY <1>1, <2>2
    <3>2. \A k \in S : j <= k
      BY <1>1, <2>2, <3>1
    <3>3. j \notin S
      BY <2>2, <3>1
    <3> QED
      BY <1>4, <3>1, <3>2, <3>3
  <2> QED
    BY <2>1, <2>3, <2>4
<1> QED
  BY <1>2, <1>5, <1>6, FirstIs
(* The pairing of enters with exits: what is open is alive, and an exit is  *)
(* paired with the frame it ended.                                          *)
ExitsBy(n) == {x \in 1..n : events[x].kind = "EXIT"}
Paired(n) == [open |-> LiveAt(n), pairs |-> {<<events[x].ended, x>> : x \in ExitsBy(n)}]
Folded(acc, m) == acc = [n \in 0..m |-> IF n = 0 THEN [open |-> <<>>, pairs |-> {}] ELSE Pairing(acc[n - 1], n)]

LEMMA PairingIs == ASSUME TraceInv, NEW n \in 1..Total PROVE Pairing(Paired(n - 1), n) = Paired(n)
<1>1. /\ LiveAt(n) \in Seq(Nat) /\ LiveAt(n - 1) \in Seq(Nat) /\ n \in Nat /\ n # 0
      /\ LiveAt(n) = events[n].live
  BY StepLength, EventIs
<1>2. \A x : x \in 1..n <=> x \in 1..(n - 1) \/ x = n
  BY <1>1
<1> DEFINE before == Paired(n - 1)
<1>3. before.open = LiveAt(n - 1) /\ before.pairs = {<<events[x].ended, x>> : x \in ExitsBy(n - 1)}
  BY DEF Paired
<1>4. Enters(n) \/ Runs(n) \/ Exits(n)
  BY DEF TraceInv
<1>5. CASE Enters(n)
  <2>1. ExitsBy(n) = ExitsBy(n - 1)
    BY <1>2, <1>5 DEF ExitsBy, Enters
  <2>2. events[n].kind = "ENTER" /\ LiveAt(n) = Append(LiveAt(n - 1), n)
    BY <1>1, <1>5 DEF Enters
  <2>3. Pairing(before, n) = [before EXCEPT !.open = Append(@, n)]
    BY <2>2 DEF Pairing
  <2> QED
    BY <2>1, <2>2, <2>3 DEF Paired
<1>6. CASE Runs(n)
  <2>1. ExitsBy(n) = ExitsBy(n - 1)
    BY <1>2, <1>6 DEF ExitsBy, Runs
  <2>2. events[n].kind \in {"LINE", "THROW"} /\ LiveAt(n) = LiveAt(n - 1)
    BY <1>1, <1>6 DEF Runs
  <2>3. Pairing(before, n) = before
    BY <2>2 DEF Pairing
  <2> QED
    BY <2>1, <2>2, <2>3 DEF Paired
<1>7. CASE Exits(n)
  <2>1. ExitsBy(n) = ExitsBy(n - 1) \cup {n}
    BY <1>2, <1>7 DEF ExitsBy, Exits
  <2>2. /\ events[n].kind = "EXIT" /\ LiveAt(n) = Front(LiveAt(n - 1)) /\ LiveAt(n - 1) # <<>>
        /\ events[n].ended = Last(LiveAt(n - 1))
    BY <1>1, <1>7 DEF Exits
  <2>3. {<<events[x].ended, x>> : x \in ExitsBy(n)}
          = {<<events[x].ended, x>> : x \in ExitsBy(n - 1)} \cup {<<Last(LiveAt(n - 1)), n>>}
    BY <2>1, <2>2
  <2>4. Pairing(before, n) = [open |-> Front(before.open), pairs |-> before.pairs \cup {<<Last(before.open), n>>}]
    BY <1>3, <2>2 DEF Pairing
  <2> HIDE DEF before
  <2> QED
    BY <1>3, <2>2, <2>3, <2>4 DEF Paired, before
<1> QED
  BY <1>4, <1>5, <1>6, <1>7

LEMMA MatchingExitIs == ASSUME TraceInv PROVE MatchingExit = {<<events[x].ended, x>> : x \in ExitsBy(Total)}
<1>1. Total \in Nat /\ LiveAt(0) = <<>>
  BY EventIs
<1>2. Paired(0) = [open |-> <<>>, pairs |-> {}]
  <2>1. ExitsBy(0) = {}
    BY DEF ExitsBy
  <2> QED
    BY <1>1, <2>1 DEF Paired
<1>3. \E acc : Folded(acc, Total)
  <2> DEFINE acc == [n \in 0..Total |-> Paired(n)]
  <2>1. ASSUME NEW n \in 0..Total
        PROVE  acc[n] = IF n = 0 THEN [open |-> <<>>, pairs |-> {}] ELSE Pairing(acc[n - 1], n)
    <3>1. CASE n = 0
      BY <1>2, <3>1
    <3>2. CASE n # 0
      <4>1. n \in 1..Total /\ n - 1 \in 0..Total
        BY <1>1, <3>2
      <4>2. Pairing(Paired(n - 1), n) = Paired(n)
        BY <4>1, PairingIs
      <4>3. acc[n - 1] = Paired(n - 1) /\ acc[n] = Paired(n)
        BY <4>1
      <4> QED
        BY <3>2, <4>2, <4>3
    <3> QED
      BY <3>1, <3>2
  <2>2. acc = [n \in 0..Total |-> acc[n]]
    OBVIOUS
  <2> HIDE DEF acc
  <2>3. Folded(acc, Total)
    BY <2>1, <2>2 DEF Folded
  <2> QED
    BY <2>3
<1> DEFINE acc == CHOOSE acc : Folded(acc, Total)
<1>4. Folded(acc, Total)
  BY <1>3
<1>5. MatchingExit = acc[Total].pairs
  BY DEF MatchingExit, Folded
<1> HIDE DEF acc
<1>6. \A n \in 0..Total : acc[n] = IF n = 0 THEN [open |-> <<>>, pairs |-> {}] ELSE Pairing(acc[n - 1], n)
  BY <1>4 DEF Folded
<1> DEFINE Bad == {n \in 0..Total : acc[n] # Paired(n)}
<1>7. Bad = {}
  <2> SUFFICES ASSUME Bad # {} PROVE FALSE
    OBVIOUS
  <2>1. Bad \in SUBSET Nat
    BY <1>1
  <2>2. PICK k \in Bad : \A n \in Bad : k <= n
    BY <2>1, LeastOf
  <2>3. k \in 0..Total /\ 0 \in 0..Total
    BY <1>1
  <2>4. k # 0
    BY <1>2, <1>6, <2>2, <2>3
  <2>5. k - 1 \in 0..Total /\ k \in 1..Total /\ ~(k <= k - 1)
    BY <1>1, <2>3, <2>4
  <2>6. acc[k - 1] = Paired(k - 1)
    BY <2>2, <2>5
  <2>7. acc[k] = Pairing(acc[k - 1], k)
    BY <1>6, <2>3, <2>4
  <2>8. acc[k] = Paired(k)
    BY <2>5, <2>6, <2>7, PairingIs
  <2> QED
    BY <2>2, <2>8
<1>8. Total \in 0..Total
  BY <1>1
<1>9. acc[Total] = Paired(Total)
  BY <1>7, <1>8
<1> QED
  BY <1>5, <1>9 DEF Paired

(* The one enter without an exit that stepOut looks for is the playhead's.  *)
LEMMA UnmatchedIs ==
  ASSUME TraceInv, NEW p \in 1..Total, NEW i
  PROVE  i \in Unmatched(p) <=> Home(p) # 0 /\ i = Home(p)
<1> DEFINE d == Len(LiveAt(p))
<1>1. Total \in Nat /\ p \in Nat /\ p <= Total /\ d \in Nat
  BY EventIs, HomeIs
<1>2. ASSUME NEW j \in 1..p
      PROVE  /\ Len(LiveAt(j)) \in Nat /\ j \in 1..Total
             /\ Depth(j + 1, p) < Below(j + 1, p) <=> d < Len(LiveAt(j))
             /\ Depth(j + 1, p) >= Below(j + 1, p) <=> ~(d < Len(LiveAt(j)))
  <2>1. j \in 0..Total /\ p \in j..Total /\ j \in 1..Total
    BY <1>1
  <2>2. /\ Depth(j + 1, p) \in Nat /\ Below(j + 1, p) \in Nat
        /\ Len(LiveAt(p)) + Below(j + 1, p) = Len(LiveAt(j)) + Depth(j + 1, p)
    BY <2>1, Depths
  <2>3. Len(LiveAt(j)) \in Nat
    BY <2>1, EventIs
  <2> QED
    BY <1>1, <2>1, <2>2, <2>3
<1> HIDE DEF d
<1>3. i \in Unmatched(p) <=> /\ i \in 1..p /\ events[i].kind = "ENTER" /\ ~(d < Len(LiveAt(i)))
                             /\ \A j \in (i + 1)..p : events[j].kind = "ENTER" => d < Len(LiveAt(j))
  <2>1. ASSUME NEW k \in 1..p, NEW j \in (k + 1)..p PROVE j \in 1..p
    BY <1>1
  <2> QED
    BY <1>2, <2>1 DEF Unmatched
<1>4. CASE d = 0
  <2>1. Home(p) = 0
    BY <1>4, HomeIs DEF d
  <2>2. ASSUME i \in Unmatched(p) PROVE FALSE
    <3>1. i \in 1..p /\ events[i].kind = "ENTER" /\ ~(d < Len(LiveAt(i)))
      BY <1>3, <2>2
    <3>2. i \in 1..Total /\ Len(LiveAt(i)) \in Nat
      BY <1>2, <3>1
    <3>3. Len(LiveAt(i)) = Len(LiveAt(i - 1)) + 1 /\ LiveAt(i - 1) \in Seq(Nat)
      BY <3>1, <3>2, StepLength
    <3> QED
      BY <1>4, <3>1, <3>2, <3>3
  <2> QED
    BY <2>1, <2>2
<1>5. CASE d # 0
  <2> DEFINE h == Home(p)
  <2>1. d \in DOMAIN LiveAt(p) /\ h = LiveAt(p)[d] /\ h \in 1..p /\ h # 0 /\ Nested(p)
    BY <1>5, HomeIs DEF d
  <2> HIDE DEF h
  <2>2. events[h].kind = "ENTER" /\ Len(LiveAt(h)) = d /\ \A j \in h..p : d <= Len(LiveAt(j))
    BY <2>1 DEF Nested
  <2>3. ASSUME NEW j \in (h + 1)..p, events[j].kind = "ENTER" PROVE d < Len(LiveAt(j))
    <3>1. j \in 1..p /\ j - 1 \in h..p
      BY <1>1, <2>1
    <3>2. j \in 1..Total /\ d <= Len(LiveAt(j - 1))
      BY <1>2, <2>2, <3>1
    <3>3. Len(LiveAt(j)) = Len(LiveAt(j - 1)) + 1 /\ LiveAt(j - 1) \in Seq(Nat)
      BY <2>3, <3>2, StepLength
    <3> QED
      BY <1>1, <3>2, <3>3
  <2>4. i = h => i \in Unmatched(p)
    BY <1>1, <1>3, <2>1, <2>2, <2>3
  <2>5. ASSUME i \in Unmatched(p), i # h PROVE FALSE
    <3>1. i \in 1..p /\ events[i].kind = "ENTER" /\ ~(d < Len(LiveAt(i)))
      BY <1>3, <2>5
    <3>2. CASE i > h
      <4>1. i \in (h + 1)..p
        BY <2>1, <3>1, <3>2
      <4> QED
        BY <2>3, <3>1, <4>1
    <3>3. CASE h > i
      <4>1. h \in (i + 1)..p
        BY <2>1, <3>1, <3>3
      <4>2. d < Len(LiveAt(h))
        BY <1>3, <2>2, <2>5, <4>1
      <4> QED
        BY <1>1, <2>2, <4>2
    <3> QED
      BY <2>1, <2>5, <3>1, <3>2, <3>3
  <2> QED
    BY <2>1, <2>4, <2>5 DEF h
<1> QED
  BY <1>4, <1>5

LEMMA OutReaches ==
  ASSUME TraceInv, NEW p \in 1..Total
  PROVE  /\ OutTo(p) = Total \/ EndsHome(p, OutTo(p))
         /\ \A j \in (p + 1)..(OutTo(p) - 1) : ~EndsHome(p, j)
<1> DEFINE S == {x \in DOMAIN events : \E i \in Unmatched(p) : <<i, x>> \in MatchingExit}
<1>1. Total \in Nat /\ p \in Nat /\ DOMAIN events = 1..Total
  BY EventIs
<1>2. S \in SUBSET Nat /\ OutTo(p) = First(S, Total)
  BY <1>1 DEF OutTo
<1>3. ASSUME NEW x \in 1..Total PROVE x \in S <=> EndsHome(p, x)
  <2>1. x \in S <=> Home(p) # 0 /\ <<Home(p), x>> \in MatchingExit
    <3>1. x \in S <=> \E i : i \in Unmatched(p) /\ <<i, x>> \in MatchingExit
      BY <1>1
    <3>2. \A i : i \in Unmatched(p) <=> Home(p) # 0 /\ i = Home(p)
      BY UnmatchedIs
    <3> HIDE DEF S
    <3> QED
      BY <3>1, <3>2
  <2>2. <<Home(p), x>> \in MatchingExit <=> events[x].kind = "EXIT" /\ events[x].ended = Home(p)
    BY MatchingExitIs DEF ExitsBy
  <2>3. events[x].kind # "EXIT" => events[x].ended = 0
    BY StepLength
  <2> QED
    BY <2>1, <2>2, <2>3 DEF EndsHome
<1>4. OutTo(p) \in Nat /\ OutTo(p) <= Total
  BY <1>1, <1>2, FirstIs
<1>5. ASSUME NEW j \in (p + 1)..(OutTo(p) - 1) PROVE j \in 1..Total /\ ~(OutTo(p) <= j)
  BY <1>1, <1>4
<1> HIDE DEF S
<1>6. CASE S = {} /\ First(S, Total) = Total
  BY <1>2, <1>3, <1>5, <1>6
<1>7. CASE First(S, Total) \in S /\ \A j \in S : First(S, Total) <= j
  <2>1. OutTo(p) \in S /\ OutTo(p) \in 1..Total
    BY <1>1, <1>2, <1>7 DEF S
  <2> QED
    BY <1>2, <1>3, <1>5, <1>7, <2>1
<1> QED
  BY <1>2, <1>6, <1>7, FirstIs
LEMMA VerbsHold ==
  TraceInv /\ [TraceNext]_traceVars =>
    [LET frame == Home(playhead)
         ends(i) == frame # 0 /\ events[i].ended = frame
         reached(i, stop(_)) == /\ i = Total \/ stop(i)
                                /\ \A j \in (playhead + 1)..(i - 1) : ~stop(j)
     IN /\ StepOver => reached(playhead', LAMBDA i : IsHome(i, frame) \/ ends(i))
        /\ StepOut => reached(playhead', ends)]_traceVars
<1> SUFFICES ASSUME TraceInv, [TraceNext]_traceVars
             PROVE  /\ StepOver => /\ playhead' = Total \/ StopsHome(playhead, playhead')
                                   /\ \A j \in (playhead + 1)..(playhead' - 1) : ~StopsHome(playhead, j)
                    /\ StepOut => /\ playhead' = Total \/ EndsHome(playhead, playhead')
                                  /\ \A j \in (playhead + 1)..(playhead' - 1) : ~EndsHome(playhead, j)
  BY DEF EndsHome, StopsHome
<1>1. over => playhead \in 1..Total
  BY DEF TraceInv
<1>2. ASSUME StepOver PROVE over /\ playhead' = OverTo(playhead)
  BY <1>2 DEF StepOver, SetPlayhead
<1>3. ASSUME StepOut PROVE over /\ playhead' = OutTo(playhead)
  BY <1>3 DEF StepOut, SetPlayhead
<1> QED
  BY <1>1, <1>2, <1>3, OverReaches, OutReaches

THEOREM TraceIsAlwaysWhole == TraceSpec => []TraceInv
<1> QED
  BY TraceStart, TraceSteps, PTL DEF TraceSpec

(* The line lit at a stop (currentSourceForPlayhead over provenanceIndex's  *)
(* stack) is one of the customer's, and the last that the innermost         *)
(* customer frame alive executed, for every trace the engine can emit:      *)
(* recursion, resumed bodies and the replay's own frames included.          *)
THEOREM SourceIsAlwaysLive == TraceSpec => []SourceIsLive
<1> QED
  BY TraceIsAlwaysWhole, SourceHolds, PTL

(* stepOver stops at the next event of the playhead's own frame or at its   *)
(* exit, stepOut at that exit, for traces of any length and depth.          *)
THEOREM VerbsAlwaysKeepFrames == TraceSpec => VerbsKeepFrames
<1> QED
  BY TraceIsAlwaysWhole, VerbsHold, PTL DEF TraceSpec, VerbsKeepFrames
=============================================================================
