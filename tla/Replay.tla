------------------------------ MODULE Replay ------------------------------
(***************************************************************************)
(* A captured activation is executed again in the browser: the viewer      *)
(* decodes the record's tapes (rtap.mjs), rebuilds the `request` surface    *)
(* from them (request-replay.mjs), re-runs the handler, and says how much   *)
(* of the result the capture verifies (wasm-app.mjs).                       *)
(*                                                                         *)
(* The handler is any deterministic program: live it observes what the      *)
(* platform gives it; in the replay it asks for the same things as long as  *)
(* it was given the same answers.  An input the tapes do not hold must      *)
(* POISON the run, and never reach it as a plausible value.                 *)
(***************************************************************************)
EXTENDS Naturals, Sequences

CONSTANTS
    Headers,      \* header names a request may carry
    Keys,         \* kv keys a handler writes
    Kinds,        \* activation kinds that occur
    Features,     \* what handlers and payloads of this world may also do
    Cap,          \* draws recorded per activation, in bytes
    MaxReads      \* bound: observations of one run

ASSUME ReplayAssumption ==
    /\ Kinds \subseteq {"inbound", "inbound_chunk", "timer", "send_callback", "fetch_chunk"}
    /\ Features \subseteq {"wide", "retired", "callback", "rewrite", "ctxBody"}
    /\ Cap \in Nat /\ MaxReads \in Nat

InboundKinds == {"inbound", "inbound_headers", "inbound_chunk"}
BinaryKinds == {"inbound_chunk", "fetch_chunk"}

\* Payloads a record may hold.  "wide" is text beyond ASCII, "ctxBody" a
\* JSON body with a `ctx` field of its own.
Payloads == {"none", "text"} \cup (Features \cap {"wide", "ctxBody"})

\* Where the bytes of a payload are: on the tape, behind a reference that
\* the body door resolved, or behind one it did not.
Places == {"inline", "pool", "lost"}

Worlds ==
    [kind : Kinds, present : SUBSET Headers, payload : Payloads, place : Places,
     envelope : Places, sealed : BOOLEAN, echo : BOOLEAN, digest : BOOLEAN]

VARIABLES
    world,     \* the record: what was captured and what became of it
    phase,     \* "live", "replay", "parked" or "cut"
    live,      \* what the handler observed when it ran live
    drawn,     \* random bytes drawn live
    seen,      \* what the re-executed handler has observed
    drawPos,   \* the cursor into the random tape
    poison     \* the host-side divergence verdict

replayVars == <<world, phase, live, drawn, seen, drawPos, poison>>

---------------------------------------------------------------------------
(* What the record holds. *)

Ops == [op : {"header"}, arg : Headers]
       \cup [op : {"payload", "ip", "ctx"}, arg : {0}]
       \cup [op : {"draw"}, arg : 0..2]
       \cup [op : {"set"}, arg : Keys]
       \cup (IF "retired" \in Features THEN [op : {"body"}, arg : {0}] ELSE {})
       \cup (IF "callback" \in Features THEN [op : {"status"}, arg : {0}] ELSE {})

Did(run, op) == \E i \in DOMAIN run : run[i].op = op

\* Header values on the tape are those of the headers that were read.
Values == {live[i].arg : i \in {j \in DOMAIN live : live[j].op = "header"}}

\* foldKvRefusals: one slot per key, whatever was written to it.
Refusals == {live[i].arg : i \in {j \in DOMAIN live :
                                    live[j].op = "set" /\ live[j].val = "refused"}}

\* The trigger channel: the inbound body, or a resume's `{ctx}` envelope,
\* which for a callback holds the result as well.
TriggerPlace == IF world.kind = "fetch_chunk" THEN world.envelope ELSE world.place
TriggerClaimed ==
    \/ world.kind \notin InboundKinds
    \/ world.payload # "none" /\ (world.kind = "inbound_chunk" \/ Did(live, "payload") \/ Did(live, "body"))
TriggerBytes == TriggerClaimed /\ TriggerPlace # "lost"
ChunkBytes == world.payload # "none" /\ world.place # "lost"

\* locatePayload and deriveActivationSurface: a payload that was claimed and
\* that nothing turns back into bytes.
PayloadGone ==
    \/ TriggerClaimed /\ TriggerPlace = "lost"
    \/ world.kind = "fetch_chunk" /\ world.payload # "none" /\ world.place = "lost"

BodyBytes ==
    CASE world.kind = "fetch_chunk" -> ChunkBytes \/ (TriggerBytes /\ Did(live, "payload"))
      [] world.kind \in InboundKinds -> TriggerBytes
      [] OTHER -> TriggerBytes /\ (world.kind = "send_callback" \/ Did(live, "payload"))

\* An envelope with a `ctx` field.
HasCtx ==
    /\ TriggerBytes
    /\ \/ world.kind \notin InboundKinds
       \/ world.payload = "ctxBody"

BodyRead == Did(live, "payload") \/ BodyBytes

---------------------------------------------------------------------------
(* What a handler observes live. *)

LiveValues(o) ==
    CASE o.op = "header" -> {IF o.arg \in world.present THEN "value" ELSE "absent"}
      [] o.op \in {"payload", "body"} -> {world.payload}
      [] o.op = "ip" -> {"address"}
      [] o.op = "ctx" -> {IF world.kind \in InboundKinds THEN "undefined" ELSE "ctx"}
      [] o.op = "status" -> {IF world.kind = "send_callback" THEN "status" ELSE "undefined"}
      [] o.op = "draw" -> {[i \in 1..o.arg |-> drawn + i]}
      [] o.op = "set" -> {"ok", "refused"}

LiveRead ==
    /\ phase = "live"
    /\ Len(live) < MaxReads
    /\ \E o \in Ops : \E v \in LiveValues(o) :
         /\ o.op = "set" /\ "rewrite" \notin Features =>
              ~\E i \in DOMAIN live : live[i].op = "set" /\ live[i].arg = o.arg
         /\ live' = Append(live, [op |-> o.op, arg |-> o.arg, val |-> v])
         /\ drawn' = IF o.op = "draw" THEN drawn + o.arg ELSE drawn
    /\ UNCHANGED <<world, phase, seen, drawPos, poison>>

Open ==
    /\ phase = "live"
    /\ phase' = "replay"
    /\ UNCHANGED <<world, live, drawn, seen, drawPos, poison>>

---------------------------------------------------------------------------
(* What the epilogue gives the re-executed handler: an answer, or a miss.  *)

Handed(v) == [val |-> v, miss |-> FALSE]
Miss(v) == [val |-> v, miss |-> TRUE]

Header(h) ==
    IF h \notin world.present THEN Handed("absent")
    ELSE IF h \in Values THEN Handed("value") ELSE Miss("undefined")

\* A text payload is rebuilt from the decoded string, one byte a character.
Decoded(p) == IF p = "wide" /\ world.kind \notin BinaryKinds THEN "garbled" ELSE p

Empty ==    \* mutant: a lost reference is served as an empty payload
    IF ~BodyRead /\ ~PayloadGone THEN Miss("none")
    ELSE Handed(IF BodyBytes THEN Decoded(world.payload) ELSE "none")

Payload ==
    IF PayloadGone \/ ~BodyRead THEN Miss(IF BodyBytes THEN Decoded(world.payload) ELSE "none")
    ELSE Handed(IF BodyBytes THEN Decoded(world.payload) ELSE "none")

RetiredBody == IF world.kind \in BinaryKinds /\ BodyBytes THEN Payload
               ELSE Handed(IF BodyBytes THEN world.payload ELSE "none")

Address == IF Did(live, "ip") THEN Handed("address") ELSE Miss("null")

Ctx ==
    IF HasCtx THEN Handed("ctx")
    ELSE IF PayloadGone /\ world.kind \notin InboundKinds THEN Miss("undefined")
    ELSE Handed("undefined")

Status == Handed(IF world.kind = "send_callback" /\ TriggerBytes THEN "status" ELSE "undefined")

\* replayDraws: the next bytes of the tape, as far as it kept them.
Kept == IF world.sealed THEN 0 ELSE IF drawn < Cap THEN drawn ELSE Cap
Draw(n) ==
    IF drawPos + n <= Kept THEN Handed([i \in 1..n |-> drawPos + i])
    ELSE IF n = 0 THEN Handed(<<>>) ELSE Miss([i \in 1..n |-> 0])

Write(k) == Handed(IF k \in Refusals THEN "refused" ELSE "ok")

Replayed(o) ==
    CASE o.op = "header" -> Header(o.arg)
      [] o.op = "payload" -> Payload
      [] o.op = "body" -> RetiredBody
      [] o.op = "ip" -> Address
      [] o.op = "ctx" -> Ctx
      [] o.op = "status" -> Status
      [] o.op = "draw" -> Draw(o.arg)
      [] o.op = "set" -> Write(o.arg)

Faithful == \A i \in DOMAIN seen : seen[i] = live[i]

\* The handler asks for what it asked live.  One that was given something
\* else is followed no further than the verdict needs.
Read ==
    /\ phase = "replay"
    /\ Len(seen) < Len(live)
    /\ LET o == live[Len(seen) + 1]
           r == Replayed(o)
       IN /\ seen' = Append(seen, [op |-> o.op, arg |-> o.arg, val |-> r.val])
          /\ poison' = (poison \/ r.miss)
          /\ drawPos' = IF o.op = "draw" /\ ~r.miss THEN drawPos + o.arg ELSE drawPos
    /\ UNCHANGED <<world, phase, live, drawn>>

\* The run reaches its end and parks its outcome; a poisoned one may get
\* there before the interrupt brakes it.
Park ==
    /\ phase = "replay"
    /\ Len(seen) = Len(live)
    /\ phase' = "parked"
    /\ UNCHANGED <<world, live, drawn, seen, drawPos, poison>>

Brake ==
    /\ phase = "replay"
    /\ poison
    /\ phase' = "cut"
    /\ UNCHANGED <<world, live, drawn, seen, drawPos, poison>>

\* Every later pass of the viewer runs the module again from a fresh
\* install: the epilogue seeds the per-run state.
Again ==
    /\ phase \in {"replay", "parked", "cut"}
    /\ phase' = "replay"
    /\ seen' = <<>>
    /\ drawPos' = 0
    /\ poison' = FALSE
    /\ UNCHANGED <<world, live, drawn>>

---------------------------------------------------------------------------
(* How much the viewer says the run is worth. *)

Sets(run) == SelectSeq(run, LAMBDA e : e.op = "set")
Digest(run) == <<Sets(run), IF world.echo THEN run ELSE <<>>>>

DigestVerdict ==
    IF ~world.digest \/ phase # "parked" THEN "unverified"
    ELSE IF Digest(seen) = Digest(live) THEN "match" ELSE "mismatch"

Trust ==
    IF phase = "parked" /\ poison THEN "offTape"
    ELSE IF DigestVerdict = "match" THEN "verified"
    ELSE IF DigestVerdict = "mismatch" THEN "diverged"
    ELSE "unverified"

---------------------------------------------------------------------------
ReplayInit ==
    /\ world \in Worlds
    /\ phase = "live"
    /\ live = <<>>
    /\ drawn = 0
    /\ seen = <<>>
    /\ drawPos = 0
    /\ poison = FALSE

ReplayNext == LiveRead \/ Open \/ Read \/ Park \/ Brake \/ Again

ReplaySpec == ReplayInit /\ [][ReplayNext]_replayVars

\* A run that meets none of the Features: its payload is text within ASCII
\* or none and no body with a `ctx` of its own, and its handler reads neither
\* the retired request.body nor the status of a callback, and writes no key
\* twice.
Ordinary ==
    /\ world.payload \in {"none", "text"}
    /\ \A i \in DOMAIN live : live[i].op \notin {"body", "status"}
    /\ \A i, j \in DOMAIN live :
          live[i].op = "set" /\ live[j].op = "set" /\ live[i].arg = live[j].arg => i = j

\* A replay is the run that was captured, or it is poisoned: a handler that
\* is handed anything it was not handed live has poisoned its run at the
\* latest by that answer (request-replay.mjs, "a missing input must reach
\* the run as a refusal, never as a plausible empty value"), in every pass
\* the viewer makes; and a response is shown as verified only for a run
\* that observed what the captured one observed.  It holds of Ordinary runs;
\* with any one of the Features there are runs that it does not hold of.
FaithfulOrPoisoned ==
    /\ Faithful \/ poison
    /\ Trust = "verified" => Faithful /\ ~poison
===========================================================================
