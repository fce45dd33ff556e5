------------------------------- MODULE Trace ------------------------------
(***************************************************************************)
(* Stepping through a replayed run (cursor.mjs, wasm-app.mjs).  Pass 1      *)
(* turns the engine's trace into the list of events of the whole run:       *)
(* functions entered and left, lines, throws.  The list mixes the           *)
(* customer's frames with the replay's own: the shims are files the bundle  *)
(* does not ship, and the epilogue is appended to the entry module, so its  *)
(* frames wear the customer's file name with lines past the end of it.      *)
(* Everything the viewer shows (which frame a step stays in, which source   *)
(* line is lit, whose variables are listed) is recovered from that list     *)
(* and the playhead.                                                        *)
(*                                                                         *)
(* The engine is external.  Each event carries what the viewer does not     *)
(* see: the frames alive after it (`live`, innermost last, a frame named by *)
(* the index of the event that entered it) and the frame it ended.          *)
(***************************************************************************)
EXTENDS Naturals, Sequences, FiniteSets, SequencesExt

CONSTANTS
    LineCount,      \* lines of the entry module as the bundle ships it
    SnapshotStep,   \* varSnapshotStep: events between two coarse snapshots
    MaxEvents       \* bound: events of one run

ASSUME TraceAssumption == {LineCount, SnapshotStep, MaxEvents} \subseteq Nat \ {0}

VARIABLES
    events,     \* mat.events
    over,       \* the run is over: the viewer has the events
    playhead,   \* state.playhead, an index of events
    pane        \* the event whose frames the variables pane lists, 0: none

traceVars == <<events, over, playhead, pane>>

Locations == [file : {"app"}, line : 1..(LineCount + 1)] \cup [file : {"shim"}, line : {1}]
EventTypes == {"ENTER", "EXIT", "LINE", "THROW"}

---------------------------------------------------------------------------
(* The engine. *)

Live == IF events = <<>> THEN <<>> ELSE Last(events).live
Total == Len(events)

\* The locations a frame visits, by where it was entered: the module body
\* spans the customer's lines and the epilogue's, a function stays on its side.
CanVisit(frame) ==
    LET at == events[frame]
    IN {loc \in Locations : /\ loc.file = at.file
                            /\ Len(at.live) = 1 \/ (loc.line > LineCount) = (at.line > LineCount)}

Emit(kind, loc, live, ended) ==
    /\ ~over /\ Total < MaxEvents
    /\ events' = Append(events, [kind |-> kind, file |-> loc.file, line |-> loc.line,
                                 live |-> live, ended |-> ended])
    /\ UNCHANGED <<over, playhead, pane>>

\* The module body is entered first, and again when it resumes.
EnterFrame ==
    \E loc \in Locations :
        /\ Live = <<>> => loc = [file |-> "app", line |-> 1]
        /\ Emit("ENTER", loc, Append(Live, Total + 1), 0)

VisitLine == Live # <<>> /\ \E loc \in CanVisit(Last(Live)) : Emit("LINE", loc, Live, 0)
Throws == Live # <<>> /\ \E loc \in CanVisit(Last(Live)) : Emit("THROW", loc, Live, 0)

\* An exit carries no line.
LeaveFrame ==
    /\ Live # <<>>
    /\ Emit("EXIT", [file |-> events[Last(Live)].file, line |-> 0], Front(Live), Last(Live))

---------------------------------------------------------------------------
(* What cursor.mjs and wasm-app.mjs recover from the list. *)

\* isCustomerLoc
Customer(loc) == loc.file = "app" /\ loc.line <= LineCount

\* provenanceIndex: the stack of one walk.
WalkFrames(stack, e) ==
    LET top == Last(stack)
    IN CASE e.kind = "ENTER" ->
              Append(stack, [file |-> e.file, line |-> e.line, customer |-> Customer(e), cust |-> e.line])
         [] e.kind = "EXIT" -> IF stack = <<>> THEN stack ELSE Front(stack)
         [] e.kind = "LINE" /\ stack # <<>> ->
              [stack EXCEPT ![Len(stack)].line = e.line,
                            ![Len(stack)].cust = IF Customer(e) THEN e.line ELSE @]
         [] OTHER -> stack

StackAt(i) ==
    LET stack[n \in 0..i] == IF n = 0 THEN <<>> ELSE WalkFrames(stack[n - 1], events[n])
    IN stack[i]

\* An exit executes in the frame it returns into.
Own(i) ==
    IF events[i].kind = "EXIT"
    THEN LET stack == StackAt(i) IN stack # <<>> /\ Last(stack).customer /\ Customer(Last(stack))
    ELSE Customer(events[i])

HasCustomer == \E i \in DOMAIN events : Own(i)

Innermost(stack) ==    \* mutant: the frame itself, the customer's or not
    {s \in DOMAIN stack : s = Len(stack)}
CustomerFrames(stack) ==
    {s \in DOMAIN stack : stack[s].customer /\ \A t \in (s + 1)..Len(stack) : ~stack[t].customer}

Nowhere == [file |-> "none", line |-> 0]

\* currentSourceForPlayhead.  The last throw of the run, caught or not, is
\* what the final event shows.
LastThrow(p) ==
    {i \in 1..p : events[i].kind = "THROW" /\ \A j \in (i + 1)..p : events[j].kind # "THROW"}

Fallback(p) ==
    LET seen == {i \in 1..p : Customer(events[i])}
    IN IF seen = {} THEN Nowhere
       ELSE LET i == CHOOSE i \in seen : \A j \in seen : j <= i
            IN [file |-> events[i].file, line |-> events[i].line]

SourceAt(p) ==
    LET e == events[p]
        stack == StackAt(p)
    IN IF p = Total /\ \E i \in LastThrow(p) : Customer(events[i])
       THEN LET i == CHOOSE i \in LastThrow(p) : TRUE
            IN [file |-> events[i].file, line |-> events[i].line]
       ELSE IF Own(p) /\ e.kind # "EXIT" THEN [file |-> e.file, line |-> e.line]
       ELSE IF CustomerFrames(stack) # {}
       THEN LET s == CHOOSE s \in CustomerFrames(stack) : TRUE
            IN [file |-> stack[s].file, line |-> stack[s].cust]
       ELSE IF stack # <<>> /\ ~HasCustomer
       THEN [file |-> Last(stack).file, line |-> Last(stack).line]
       ELSE Fallback(p)

\* _materialisePass1: matchingExit, an enter paired with the exit that pops it.
Pairing(acc, i) ==
    CASE events[i].kind = "ENTER" -> [acc EXCEPT !.open = Append(@, i)]
      [] events[i].kind = "EXIT" /\ acc.open # <<>> ->
            [open |-> Front(acc.open), pairs |-> acc.pairs \cup {<<Last(acc.open), i>>}]
      [] OTHER -> acc
MatchingExit ==
    LET acc[n \in 0..Total] == IF n = 0 THEN [open |-> <<>>, pairs |-> {}] ELSE Pairing(acc[n - 1], n)
    IN acc[Total].pairs

---------------------------------------------------------------------------
(* The verbs. *)

First(S, default) == IF S = {} THEN default ELSE CHOOSE i \in S : \A j \in S : i <= j

Balance(from, to) ==    \* enters minus exits of events from..to
    <<Cardinality({i \in from..to : events[i].kind = "ENTER"}),
      Cardinality({i \in from..to : events[i].kind = "EXIT"})>>
Depth(from, to) == Balance(from, to)[1]
Below(from, to) == Balance(from, to)[2]

\* stepOver: the first exit below the playhead's depth, or the first line or
\* throw at it.
OverStops(p, i) ==
    IF events[i].kind = "EXIT" THEN Below(p + 1, i) > Depth(p + 1, i)
    ELSE events[i].kind # "ENTER" /\ Below(p + 1, i) = Depth(p + 1, i)
OverTo(p) == First({i \in (p + 1)..Total : OverStops(p, i)}, Total)

\* stepOut: back to the most recent enter without an exit, then its exit.
Nearest(p) ==    \* mutant: the most recent enter, left or not
    {i \in 1..p : events[i].kind = "ENTER" /\ \A j \in (i + 1)..p : events[j].kind # "ENTER"}
Unmatched(p) ==
    {i \in 1..p : /\ events[i].kind = "ENTER" /\ Depth(i + 1, p) >= Below(i + 1, p)
                  /\ \A j \in (i + 1)..p : events[j].kind = "ENTER" => Depth(j + 1, p) < Below(j + 1, p)}
OutTo(p) == First({x \in DOMAIN events : \E i \in Unmatched(p) : <<i, x>> \in MatchingExit}, Total)

\* stepIn, nextError, stepToward; a verb that finds nothing does nothing.
InTo(p) == First({i \in (p + 1)..Total : events[i].kind = "ENTER" /\ (HasCustomer => Own(i))}, Total)
ThrowIndexes == {i \in DOMAIN events : events[i].kind = "THROW"}
ErrorTo(p) == First({i \in ThrowIndexes : i > p}, First(ThrowIndexes, p))
Resting == IF HasCustomer THEN {i \in DOMAIN events : Own(i)} ELSE DOMAIN events

\* inspectAt: the run again up to event p, for the frames alive there.
InspectAt(p) == IF events[p].live # <<>> THEN p ELSE 0

\* inspectAndRenderVars: where no frame is alive, the nearest coarse snapshot
\* stays, unless the run is at its very end.
Snapshot(p) == ((p - 1) \div SnapshotStep) * SnapshotStep + 1
PaneAt(p) ==
    IF events[p].kind = "EXIT" /\ p = Total THEN 0
    ELSE IF InspectAt(p) # 0 THEN p
    ELSE InspectAt(Snapshot(p))

SetPlayhead(i) ==
    /\ over
    /\ playhead' = i /\ pane' = PaneAt(i)
    /\ UNCHANGED <<events, over>>

StepOver == over /\ SetPlayhead(OverTo(playhead))
StepOut == over /\ SetPlayhead(OutTo(playhead))
StepIn == over /\ SetPlayhead(InTo(playhead))
NextError == over /\ SetPlayhead(ErrorTo(playhead))
JumpEnd == over /\ SetPlayhead(Total)
JumpStart == over /\ SetPlayhead(1)
\* The single-event steppers, and a drag of the scrubber: in customer grain.
Scrub == over /\ \E i \in Resting : SetPlayhead(i)

\* materialise is done: the playhead is parked at the first throw or the end.
Materialised ==
    /\ ~over /\ Total > 0
    /\ over' = TRUE
    /\ playhead' = First(ThrowIndexes, Total) /\ pane' = PaneAt(playhead')
    /\ UNCHANGED events

---------------------------------------------------------------------------
TraceInit == events = <<>> /\ over = FALSE /\ playhead = 0 /\ pane = 0

TraceNext ==
    \/ EnterFrame \/ VisitLine \/ Throws \/ LeaveFrame \/ Materialised
    \/ StepOver \/ StepOut \/ StepIn \/ NextError \/ JumpEnd \/ JumpStart \/ Scrub

TraceSpec == TraceInit /\ [][TraceNext]_traceVars

---------------------------------------------------------------------------
(* Properties. *)

\* The frame the playhead is in: none outside every frame.
Home(p) == IF events[p].live = <<>> THEN 0 ELSE Last(events[p].live)
IsHome(i, frame) == events[i].kind \in {"LINE", "THROW"} /\ Home(i) = frame

\* "advance to the next event in the playhead's OWN frame, skipping over any
\* nested function calls" (wasm-app.mjs stepOver) and "jump to the matching
\* FUNC_EXIT of the frame containing the playhead" (stepOut), through
\* recursion, suspended bodies and runs that died with frames open: a step
\* over never skips an event of its own frame and never leaves the frame
\* except by its exit, a step out ends exactly the frame it was in.
VerbsKeepFrames == [][
    LET frame == Home(playhead)
        ends(i) == frame # 0 /\ events[i].ended = frame
        reached(i, stop(_)) == /\ i = Total \/ stop(i)
                               /\ \A j \in (playhead + 1)..(i - 1) : ~stop(j)
    IN /\ StepOver => reached(playhead', LAMBDA i : IsHome(i, frame) \/ ends(i))
       /\ StepOut => reached(playhead', ends)]_traceVars

\* The line lit is one of the customer's whenever the run executed any, and
\* while a customer frame is alive it is the last of its own lines that the
\* innermost one executed, or the line of a throw at the run's end ("the
\* highlight stays on the innermost bundle frame that got us there", "must not
\* chase it past the file's end").
LastLine(frame, p) ==
    CHOOSE i \in 1..p :
        /\ events[i].kind \in {"ENTER", "LINE"} /\ Home(i) = frame /\ Customer(events[i])
        /\ \A j \in (i + 1)..p :
              events[j].kind \in {"ENTER", "LINE"} /\ Home(j) = frame => ~Customer(events[j])

SourceIsLive ==
    over /\ HasCustomer =>
        LET lit == SourceAt(playhead)
            alive == {f \in ToSet(events[playhead].live) : Customer(events[f])}
        IN /\ Customer(lit)
           /\ alive # {} /\ playhead # Total /\ events[playhead].kind # "THROW" =>
                LET frame == CHOOSE f \in alive : \A g \in alive : g <= f
                IN lit.line = events[LastLine(frame, playhead)].line

\* "Outside any frame: fall back to the last customer event seen"
\* (wasm-app.mjs currentSourceForPlayhead): a line is lit that exists.
ALineIsLit == over /\ HasCustomer => SourceAt(playhead).line > 0

\* "we never trust it as the final answer: Layer 3's windowed inspectAt always
\* refines the settled playhead" (wasm-app.mjs inspectAndRenderVars).
VarsAreExact == over => pane = (IF events[playhead].live = <<>> THEN 0 ELSE playhead)
===========================================================================
