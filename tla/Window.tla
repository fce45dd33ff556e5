------------------------------ MODULE Window ------------------------------
(***************************************************************************)
(* The replay viewer and the dashboard that opened it (wasm-app.mjs and     *)
(* replayOpen of api.js).  The viewer shows one hop of a saga beside a      *)
(* window of the saga's hops, with the gap counted between two neighbours   *)
(* and the interference scan of the seams that were examined.  It has no    *)
(* session: it asks the dashboard by postMessage for the record its         *)
(* fragment names (replay:ready) and for what follows the hops it holds     *)
(* (replay:tail).  The dashboard serves each question in an async handler,  *)
(* so answers come late and out of order, and the page that hears one need  *)
(* not be the page that asked.                                              *)
(***************************************************************************)
EXTENDS Naturals, Sequences, FiniteSets, SequencesExt

CONSTANTS
    SagaHops,    \* bound: hops the saga records
    Busy,        \* hops before which activations of other sagas ran
    SagaPage,    \* hops the window API returns at once
    ScanCap,     \* SEAM_SCAN_CAP
    MaxAsked     \* bound: questions the dashboard has not answered

ASSUME WindowAssumption ==
    /\ SagaHops \in Nat \ {0} /\ Busy \subseteq 2..SagaHops
    /\ SagaPage \in Nat \ {0, 1} /\ ScanCap \in Nat /\ MaxAsked \in Nat

VARIABLES
    recorded,   \* hops of the saga the log holds: 1..recorded
    opener,     \* the dashboard's window is still open
    questions,  \* messages the dashboard has not answered
    fragment,   \* the hop the URL names
    page,       \* "boot", "waiting", "shown" or "failed"
    shown,      \* what the page renders: bundle, hops, gaps, more, seams
    checking,   \* state.tailChecking
    store       \* sessionStorage: the payload cached under each hop's key

windowVars == <<recorded, opener, questions, fragment, page, shown, checking, store>>

Hops == 1..SagaHops
NoPayload == [bundle |-> 0, hops |-> <<>>, gaps |-> <<>>, more |-> FALSE, seams |-> {}]

---------------------------------------------------------------------------
(* The log server, by what the dashboard asks of it. *)

\* How many other activations ran between hops a and b: one before each busy hop.
Count(a, b) == Cardinality({h \in Busy : a < h /\ h <= b})

GapsOf(hops) ==
    [i \in 1..(Len(hops) - 1) |->
        [after |-> hops[i], before |-> hops[i + 1], count |-> Count(hops[i], hops[i + 1])]]

\* getSaga: one page of the hops after a cursor.
HopsAfter(cursor) ==
    LET n == IF recorded - cursor > SagaPage THEN SagaPage ELSE recorded - cursor
    IN [i \in 1..n |-> cursor + i]

SagaAfter(cursor) ==
    LET hops == HopsAfter(cursor)
    IN [hops |-> hops, gaps |-> GapsOf(hops), more |-> recorded > cursor + Len(hops)]

\* What the page makes of a saga the dashboard could not read.
NoSaga == [hops |-> <<>>, gaps |-> <<>>, more |-> FALSE]

\* scanSeams: a quiet gap needs no scan, a busy one is scanned until the cap
\* is reached, and then the loop is left: later gaps, quiet ones too, are
\* not examined.  A scan that fails is left out.
Scanned(gaps, works) ==
    LET scansBefore(i) == Cardinality({j \in 1..(i - 1) : gaps[j].count > 0})
        capped(i) == \E j \in 1..i : gaps[j].count > 0 /\ scansBefore(j) >= ScanCap
    IN {[after |-> gaps[i].after, before |-> gaps[i].before, scanned |-> gaps[i].count] :
            i \in {j \in DOMAIN gaps : ~capped(j) /\ (works \/ gaps[j].count = 0)}}

---------------------------------------------------------------------------
(* The window's arithmetic. *)

\* tailCursor: the question overlaps what is held by one hop.
TailCursor(hops) == IF Len(hops) < 2 THEN 0 ELSE hops[Len(hops) - 1]

\* mergeSagaPage: the place of the first hop that is not held yet.
FirstNew(held, hops) ==
    IF \A i \in DOMAIN hops : hops[i] \in ToSet(held) THEN 0
    ELSE CHOOSE i \in DOMAIN hops :
            /\ hops[i] \notin ToSet(held)
            /\ \A j \in 1..(i - 1) : hops[j] \in ToSet(held)

\* mergeSagaPage: where the gaps of the page are taken from, the seam that
\* joins the last hop held and the first new one included.
SeamLate(first) == first    \* mutant: the joining seam is cut off
SeamFrom(first) == first - 1

From(s, i) == SubSeq(s, i, Len(s))

\* mergeSeams: keyed by the bounds, and what is held wins.
MergeSeams(held, new) ==
    held \cup {s \in new : ~\E t \in held : t.after = s.after /\ t.before = s.before}

Refuses(held, tail) == FirstNew(held.hops, tail.hops) = 1 /\ held.hops # <<>>

Merged(held, tail, seams) ==
    LET first == FirstNew(held.hops, tail.hops)
        grown == IF first = 0 THEN held
                 ELSE [held EXCEPT !.hops = @ \o From(tail.hops, first),
                                   !.gaps = @ \o From(tail.gaps, SeamFrom(first))]
    IN [grown EXCEPT !.more = tail.more, !.seams = MergeSeams(@, seams)]

\* buildSagaLayout: the seam drawn after the i-th hop, and the scan it shows.
SeamsDrawn(held) == {i \in DOMAIN held.gaps : i < Len(held.hops)}
ScanFor(held, gap) == {s \in held.seams : s.after = gap.after /\ s.before = gap.before}

---------------------------------------------------------------------------
(* The page. *)

Ask(question) ==
    /\ Cardinality(questions \cup {question}) <= MaxAsked
    /\ questions' = questions \cup {question}

\* main, awaitBundle: the cache under the fragment's key, or the dashboard.
Boot ==
    /\ page = "boot"
    /\ \/ /\ store[fragment] # NoPayload
          /\ page' = "shown" /\ shown' = store[fragment]
          /\ UNCHANGED questions
       \/ /\ store[fragment] = NoPayload /\ ~opener
          /\ page' = "failed"
          /\ UNCHANGED <<questions, shown>>
       \/ /\ store[fragment] = NoPayload /\ opener
          /\ Ask([kind |-> "ready", arg |-> fragment])
          /\ page' = "waiting"
          /\ UNCHANGED shown
    /\ UNCHANGED <<recorded, opener, fragment, checking, store>>

\* A new document: its listeners, its timers and its window are gone; the
\* fragment and the session storage are not.
Load(hop) ==
    /\ fragment' = hop /\ page' = "boot" /\ shown' = NoPayload /\ checking' = FALSE
    /\ UNCHANGED <<recorded, opener, questions, store>>

\* navigateToHop, and the reader's refresh.
NavigateToHop == page = "shown" /\ \E hop \in ToSet(shown.hops) \ {shown.bundle} : Load(hop)
Reload == page # "boot" /\ Load(fragment)

\* The reader's Back and Forward change the fragment of the same document:
\* no code listens to that.
Back ==
    /\ page # "boot"
    /\ fragment' \in {h \in Hops : store[h] # NoPayload \/ h = fragment}
    /\ UNCHANGED <<recorded, opener, questions, page, shown, checking, store>>

\* awaitBundle's listener: the first bundle it hears, whichever it is.
HearBundle(hop, saga, seams) ==
    /\ page = "waiting"
    /\ LET payload == [bundle |-> hop, hops |-> saga.hops, gaps |-> saga.gaps,
                       more |-> saga.more, seams |-> seams]
       IN /\ shown' = payload /\ page' = "shown"
          /\ store' = [store EXCEPT ![fragment] = payload]
    /\ UNCHANGED checking

\* checkForNewHops, after its await.
HearTail(tail, seams) ==
    /\ checking
    /\ checking' = FALSE
    /\ IF Refuses(shown, tail) THEN UNCHANGED <<shown, store>>
       ELSE /\ shown' = Merged(shown, tail, seams)
            /\ store' = [store EXCEPT ![fragment] = Merged(shown, tail, seams)]
    /\ UNCHANGED page

\* No listener of the current page waits for such an answer.
Unheard(kind) ==
    /\ kind = "ready" => page # "waiting"
    /\ kind = "tail" => ~checking
    /\ UNCHANGED <<page, shown, checking, store>>

\* replay:error, an error in replay:tail:result, or ten seconds without an
\* answer.
HearError(kind) ==
    /\ \/ kind = "ready" /\ page = "waiting" /\ page' = "failed" /\ UNCHANGED checking
       \/ kind = "tail" /\ checking /\ checking' = FALSE /\ UNCHANGED page
    /\ UNCHANGED <<shown, store>>

\* checkForNewHops.
CheckForNewHops ==
    /\ page = "shown" /\ shown.hops # <<>> /\ ~checking
    /\ IF opener
       THEN Ask([kind |-> "tail", arg |-> TailCursor(shown.hops)]) /\ checking' = TRUE
       ELSE UNCHANGED <<questions, checking>>    \* requestTail rejects at once
    /\ UNCHANGED <<recorded, opener, fragment, page, shown, store>>

TimesOut ==
    /\ \E kind \in {"ready", "tail"} : HearError(kind)
    /\ UNCHANGED <<recorded, opener, questions, fragment>>

---------------------------------------------------------------------------
(* The dashboard and the saga. *)

\* replayOpen's onMsg: the bundle of the record asked for with the first page
\* of its saga, or without a saga when that read fails, or the page after the
\* cursor, each with its scans.  replay:open, the jump along a seam, opens
\* another viewer with a listener and a state of its own: another instance of
\* this module.
Compose ==
    \E question \in questions, works \in BOOLEAN :
        LET saga == SagaAfter(IF question.kind = "tail" THEN question.arg ELSE 0)
            seams == Scanned(saga.gaps, works)
        IN /\ opener
           /\ questions' = questions \ {question}
           /\ \/ question.kind = "ready" /\ HearBundle(question.arg, saga, seams)
              \/ question.kind = "ready" /\ HearBundle(question.arg, NoSaga, {})
              \/ question.kind = "tail" /\ HearTail(saga, seams)
              \/ HearError(question.kind)
              \/ Unheard(question.kind)
           /\ UNCHANGED <<recorded, opener, fragment>>

DashboardCloses ==
    /\ opener
    /\ opener' = FALSE /\ questions' = {}
    /\ UNCHANGED <<recorded, fragment, page, shown, checking, store>>

Recorded ==
    /\ recorded < SagaHops
    /\ recorded' = recorded + 1
    /\ UNCHANGED <<opener, questions, fragment, page, shown, checking, store>>

---------------------------------------------------------------------------
\* replayOpen opens the viewer at a hop the log holds.
WindowInit ==
    /\ recorded = 1 /\ opener = TRUE /\ questions = {}
    /\ fragment = 1 /\ page = "boot" /\ shown = NoPayload /\ checking = FALSE
    /\ store = [h \in Hops |-> NoPayload]

WindowNext ==
    \/ Boot \/ NavigateToHop \/ Reload \/ Back \/ CheckForNewHops \/ TimesOut
    \/ Compose \/ DashboardCloses \/ Recorded

WindowSpec == WindowInit /\ [][WindowNext]_windowVars

---------------------------------------------------------------------------
(* Properties. *)

\* Whatever the order of answers, timeouts, reloads and cached windows, the
\* rail draws a seam between every two neighbours, its count is the number of
\* foreign activations that ran between exactly those two hops, and a scan is
\* shown only under the gap it examined ("a merge that broke it would put
\* seams between the wrong hops - a false claim about who ran when",
\* wasm-app.mjs mergeSagaPage).
GapsAreTrue ==
    /\ \A i \in 1..(Len(shown.hops) - 1) :
          /\ i \in SeamsDrawn(shown)
          /\ shown.gaps[i].after = shown.hops[i] /\ shown.gaps[i].before = shown.hops[i + 1]
          /\ shown.gaps[i].count = Count(shown.hops[i], shown.hops[i + 1])
          /\ \A scan \in ScanFor(shown, shown.gaps[i]) : scan.scanned = shown.gaps[i].count
    /\ \A i \in 1..(Len(shown.hops) - 1) : shown.hops[i + 1] = shown.hops[i] + 1

\* "each hop caches under its own key and a refresh lands back on the hop the
\* user was looking at" (wasm-app.mjs awaitBundle): what is stored under a
\* hop's key is that hop.
OwnKey == \A h \in Hops : store[h] = NoPayload \/ store[h].bundle = h
===========================================================================
