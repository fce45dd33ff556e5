---------------------------- MODULE ModelView -----------------------------
(***************************************************************************)
(* The viewer's state pane (model-view.mjs): what the stopped handler has   *)
(* read, written and queued.  The handler's interaction log is complete but *)
(* only handed out for the whole run, so the pane recovers the position of  *)
(* the stop from two signals: the overlay of writes and the list of keys    *)
(* that were served from the recorded inputs (cursor.mjs).                  *)
(*                                                                         *)
(* The run itself is modelled as the log it leaves; a stop is a position    *)
(* `at` in that log, and the signals are what the first `at` entries do.    *)
(***************************************************************************)
EXTENDS Integers, Sequences, FiniteSets

CONSTANTS
    RowKeys,        \* keys of the handler's store
    RowValues,      \* values it writes
    Nil,         \* a deleted row
    Unseen,      \* no value recorded
    Rereads,     \* BOOLEAN: a handler may repeat itself: read what it wrote,
                 \* or write what a row already holds
    MaxLog       \* bound: entries of one run's log

ASSUME ModelViewAssumption ==
    /\ Nil \notin RowValues /\ Unseen \notin RowValues \cup {Nil}
    /\ Rereads \in BOOLEAN /\ MaxLog \in Nat

VARIABLES
    log,      \* the ordered interaction log of the whole run
    at        \* the stop: entries of the log that have run

modelViewVars == <<log, at>>

\* A `store` tag marks a cross-store operation: its key is not one of ours.
Entries ==
    [kind : {"read", "delete"}, key : RowKeys, value : {Nil}, tagged : BOOLEAN]
    \cup [kind : {"write"}, key : RowKeys, value : RowValues, tagged : BOOLEAN]
    \cup [kind : {"fetch"}, key : {Nil}, value : {Nil}, tagged : {FALSE}]

---------------------------------------------------------------------------
(* The engine's side: the overlay and the reads at a stop. *)

NoRows == [k \in {} |-> Nil]
Put(rows, k, v) == [x \in DOMAIN rows \cup {k} |-> IF x = k THEN v ELSE rows[x]]

Writes(e) == e.kind \in {"write", "delete"} /\ ~e.tagged
Overlaid(rows, e) == IF Writes(e) THEN Put(rows, e.key, e.value) ELSE rows

OverlayAt(n) ==
    LET rows[i \in 0..n] == IF i = 0 THEN NoRows ELSE Overlaid(rows[i - 1], log[i])
    IN rows[n]

\* The host answers from the overlay first; the rest is logged by the hook
\* on the input index ("the read log is only ever counted").
Serves(i) == log[i].kind = "read" /\ ~log[i].tagged /\ log[i].key \notin DOMAIN OverlayAt(i - 1)
ReadsAt(n) == Cardinality({i \in 1..n : Serves(i)})

---------------------------------------------------------------------------
(* cutInteractionLog: simulate the log against both signals; the last       *)
(* prefix that satisfies both is the cut.                                   *)

AtStart(reads, writes) ==
    [rows |-> NoRows, served |-> 0, open |-> TRUE,
     cut |-> IF reads = 0 /\ writes = NoRows THEN 0 ELSE -1]

\* mutant: a cross-store write is simulated like one of ours.
CrossStoreToo(s, i, reads, writes) ==
    LET e == log[i]
        tape == e.kind = "read" /\ ~e.tagged /\ e.key \notin DOMAIN s.rows
        served == IF tape THEN s.served + 1 ELSE s.served
        rows == IF e.kind \in {"write", "delete"} THEN Put(s.rows, e.key, e.value) ELSE s.rows
    IN IF ~s.open \/ e.kind = "fetch" THEN s
       ELSE IF tape /\ s.served >= reads THEN [s EXCEPT !.open = FALSE]
       ELSE [rows |-> rows, served |-> served, open |-> TRUE,
             cut |-> IF served = reads /\ rows = writes THEN i ELSE s.cut]

Simulated(s, i, reads, writes) ==
    LET e == log[i]
        kv == e.kind \in {"read", "write", "delete"} /\ ~e.tagged
        tape == e.kind = "read" /\ e.key \notin DOMAIN s.rows
        served == IF tape THEN s.served + 1 ELSE s.served
        rows == Overlaid(s.rows, e)
    IN IF ~s.open \/ ~kv THEN s
       ELSE IF tape /\ s.served >= reads THEN [s EXCEPT !.open = FALSE]
       ELSE [rows |-> rows, served |-> served, open |-> TRUE,
             cut |-> IF served = reads /\ rows = writes THEN i ELSE s.cut]

Cut(reads, writes) ==
    LET sim[i \in 0..Len(log)] ==
            IF i = 0 THEN AtStart(reads, writes) ELSE Simulated(sim[i - 1], i, reads, writes)
        s == sim[Len(log)]
    IN IF s.cut < 0 THEN [cut |-> Len(log), confident |-> FALSE]
       ELSE [cut |-> s.cut, confident |-> TRUE]

TheCut == Cut(ReadsAt(at), OverlayAt(at))

---------------------------------------------------------------------------
(* pendingEffects: what the pane shows as queued by the cut. *)

Pending(cut) == {i \in 1..cut : log[i].kind = "fetch"}

---------------------------------------------------------------------------
(* The handler runs and leaves its log; the reader stops the run anywhere. *)

\* What the handler sees under a key at the end of its log.
Held(k) == LET rows == OverlayAt(Len(log)) IN IF k \in DOMAIN rows THEN rows[k] ELSE Unseen

Fresh(e) ==
    \/ e.tagged \/ e.kind = "fetch"
    \/ e.kind = "read" /\ Held(e.key) = Unseen
    \/ Writes(e) /\ \A i \in DOMAIN log : Writes(log[i]) /\ log[i].key = e.key => log[i].value # e.value

Interact ==
    /\ at = Len(log)
    /\ Len(log) < MaxLog
    /\ \E e \in Entries :
         /\ Rereads \/ Fresh(e)
         /\ log' = Append(log, e)
    /\ at' = at + 1

StopAt == \E n \in 0..Len(log) : at' = n /\ UNCHANGED log

ModelViewInit ==
    /\ log = <<>>
    /\ at = 0

ModelViewNext == Interact \/ StopAt

ModelViewSpec == ModelViewInit /\ [][ModelViewNext]_modelViewVars

\* The cut never withholds a row operation that has run, and is confident
\* of it: every read and write before the stop lies before the cut, whatever
\* the run repeats, and the effects queued among them are shown
\* (model-view.mjs, "the last prefix that satisfies BOTH is the cut").
CutCoversTheRun ==
    /\ TheCut.confident
    /\ \A i \in 1..at : (log[i].kind # "fetch" /\ ~log[i].tagged) => i <= TheCut.cut

\* Nor does it claim an effect the handler has not queued: "claiming a
\* promise the handler has not made is the one error worth avoiding here".
NoFalsePromise == \A i \in Pending(TheCut.cut) : i <= at
===========================================================================
