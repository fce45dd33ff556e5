------------------------------- MODULE Channel -------------------------------
(***************************************************************************)
(* The browser's notifications client (rove.js): it mints a token, opens   *)
(* an EventSource, opens it again when it fails or when the token grows    *)
(* old, and gives the events to handlers and waiters.  EventSource is the  *)
(* browser's: it keeps trying by itself (an error while connecting) unless *)
(* the server refuses it (closed).                                         *)
(***************************************************************************)
EXTENDS Integers, FiniteSets

CONSTANTS
    Types,          \* of events, "rove:resync" apart
    MaxSources,     \* bound: EventSources opened
    MaxTimers,      \* bound: timers that wait
    MaxFailures     \* bound: mints and sources that fail

Resync == "rove:resync"
AllTypes == Types \cup {Resync}

VARIABLES
    sources,        \* the EventSources: id |-> [state, wired, retry]; wired counts the
                    \* listeners by type, retry: is _refreshAndReconnect awaiting it?
    current,        \* _es: an id, or 0
    handlers,       \* the types of _handlers
    waiters,        \* the types that _waiters wait for
    minting,        \* _connect calls that await the token: [first, again]
    promise,        \* _connectingPromise: "none", "pending", "failed"
    timers,         \* waiting: [reconnect, refresh]
    shut,           \* _closed
    failures,
    heard           \* how many listeners heard the last event

channelVars == <<sources, current, handlers, waiters, minting, promise, timers, shut, failures, heard>>

-----------------------------------------------------------------------------
Count == Cardinality(DOMAIN sources)
Live(id) == sources[id].state # "closed"

Close(id) == IF id = 0 THEN sources ELSE [sources EXCEPT ![id].state = "closed"]

Fail == failures < MaxFailures /\ failures' = failures + 1

(* subscribe: an attempt that failed is awaited for ever after.            *)
Subscribe ==
    /\ ~shut /\ promise = "none"
    /\ current # 0 => sources[current].state # "open"
    /\ promise' = "pending"
    /\ minting' = [minting EXCEPT !.first = @ + 1]
    /\ UNCHANGED <<sources, current, handlers, waiters, timers, shut, failures, heard>>

(* _connect once the token is there: nothing is asked again.               *)
Unwired(types) == {Resync}      \* mutant: the handlers are not wired again
Wiring(types) == types \cup {Resync}

Wired(t) == (IF t \in Wiring(handlers) \ {Resync} THEN 1 ELSE 0)
            + (IF t = Resync THEN 1 + Cardinality(handlers \cap {Resync}) ELSE 0)

TokenMint(who) ==
    /\ minting[who] > 0 /\ Count < MaxSources /\ timers.refresh < MaxTimers
    /\ minting' = [minting EXCEPT ![who] = @ - 1]
    /\ sources' = [id \in DOMAIN sources \cup {Count + 1} |->
                     IF id \in DOMAIN sources THEN sources[id]
                     ELSE [state |-> "connecting", wired |-> [t \in AllTypes |-> Wired(t)],
                           retry |-> who = "again"]]
    /\ current' = Count + 1
    /\ timers' = [timers EXCEPT !.refresh = @ + 1]
    /\ UNCHANGED <<handlers, waiters, promise, shut, failures, heard>>

(* _scheduleReconnect.                                                     *)
Scheduled(n) == IF shut THEN timers
                ELSE [timers EXCEPT !.reconnect = IF @ + n > MaxTimers THEN MaxTimers ELSE @ + n]

MintFails(who) ==
    /\ minting[who] > 0 /\ Fail
    /\ minting' = [minting EXCEPT ![who] = @ - 1]
    /\ IF who = "first" THEN promise' = "failed" /\ UNCHANGED timers
       ELSE timers' = Scheduled(1) /\ UNCHANGED promise
    /\ UNCHANGED <<sources, current, handlers, waiters, shut, heard>>

SourceOpens(id) ==
    /\ sources[id].state = "connecting"
    /\ sources' = [sources EXCEPT ![id].state = "open", ![id].retry = FALSE]
    /\ promise' = IF sources[id].retry THEN promise ELSE "none"
    /\ UNCHANGED <<current, handlers, waiters, minting, timers, shut, failures, heard>>

(* onerror, and the promise of _connect that rejects on the first error.   *)
SourceFails(id, refused) ==
    /\ Live(id) /\ Fail
    /\ sources' = [sources EXCEPT ![id].state = IF refused THEN "closed" ELSE "connecting",
                                  ![id].retry = FALSE]
    /\ timers' = Scheduled((IF refused THEN 1 ELSE 0) + (IF sources[id].retry THEN 1 ELSE 0))
    /\ promise' = IF promise = "pending" /\ ~sources[id].retry THEN "failed" ELSE promise
    /\ UNCHANGED <<current, handlers, waiters, minting, shut, heard>>

(* _refreshAndReconnect, from either timer.                                *)
TimerFires(which) ==
    /\ timers[which] > 0
    /\ timers' = [timers EXCEPT ![which] = @ - 1]
    /\ IF shut THEN UNCHANGED <<sources, current, minting>>
       ELSE /\ sources' = Close(current) /\ current' = 0
            /\ minting' = [minting EXCEPT !.again = @ + 1]
    /\ UNCHANGED <<handlers, waiters, promise, shut, failures, heard>>

WireNow(t) == IF current = 0 THEN sources ELSE [sources EXCEPT ![current].wired[t] = @ + 1]

On(t) ==
    /\ t \notin handlers
    /\ handlers' = handlers \cup {t}
    /\ sources' = WireNow(t)
    /\ UNCHANGED <<current, waiters, minting, promise, timers, shut, failures, heard>>

WaitFor(t) ==
    /\ t \notin waiters
    /\ waiters' = waiters \cup {t}
    /\ IF current # 0 /\ t \notin handlers
       THEN handlers' = handlers \cup {t} /\ sources' = WireNow(t)
       ELSE UNCHANGED <<handlers, sources>>
    /\ UNCHANGED <<current, minting, promise, timers, shut, failures, heard>>

(* The timeout of waitFor.                                                 *)
WaitEnds(t) ==
    /\ t \in waiters
    /\ waiters' = waiters \ {t}
    /\ UNCHANGED <<sources, current, handlers, minting, promise, timers, shut, failures, heard>>

(* _dispatch, once for each listener of each source that is open.          *)
Arrives(t) ==
    /\ \E id \in DOMAIN sources : sources[id].state = "open"
    /\ LET calls == {c \in (DOMAIN sources) \X (1 .. 3) :
                        sources[c[1]].state = "open" /\ c[2] <= sources[c[1]].wired[t]}
       IN /\ heard' = Cardinality(calls)
          /\ waiters' = IF calls = {} THEN waiters ELSE waiters \ {t}
    /\ UNCHANGED <<sources, current, handlers, minting, promise, timers, shut, failures>>

CloseClient ==
    /\ ~shut /\ shut' = TRUE
    /\ sources' = Close(current) /\ current' = 0
    /\ waiters' = {}
    /\ timers' = [timers EXCEPT !.refresh = IF @ > 0 THEN @ - 1 ELSE 0]
    /\ UNCHANGED <<handlers, minting, promise, failures, heard>>

ChannelInit ==
    /\ sources = <<>> /\ current = 0 /\ handlers = {} /\ waiters = {}
    /\ minting = [first |-> 0, again |-> 0] /\ promise = "none"
    /\ timers = [reconnect |-> 0, refresh |-> 0]
    /\ shut = FALSE /\ failures = 0
    /\ heard = 0

ChannelNext ==
    \/ Subscribe
    \/ \E who \in {"first", "again"} : TokenMint(who) \/ MintFails(who)
    \/ \E id \in DOMAIN sources : SourceOpens(id)
    \/ \E id \in DOMAIN sources, refused \in BOOLEAN : SourceFails(id, refused)
    \/ \E which \in {"reconnect", "refresh"} : TimerFires(which)
    \/ \E t \in AllTypes : On(t) \/ WaitFor(t) \/ WaitEnds(t) \/ Arrives(t)
    \/ CloseClient

ChannelSpec == ChannelInit /\ [][ChannelNext]_channelVars

-----------------------------------------------------------------------------
(* Whatever failed, was refreshed or was opened again, the source in use   *)
(* listens for every type a handler was given for and for the resync       *)
(* sentinel.                                                               *)
HandlersHear ==
    current # 0 => \A t \in handlers \cup {Resync} : sources[current].wired[t] > 0

(* The comment at waitFor: "Customers can call waitFor before .on".        *)
WaitersHear == current # 0 => \A t \in waiters : sources[current].wired[t] > 0

(* An event reaches a handler once.                                        *)
OncePerEvent == heard <= 1

(* One subscription, one channel, and none once it is closed.              *)
OneChannel == Cardinality({id \in DOMAIN sources : Live(id)}) <= IF shut THEN 0 ELSE 1
=============================================================================
