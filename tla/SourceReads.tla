----------------------------- MODULE SourceReads -----------------------------
(***************************************************************************)
(* The read door of admin/index.mjs (handleReadSources to                  *)
(* onSourceFileBlob): the sources of a deployment, or of one file of it,   *)
(* are put together over many activations.  "current" is a dispatched read *)
(* whose result row outlives the hop that read it: the terminal hop of the *)
(* chain consumes it.  All that is known between two hops rides in the     *)
(* context of the held chain.  A manifest is content addressed; which one  *)
(* is live may change at any time.                                         *)
(***************************************************************************)
EXTENDS Integers, Sequences, FiniteSets, SequencesExt

CONSTANTS
    Readers,            \* requests
    Manifests,          \* [entries: Seq([path, kind, textual]), files: Seq(file)]
    NoManifest

VARIABLES
    current,            \* _deploy/current of the tenant
    chain,              \* per reader: the hop it waits for, and its context
    row                 \* readers whose _dispatch/result row stands

readVars == <<current, chain, row>>

NotStarted == [at |-> "none"]
Over(c) == c.at \in {"answered", "refused", "dead"}

HandlersOf(m) == SelectSeq(m.entries, LAMBDA e : e.kind = "handler")

(* Files come in the manifest's order, and a filter keeps a sequence one.   *)
ASSUME ReadsAssumption ==
    \A m \in Manifests : /\ HandlersOf(m) \in Seq(ToSet(m.entries))
                         /\ m.files \in Seq(ToSet(m.files))

ParkRead(r, c) == chain' = [chain EXCEPT ![r] = c]
Respond(r, c) ==    \* a terminal hop consumes the row that seeded the chain
    /\ chain' = [chain EXCEPT ![r] = c]
    /\ row' = row \ {r}

-----------------------------------------------------------------------------
(* handleReadSources, handleReadSource: the deployment is named, or the    *)
(* live one is asked for through a dispatch.                               *)
Wants == {[path |-> "all"]} \cup {[path |-> e.path] : e \in UNION {ToSet(m.entries) : m \in Manifests}}
         \cup {[path |-> "missing"]}

HandleRead(r) ==
    /\ chain[r] = NotStarted
    /\ \E want \in Wants :
         \/ ParkRead(r, [at |-> "current", want |-> want])
         \/ \E m \in Manifests : ParkRead(r, [at |-> "manifest", want |-> want, dep |-> m])
    /\ UNCHANGED <<current, row>>

(* dispatch_result on the way: the row stands before the wake.             *)
Resolve(r) ==
    /\ chain[r].at = "current" /\ r \notin row
    /\ row' = row \cup {r}
    /\ chain' = [chain EXCEPT ![r] = [at |-> "resolved", want |-> chain[r].want, dep |-> current]]
    /\ UNCHANGED current

(* readSourcesCur, readSourceCur: a hop that only reads.                   *)
ReadSourcesCur(r) ==
    /\ chain[r].at = "resolved"
    /\ IF chain[r].dep = NoManifest
       THEN Respond(r, [at |-> "refused"])
       ELSE ParkRead(r, [chain[r] EXCEPT !.at = "manifest"]) /\ UNCHANGED row
    /\ UNCHANGED current

(* startPkgSources and finishSources.                                      *)
FinishSources(r, c, sources, files) ==
    Respond(r, [at |-> "answered", want |-> c.want, dep |-> c.dep,
                sources |-> sources, files |-> files])

StartPkgSources(r, c, acc) ==
    IF c.dep.files = <<>> THEN FinishSources(r, c, acc, <<>>)
    ELSE /\ ParkRead(r, [at |-> "pkgsource", want |-> c.want, dep |-> c.dep,
                     idx |-> 1, acc |-> <<>>, handlers |-> acc])
         /\ UNCHANGED row

(* onManifest.                                                             *)
OnManifest(r) ==
    /\ chain[r].at = "manifest" /\ chain[r].want.path = "all"
    /\ LET c == chain[r] IN
         \/ Respond(r, [at |-> "refused"])
         \/ /\ HandlersOf(c.dep) = <<>> /\ StartPkgSources(r, c, <<>>)
         \/ /\ HandlersOf(c.dep) # <<>>
            /\ ParkRead(r, [at |-> "source", want |-> c.want, dep |-> c.dep, idx |-> 1, acc |-> <<>>])
            /\ UNCHANGED row
    /\ UNCHANGED current

(* onModuleSource, onPkgSource: a blob that cannot be read is missing from *)
(* the answer, and the chain goes on.                                      *)
Got(name, ok) == [of |-> name, missing |-> ~ok]
EndsEarly(idx, files) == idx + 1 < Len(files)   \* mutant: 0-based index against a 1-based length
More(idx, files) == idx < Len(files)

OnModuleSource(r) ==
    /\ chain[r].at = "source"
    /\ \E ok \in BOOLEAN :
         LET c == chain[r]
             acc == Append(c.acc, Got(HandlersOf(c.dep)[c.idx].path, ok))
         IN IF More(c.idx, HandlersOf(c.dep))
            THEN ParkRead(r, [c EXCEPT !.idx = @ + 1, !.acc = acc]) /\ UNCHANGED row
            ELSE StartPkgSources(r, c, acc)
    /\ UNCHANGED current

OnPkgSource(r) ==
    /\ chain[r].at = "pkgsource"
    /\ \E ok \in BOOLEAN :
         LET c == chain[r]
             acc == Append(c.acc, Got(c.dep.files[c.idx], ok))
         IN IF More(c.idx, c.dep.files)
            THEN ParkRead(r, [c EXCEPT !.idx = @ + 1, !.acc = acc]) /\ UNCHANGED row
            ELSE FinishSources(r, c, c.handlers, acc)
    /\ UNCHANGED current

(* onSourceFileManifest, onSourceFileBlob: text only.                      *)
Entry(c) == {e \in ToSet(c.dep.entries) : e.path = c.want.path}

OnSourceFileManifest(r) ==
    /\ chain[r].at = "manifest" /\ chain[r].want.path # "all"
    /\ LET c == chain[r] IN
         \/ Respond(r, [at |-> "refused"])
         \/ /\ \E e \in Entry(c) : e.textual \/ e.kind = "handler"
            /\ ParkRead(r, [c EXCEPT !.at = "blob"])
            /\ UNCHANGED row
    /\ UNCHANGED current

OnSourceFileBlob(r) ==
    /\ chain[r].at = "blob"
    /\ \/ Respond(r, [at |-> "refused"])
       \/ FinishSources(r, chain[r], <<Got(chain[r].want.path, TRUE)>>, <<>>)
    /\ UNCHANGED current

(* A release of another deployment; a connection that drops, after which   *)
(* no hop of its chain runs.                                               *)
Release(m) == current' = m /\ current # m /\ UNCHANGED <<chain, row>>

Drop(r) ==
    /\ chain[r] # NotStarted /\ ~Over(chain[r])
    /\ ParkRead(r, [at |-> "dead"])
    /\ UNCHANGED <<current, row>>

ReadsInit ==
    /\ current \in Manifests \cup {NoManifest}
    /\ chain = [r \in Readers |-> NotStarted]
    /\ row = {}

Hop(r) == \/ Resolve(r) \/ ReadSourcesCur(r) \/ OnManifest(r) \/ OnModuleSource(r)
          \/ OnPkgSource(r) \/ OnSourceFileManifest(r) \/ OnSourceFileBlob(r)

ReadsNext ==
    \/ \E r \in Readers : HandleRead(r) \/ Hop(r) \/ Drop(r)
    \/ \E m \in Manifests : Release(m)

ReadsSpec == ReadsInit /\ [][ReadsNext]_readVars

-----------------------------------------------------------------------------
(* However many hops it took, and whatever was released meanwhile, an      *)
(* answer is of one deployment: each of its handlers and package files     *)
(* once, in the manifest's order; and no result row is left by a chain     *)
(* that ended with a response.                                             *)
NamesOf(got) == [i \in DOMAIN got |-> got[i].of]

SourcesAreWhole ==
    \A r \in Readers :
        LET c == chain[r] IN
        /\ c.at = "answered" =>
             IF c.want.path = "all"
             THEN /\ NamesOf(c.sources) = [i \in DOMAIN HandlersOf(c.dep) |-> HandlersOf(c.dep)[i].path]
                  /\ NamesOf(c.files) = c.dep.files
             ELSE NamesOf(c.sources) = <<c.want.path>>
        /\ c.at \in {"answered", "refused"} => r \notin row

(* The no-residue invariant (admin/index.mjs, consumeRootWrite): every     *)
(* resolved dispatch leaves a row, and an unharvested one is a leak.       *)
NoResidue == \A r \in Readers : Over(chain[r]) => r \notin row
=============================================================================
