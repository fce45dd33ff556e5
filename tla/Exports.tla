------------------------------- MODULE Exports -------------------------------
(***************************************************************************)
(* The data export of a tenant: the baked module export_run walks its      *)
(* store into parts, one activation and one upload at a time, behind a     *)
(* watchdog; the dashboard (admin/index.mjs, startExport to                *)
(* getExportLinks) starts it in two dispatched hops and presigns links to  *)
(* what is done.  A part is the page it holds; the last may be no page but *)
(* the manifest.                                                           *)
(***************************************************************************)
EXTENDS Integers, Sequences, SequencesExt

CONSTANTS
    Exports,            \* ids a start may make
    Pages,              \* pages of the tenant's store
    MaxPartAttempts,    \* MAX_PART_ATTEMPTS
    MaxUploads,         \* uploads of one export under way at once
    ExportBuilds,       \* record versions; a build reads its own only
    MaxOutages          \* bound: failed uploads, crashes and changes of build

(* Even an empty store has a first page.                                   *)
ASSUME PagesAssumption == Pages \in Nat \ {0}

VARIABLES
    export,     \* _export/{id}
    watchdog,   \* the wakes armed for export_run: ids
    uploads,    \* under way, per export: sequences of parts
    starting,   \* starts that found no export running
    linkedParts, \* history: the parts a link was given for, per export
    deployed,   \* _deploy/current is there
    ofBuild,    \* the record version of the leader's build
    outages

exportVars == <<export, watchdog, uploads, starting, linkedParts, deployed, ofBuild, outages>>

NoExport == [state |-> "none"]
Bundle == 0

Stands(id) == export[id] # NoExport

-----------------------------------------------------------------------------
(* startExport, exportStartCheck, exportStarted: the rows and the wake of  *)
(* the target are written by a hop of their own, after the check.          *)
StartExport(id) ==
    /\ ~Stands(id) /\ id \notin starting
    /\ \A other \in Exports : export[other].state # "running"
    /\ starting' = starting \cup {id}
    /\ UNCHANGED <<export, watchdog, uploads, linkedParts, deployed, ofBuild, outages>>

StartRows(id) ==
    /\ id \in starting
    /\ starting' = starting \ {id}
    /\ export' = [export EXCEPT ![id] =
          [v |-> ofBuild, state |-> "running", attempts |-> 0, parts |-> <<>>,
           cursor |-> 1, phase |-> "kv"]]
    /\ watchdog' = watchdog \cup {id}
    /\ UNCHANGED <<uploads, linkedParts, deployed, ofBuild, outages>>

(* getExportLinks.                                                         *)
GetExportLinks(id) ==
    /\ export[id].state = "done"
    /\ linkedParts' = [linkedParts EXCEPT ![id] = export[id].parts]
    /\ UNCHANGED <<export, watchdog, uploads, starting, deployed, ofBuild, outages>>

-----------------------------------------------------------------------------
(* export_run.                                                             *)

Keep(id, rec) == export' = [export EXCEPT ![id] = rec]

(* Re-armed under the same key, then the next part goes out.               *)
Unwatched(id) == watchdog \ {id}        \* mutant: no watchdog behind an upload
Watched(id) == watchdog \cup {id}

Issue(id, rec, others) ==
    /\ Keep(id, rec)
    /\ watchdog' = Watched(id)
    /\ uploads' = [uploads EXCEPT ![id] =
          Append(others, IF rec.phase = "bundle" THEN Bundle ELSE rec.cursor)]

Finish(id, rec, others, state) ==
    /\ Keep(id, [rec EXCEPT !.state = state])
    /\ watchdog' = watchdog \ {id}
    /\ uploads' = [uploads EXCEPT ![id] = others]

(* A wake: the fired entry is gone.  A record that this build cannot read  *)
(* is left as it is; one that is terminal needs no wake any more.          *)
WakeExport(id) ==
    /\ id \in watchdog /\ Stands(id)
    /\ IF export[id].state = "running" /\ export[id].v = ofBuild
       THEN Len(uploads[id]) < MaxUploads /\ Issue(id, export[id], uploads[id])
       ELSE watchdog' = watchdog \ {id} /\ UNCHANGED <<export, uploads>>
    /\ UNCHANGED <<starting, linkedParts, deployed, ofBuild, outages>>

(* The same page again is recorded once.                                   *)
Recorded(parts, part) ==
    IF parts # <<>> /\ Last(parts) = part THEN parts ELSE Append(parts, part)

Advance(id, part, others) ==
    LET rec == [export[id] EXCEPT !.attempts = 0, !.parts = Recorded(@, part)] IN
    \/ /\ part = Bundle
       /\ Finish(id, rec, others, "done")
    \/ /\ part \in 1 .. Pages - 1
       /\ Issue(id, [rec EXCEPT !.cursor = part + 1], others)
    \/ /\ part = Pages /\ deployed
       /\ Issue(id, [rec EXCEPT !.cursor = 1, !.phase = "bundle"], others)
    \/ /\ part = Pages /\ ~deployed
       /\ Finish(id, [rec EXCEPT !.cursor = 1], others, "done")

PassesOver(rec) ==      \* mutant: a failed part is passed over
    [rec EXCEPT !.attempts = @ + 1, !.cursor = @ + 1]
Failed(rec) == [rec EXCEPT !.attempts = @ + 1]

(* The end of an upload.  A failure is counted against the part, and the   *)
(* same part goes out again at once.                                       *)
PartUploaded(id, i, ok) ==
    LET part == uploads[id][i]
        others == RemoveAt(uploads[id], i)
        failed == Failed(export[id])
    IN /\ outages' = IF ok THEN outages ELSE outages + 1
       /\ ok \/ outages < MaxOutages
       /\ \/ /\ export[id].v # ofBuild \/ export[id].state # "running"
             /\ uploads' = [uploads EXCEPT ![id] = others]
             /\ watchdog' = IF export[id].v # ofBuild THEN watchdog ELSE watchdog \ {id}
             /\ UNCHANGED export
          \/ /\ export[id].v = ofBuild /\ export[id].state = "running"
             /\ \/ ok /\ Advance(id, part, others)
                \/ ~ok /\ failed.attempts >= MaxPartAttempts /\ Finish(id, failed, others, "failed")
                \/ ~ok /\ failed.attempts < MaxPartAttempts /\ Issue(id, failed, others)
       /\ UNCHANGED <<starting, linkedParts, deployed, ofBuild>>

Redeploy == ~deployed /\ deployed' = TRUE
            /\ UNCHANGED <<export, watchdog, uploads, starting, linkedParts, ofBuild, outages>>

(* Another node leads: the uploads of the first have no answer.            *)
Outage ==
    /\ outages < MaxOutages /\ outages' = outages + 1
    /\ uploads' = [id \in Exports |-> <<>>]
    /\ ofBuild' \in ExportBuilds
    /\ UNCHANGED <<export, watchdog, starting, linkedParts, deployed>>

ExportsInit ==
    /\ export = [id \in Exports |-> NoExport]
    /\ watchdog = {} /\ starting = {}
    /\ uploads = [id \in Exports |-> <<>>] /\ linkedParts = [id \in Exports |-> <<>>]
    /\ deployed = FALSE /\ ofBuild \in ExportBuilds /\ outages = 0

ExportsNext ==
    \/ \E id \in Exports :
         \/ StartExport(id) \/ StartRows(id) \/ GetExportLinks(id) \/ WakeExport(id)
         \/ \E i \in DOMAIN uploads[id], ok \in BOOLEAN : PartUploaded(id, i, ok)
    \/ Redeploy \/ Outage

ExportsSpec == ExportsInit /\ [][ExportsNext]_exportVars

-----------------------------------------------------------------------------
(* An export that is done has every page of the store once and in order,   *)
(* then the bundle if it has one, whatever failed on the way; its links    *)
(* are to these parts and no others.                                       *)
AllPages == [n \in 1 .. Pages |-> n]

ExportIsComplete ==
    \A id \in Exports :
        /\ export[id].state = "done" => export[id].parts \in {AllPages, Append(AllPages, Bundle)}
        /\ linkedParts[id] # <<>> => linkedParts[id] = export[id].parts

(* export_run: "without the re-arm a crash mid-part would strand the job   *)
(* forever": an export that runs has its watchdog.                         *)
RunningIsWatched == \A id \in Exports : export[id].state = "running" => id \in watchdog
=============================================================================
