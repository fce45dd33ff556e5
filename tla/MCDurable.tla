----------------------------- MODULE MCDurable ------------------------------
(***************************************************************************)
(* The bookkeeping that must come out right over many calls: the segments  *)
(* of the log sealed into blobs, the export of an instance, the next       *)
(* occurrence of a crontab, and the plan of a buyer, in its rows and in    *)
(* its pushes to the tenants.  They share no state, so each behaviour      *)
(* exercises one of them, its subject, while the others rest.              *)
(***************************************************************************)
EXTENDS Blobs, Exports, Cron, Billing, TLC

ThreeMonths == <<4, 3, 4>>

VARIABLE subject

durableVars == <<subject, blobVars, exportVars, cronVars, vars>>

DurableInit ==
    /\ subject \in {"chains", "log", "exports", "cron", "rows", "pushes"}
    /\ BlobsInit
    /\ ExportsInit /\ (subject # "exports" => ofBuild = CHOOSE b \in ExportBuilds : TRUE)
    /\ \/ subject = "cron" /\ CronInit
       \/ /\ subject # "cron" /\ search = "on"
          /\ crontab = {} /\ now = {} /\ candidate = {}
    /\ Init

\* Of the plan, the rows while nobody else is bought for, or the pushes.
PlanNext ==
    /\ Next /\ OneAfterTheOther
    /\ \/ subject = "rows" /\ owned' = owned
       \/ subject = "pushes" /\ asked' = asked

\* Of the objects, those that chains write, or those of the log.
ObjectsNext ==
    /\ BlobsNext
    /\ \/ subject = "chains" /\ appended' = appended
       \/ subject = "log" /\ recipe' = recipe

DurableNext ==
    /\ UNCHANGED subject
    /\ \/ ObjectsNext /\ UNCHANGED <<exportVars, cronVars, vars>>
       \/ subject = "exports" /\ ExportsNext /\ UNCHANGED <<blobVars, cronVars, vars>>
       \/ subject = "cron" /\ Search /\ UNCHANGED <<blobVars, exportVars, vars>>
       \/ PlanNext /\ UNCHANGED <<blobVars, exportVars, cronVars>>

DurableSpec == DurableInit /\ [][DurableNext]_durableVars

Symmetry == Permutations(Slots) \cup Permutations(Tiers) \cup Permutations(Tenants)
=============================================================================
