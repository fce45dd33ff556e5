----------------------------- MODULE MCTenants ------------------------------
(***************************************************************************)
(* What the dashboard of an instance shows and does: who owns the instance, *)
(* the deploy workspace, the reads of its source, the door of every route,  *)
(* the panel that edits it, and the viewer of its recorded runs: the inputs *)
(* a run is given again, the model view at a stopped playhead, the window   *)
(* of a saga's hops, the walk through a trace.  They keep their state       *)
(* apart, so each behaviour exercises one of them, its subject, while the   *)
(* others rest.                                                             *)
(***************************************************************************)
EXTENDS Tenancy, Deploy, SourceReads, Router, Editor, Replay, ModelView, Window, Trace, TLC

CONSTANTS p1, p2, k1, k2, k3

\* Two packages that import each other, or one the other, or nothing.
SomeGraphs == {(p1 :> {}) @@ (p2 :> {p1}), (p1 :> {p2}) @@ (p2 :> {}),
               (p1 :> {p2}) @@ (p2 :> {p1}), (p1 :> {}) @@ (p2 :> {})}

FileOf(path, kind, textual) == [path |-> path, kind |-> kind, textual |-> textual]
SomeManifests ==
    {[entries |-> <<FileOf("a", "handler", TRUE), FileOf("b", "static", TRUE), FileOf("c", "handler", TRUE)>>,
      files |-> <<k1, k2>>],
     [entries |-> <<FileOf("b", "static", FALSE)>>, files |-> <<k3>>],
     [entries |-> <<FileOf("a", "handler", TRUE)>>, files |-> <<>>]}

VARIABLE subject

viewerVars == <<replayVars, modelViewVars, windowVars, traceVars>>
consoleVars == <<vars, deployVars, readVars, routerVars, editorVars>>
tenantsVars == <<subject, consoleVars, viewerVars>>

AnyRequest == CHOOSE r \in Requests : TRUE
AnyWorld == CHOOSE w \in Worlds : TRUE

TenantsInit ==
    /\ subject \in {"tenancy", "deploy", "reads", "router", "editor",
                    "replay", "model view", "window", "trace"}
    /\ Init /\ DeployInit /\ EditorInit
    /\ ReadsInit /\ (subject # "reads" => current = NoManifest)
    /\ \/ subject = "router" /\ RouterInit
       \/ subject # "router" /\ asked = AnyRequest /\ auth = NoAuth /\ outcome = ""
    /\ ModelViewInit /\ WindowInit /\ TraceInit
    /\ \/ subject = "replay" /\ ReplayInit
       \/ /\ subject # "replay" /\ world = AnyWorld
          /\ phase = "live" /\ live = <<>> /\ drawn = 0 /\ seen = <<>> /\ drawPos = 0 /\ poison = FALSE

ConsoleNext ==
    \/ subject = "tenancy" /\ Next /\ UNCHANGED <<deployVars, readVars, routerVars, editorVars>>
    \/ subject = "deploy" /\ DeployNext /\ UNCHANGED <<vars, readVars, routerVars, editorVars>>
    \/ subject = "reads" /\ ReadsNext /\ UNCHANGED <<vars, deployVars, routerVars, editorVars>>
    \/ subject = "router" /\ RouterNext /\ UNCHANGED <<vars, deployVars, readVars, editorVars>>
    \/ subject = "editor" /\ EditorNext /\ UNCHANGED <<vars, deployVars, readVars, routerVars>>

ViewerNext ==
    \/ subject = "replay" /\ ReplayNext /\ UNCHANGED <<modelViewVars, windowVars, traceVars>>
    \/ subject = "model view" /\ ModelViewNext /\ UNCHANGED <<replayVars, windowVars, traceVars>>
    \/ subject = "window" /\ WindowNext /\ UNCHANGED <<replayVars, modelViewVars, traceVars>>
    \/ subject = "trace" /\ TraceNext /\ UNCHANGED <<replayVars, modelViewVars, windowVars>>

TenantsNext ==
    /\ UNCHANGED subject
    /\ \/ ConsoleNext /\ UNCHANGED viewerVars
       \/ ViewerNext /\ UNCHANGED consoleVars

TenantsSpec == TenantsInit /\ [][TenantsNext]_tenantsVars

Symmetry == Permutations(Accounts) \cup Permutations(Names) \cup Permutations(Slots)
=============================================================================
