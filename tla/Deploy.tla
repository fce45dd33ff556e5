------------------------------- MODULE Deploy -------------------------------
(***************************************************************************)
(* A deploy of one tenant: the dashboard's client (admin/_static/api.js,   *)
(* deploy) resets a workspace, uploads files one at a time and cuts a      *)
(* deployment; the handlers of admin/index.mjs and of the streamed upload  *)
(* keep the workspace and compile.  Every compile, stage and blob call is  *)
(* held: its continuation is an action of its own and reads the workspace  *)
(* again.  A file is a path with a content; bytecode is the content it was *)
(* compiled from.  A package is uploaded as a whole.                       *)
(***************************************************************************)
EXTENDS Integers, Sequences, FiniteSets, SequencesExt, FiniteSetsExt

CONSTANTS
    Clients,
    Handlers, Statics,  \* paths
    Contents,
    Packages,
    Graphs,             \* import graphs a lockfile may have: [Packages -> SUBSET Packages]
    NeedSiblings,       \* packages with a file that imports another of its files
    PageLimit,          \* rows a listing of the workspace returns
    NoFile

Paths == Handlers \cup Statics

ASSUME DeployAssumption ==
    /\ IsFiniteSet(Paths) /\ IsFiniteSet(Packages)
    /\ NoFile \notin Contents /\ PageLimit \in Nat
    /\ Graphs \subseteq [Packages -> SUBSET Packages]

VARIABLES
    ws,         \* _workspace/{path}: the content, or NoFile
    wspkg,      \* _workspace_pkg/{hash}/...: "none", "source" or "bytecode"
    client,     \* what each client does
    hop,        \* the held chain of a client's call; a cut ends in a stamped manifest
    closing     \* the account of the tenant is being deleted

deployVars == <<ws, wspkg, client, hop, closing>>

NoDeploy == [does |-> "nothing"]
NoHop == [at |-> "none"]

(* A bundle and its lockfile, no longer than a listing.                    *)
Bundles == {[files |-> f, graph |-> g] : f \in [Paths -> Contents \cup {NoFile}], g \in Graphs}
FilesOf(f) == {p \in Paths : f[p] # NoFile}
Fits(b) == FilesOf(b.files) # {} /\ Cardinality(FilesOf(b.files)) <= PageLimit

(* What a listing shows of rows.                                           *)
Listed(rows) == {s \in SUBSET rows : Cardinality(s) = Min({PageLimit, Cardinality(rows)})}

-----------------------------------------------------------------------------
(* The client, and the handlers that answer it at once or hold it.         *)

Goes(c, does) == client' = [client EXCEPT ![c].does = does]

Start(c, b) ==
    /\ client[c] = NoDeploy /\ Fits(b)
    /\ client' = [client EXCEPT ![c] = [does |-> "reset", bundle |-> b,
                      files |-> FilesOf(b.files), packages |-> Packages]]
    /\ UNCHANGED <<ws, wspkg, hop, closing>>

(* Any answer but a 2xx throws in the client: the deploy is abandoned, and *)
(* what it staged stays.                                                   *)
Abandon(c) ==
    /\ client[c] # NoDeploy /\ hop[c] = NoHop
    /\ client' = [client EXCEPT ![c] = NoDeploy]
    /\ UNCHANGED <<ws, wspkg, hop, closing>>

(* deployGate.                                                             *)
Gate(c, does) == client[c] # NoDeploy /\ client[c].does = does /\ ~closing

(* handleWsReset: both prefixes, as far as a listing goes.                 *)
KeepsRows(files, packages) == UNCHANGED <<ws, wspkg>>   \* mutant: nothing is cleared
Cleared(files, packages) ==
    /\ ws' = [p \in Paths |-> IF p \in files THEN NoFile ELSE ws[p]]
    /\ wspkg' = [p \in Packages |-> IF p \in packages THEN "none" ELSE wspkg[p]]

HandleWsReset(c) ==
    /\ Gate(c, "reset")
    /\ \E files \in Listed(FilesOf(ws)),
          packages \in Listed({p \in Packages : wspkg[p] # "none"}) :
            Cleared(files, packages)
    /\ Goes(c, "upload")
    /\ UNCHANGED <<hop, closing>>

(* handleWsFile and onFileStaged, handleWsRef and onRefVerified, onHeaders *)
(* and onStored of the streamed upload: the row is written when the held   *)
(* call returns; the client waits for it.  The streamed upload asks for    *)
(* access only.                                                            *)
Upload(c, p) ==
    /\ client[c] # NoDeploy /\ client[c].does = "upload" /\ p \in client[c].files
    /\ ~closing \/ p \in Statics
    /\ client' = [client EXCEPT ![c].does = "wait", ![c].files = @ \ {p}]
    /\ hop' = [hop EXCEPT ![c] = [at |-> "file", path |-> p,
                                  content |-> client[c].bundle.files[p]]]
    /\ UNCHANGED <<ws, wspkg, closing>>

OnFileStaged(c) ==
    /\ hop[c].at = "file"
    /\ ws' = [ws EXCEPT ![hop[c].path] = hop[c].content]
    /\ hop' = [hop EXCEPT ![c] = NoHop]
    /\ Goes(c, "upload")
    /\ UNCHANGED <<wspkg, closing>>

(* handleWsPkgFile and onPkgTryCompiled: a package whose files need nobody *)
(* else has bytecode at once, the others wait for the cut.                 *)
Alone(b, p) == b.graph[p] = {} /\ p \notin NeedSiblings

UploadPackage(c, p) ==
    /\ Gate(c, "upload") /\ client[c].files = {} /\ p \in client[c].packages
    /\ client' = [client EXCEPT ![c].does = "wait", ![c].packages = @ \ {p}]
    /\ hop' = [hop EXCEPT ![c] = [at |-> "pkgfile", package |-> p]]
    /\ UNCHANGED <<ws, wspkg, closing>>

OnPkgTryCompiled(c) ==
    /\ hop[c].at = "pkgfile"
    /\ wspkg' = [wspkg EXCEPT ![hop[c].package] =
                   IF Alone(client[c].bundle, hop[c].package) THEN "bytecode" ELSE "source"]
    /\ hop' = [hop EXCEPT ![c] = NoHop]
    /\ Goes(c, "upload")
    /\ UNCHANGED <<ws, closing>>

-----------------------------------------------------------------------------
(* The cut.                                                                *)

(* pkgCompileQueue: depth first, leaves first, the packages without        *)
(* bytecode in the order their visits end.  One met again while it is      *)
(* being visited is a cycle.  A package is entered and left once.          *)
Unvisited == [visiting |-> <<>>, done |-> {}, queue |-> <<>>, cycle |-> FALSE]

Enter(w, some) ==
    LET p == CHOOSE p \in some : TRUE
    IN IF p \in ToSet(w.visiting) THEN [w EXCEPT !.cycle = TRUE]
       ELSE [w EXCEPT !.visiting = Append(@, p)]

Leave(w) ==
    LET p == Last(w.visiting)
    IN [w EXCEPT !.visiting = Front(@), !.done = @ \cup {p},
                 !.queue = IF wspkg[p] = "bytecode" THEN @ ELSE Append(@, p)]

Visit(graph, w) ==
    IF w.cycle \/ w.done = Packages THEN w
    ELSE IF w.visiting = <<>> THEN Enter(w, Packages \ w.done)
    ELSE IF graph[Last(w.visiting)] \subseteq w.done THEN Leave(w)
    ELSE Enter(w, graph[Last(w.visiting)] \ w.done)

Visits == 2 * Cardinality(Packages)
Walk(graph) ==
    LET walk[n \in 0 .. Visits] == IF n = 0 THEN Unvisited ELSE Visit(graph, walk[n - 1])
    IN walk[Visits]

RootsFirst(graph) == Reverse(Walk(graph).queue)     \* mutant: the importers first
Queue(graph) == Walk(graph).queue

(* compiledResolution: what a compile may load.                            *)
Loadable(done) == {p \in Packages : p \in done \/ wspkg[p] = "bytecode"}

HandlerRows == {p \in Handlers : ws[p] # NoFile}

Fail(c) == hop' = [hop EXCEPT ![c] = NoHop] /\ Goes(c, "failed")

(* cutStamp: the rows are read once more and joined with the bytecode.     *)
StampFrom(rows, bytecode) ==
    [files |-> [p \in rows |-> ws[p]],
     bytecode |-> [p \in rows \cap Handlers |->
                     IF p \in DOMAIN bytecode THEN bytecode[p] ELSE NoFile]]

CutStamp(c, done, bytecode) ==
    \/ /\ \E p \in Packages : p \notin done /\ wspkg[p] = "none"
       /\ Fail(c)
    \/ /\ \A p \in Packages : p \in done \/ wspkg[p] # "none"
       /\ \E rows \in Listed(FilesOf(ws)) :
            hop' = [hop EXCEPT ![c] = [at |-> "stamped", manifest |-> StampFrom(rows, bytecode)]]
       /\ UNCHANGED client

(* cutCompileHandlers: the engine is given the handlers by their content.  *)
CompileHandlers(c, done) ==
    IF HandlerRows = {} THEN CutStamp(c, done, <<>>)
    ELSE /\ hop' = [hop EXCEPT ![c] = [at |-> "bundle", done |-> done,
                                       given |-> [p \in HandlerRows |-> ws[p]]]]
         /\ UNCHANGED client

CompileNext(c, queue, done) ==
    IF queue = <<>> THEN CompileHandlers(c, done)
    ELSE /\ hop' = [hop EXCEPT ![c] = [at |-> "package", queue |-> queue, done |-> done,
                                       loads |-> Loadable(done)]]
         /\ UNCHANGED client

(* The client waits for the answer of the cut.                             *)
HandleWsCut(c) ==
    /\ Gate(c, "upload") /\ client[c].files = {} /\ client[c].packages = {}
    /\ hop[c] = NoHop
    /\ IF \/ FilesOf(ws) = {} \/ Walk(client[c].bundle.graph).cycle
          \/ \E p \in Packages : wspkg[p] = "none"
       THEN Fail(c)
       ELSE CompileNext(c, Queue(client[c].bundle.graph), {})
    /\ UNCHANGED <<ws, wspkg, closing>>

(* onPkgBatchCompiled: what is compiled is carried along, not written.     *)
OnPkgBatchCompiled(c) ==
    /\ hop[c].at = "package"
    /\ IF client[c].bundle.graph[Head(hop[c].queue)] \subseteq hop[c].loads
       THEN CompileNext(c, Tail(hop[c].queue), hop[c].done \cup {Head(hop[c].queue)})
       ELSE Fail(c)
    /\ UNCHANGED <<ws, wspkg, closing>>

OnBundleCompiled(c) ==
    /\ hop[c].at = "bundle"
    /\ CutStamp(c, hop[c].done, hop[c].given)
    /\ UNCHANGED <<ws, wspkg, closing>>

OnCut(c) ==
    /\ hop[c].at = "stamped"
    /\ hop' = [hop EXCEPT ![c] = NoHop]
    /\ Goes(c, "release")
    /\ UNCHANGED <<ws, wspkg, closing>>

(* A file the engine cannot stage, fetch or compile.                       *)
Refused(c) ==
    /\ hop[c].at \in {"file", "pkgfile", "package", "bundle"}
    /\ Fail(c)
    /\ UNCHANGED <<ws, wspkg, closing>>

AccountCloses ==
    /\ ~closing /\ closing' = TRUE
    /\ UNCHANGED <<ws, wspkg, client, hop>>

DeployInit ==
    /\ ws = [p \in Paths |-> NoFile] /\ wspkg = [p \in Packages |-> "none"]
    /\ client = [c \in Clients |-> NoDeploy] /\ hop = [c \in Clients |-> NoHop]
    /\ closing = FALSE

DeployNext ==
    \/ \E c \in Clients :
         \/ \E b \in Bundles : Start(c, b)
         \/ Abandon(c) \/ HandleWsReset(c) \/ HandleWsCut(c)
         \/ \E p \in Paths : Upload(c, p)
         \/ \E p \in Packages : UploadPackage(c, p)
         \/ OnFileStaged(c) \/ OnPkgTryCompiled(c) \/ OnPkgBatchCompiled(c)
         \/ OnBundleCompiled(c) \/ OnCut(c) \/ Refused(c)
    \/ AccountCloses

DeploySpec == DeployInit /\ [][DeployNext]_deployVars

-----------------------------------------------------------------------------
(* Whatever earlier deploys left behind, a client that is alone gets the   *)
(* bundle it asked for: its files, all of them, compiled as they are.      *)
CutIsTheBundle ==
    \A c \in Clients : hop[c].at = "stamped" =>
        LET cut == hop[c].manifest
            asked == client[c].bundle.files
        IN /\ cut.files = [p \in FilesOf(asked) |-> asked[p]]
           /\ cut.bytecode = [p \in FilesOf(asked) \cap Handlers |-> asked[p]]

(* When a package is compiled, the packages it imports have their          *)
(* bytecode, compiled in this cut or when they were uploaded.              *)
ImportsAreReady ==
    \A c \in Clients : hop[c].at = "package" =>
        client[c].bundle.graph[Head(hop[c].queue)] \subseteq hop[c].loads

(* admin/index.mjs: validating against anything but what the manifest will *)
(* record would validate the wrong thing.                                  *)
StampedAsCompiled ==
    \A c \in Clients : hop[c].at = "stamped" =>
        \A p \in DOMAIN hop[c].manifest.bytecode :
            hop[c].manifest.bytecode[p] = hop[c].manifest.files[p]
=============================================================================
