------------------------------ MODULE Editor ------------------------------
(***************************************************************************)
(* The dashboard's code panel (renderCode of pages/instance.js) and the     *)
(* deploy it sends (deployAndRelease of api.js).  The panel reads the       *)
(* current deployment once: handlers go into an editable draft, statics     *)
(* into a list of references.  A text static moves into the draft when it   *)
(* is opened, which takes a read of its own.  The packages the deployment   *)
(* imports are a part of it that the panel only carries, with app_imports.  *)
(* Deploy ships the draft, every static the draft does not shadow and the   *)
(* packages, as one whole bundle: whatever is not shipped is gone.  The     *)
(* editor's own code (CodeMirror) is taken as loaded; the staging of a      *)
(* bundle is the Deploy module's.                                           *)
(*                                                                         *)
(* `wanted` is the user's side of it: the bundle as they have seen, typed,  *)
(* created and removed it.  Troubles are the ways in which a user or the    *)
(* platform may be out of step with the panel.                              *)
(***************************************************************************)
EXTENDS Naturals, Sequences, FiniteSets

CONSTANTS
    Modules,     \* paths of handlers
    TextFiles,   \* paths of statics the panel can edit
    Binaries,    \* paths of statics it cannot
    PackageSet,  \* the packages of a deployment, as one part of it
    AtFirst,     \* parts of the deployment when the panel opens
    Texts,       \* contents of a file
    Original,    \* what every file of that deployment holds
    Absent,      \* no such file; no file
    Troubles,    \* which of Hardships happen
    MaxDeploys   \* bound: deploys started

Hardships == {"early",       \* the user acts before the deployment is loaded
              "unloaded",    \* the load fails, and the user goes on
              "unreadable",  \* a handler's stored source cannot be read
              "impatient",   \* the user works on a file that is being read
              "stray"}       \* the user types while no file is selected

Files == Modules \cup TextFiles \cup Binaries
Parts == Files \cup {PackageSet}

ASSUME EditorAssumption ==
    /\ Modules \cap TextFiles = {} /\ Binaries \cap (Modules \cup TextFiles) = {}
    /\ PackageSet \notin Files /\ AtFirst \subseteq Parts
    /\ Original \in Texts /\ Absent \notin Texts \cup Files
    /\ Troubles \subseteq Hardships /\ MaxDeploys \in Nat

VARIABLES
    deployed,   \* the current deployment's files
    panel,      \* "loading", "loaded" or "failed"
    draft,      \* draft: the editable files
    statics,    \* currentStatics and currentPackages: what is only carried
    gone,       \* a source of a package could not be read
    selected,   \* selected: the file edits are written to
    label,      \* the path shown above the editor
    doc,        \* the editor's text, Absent when it is not editable
    reading,    \* the static whose source is being read
    shipping,   \* bundles of the deploys under way
    button,     \* the Deploy button is enabled
    starts,     \* deploys started
    wanted      \* the bundle as the user knows it

panelVars == <<draft, statics, gone, selected, label, doc, reading, button>>
editorVars == <<deployed, panel, panelVars, shipping, starts, wanted>>

Nothing == [f \in Parts |-> Absent]
Has(bundle) == {f \in Parts : bundle[f] # Absent}
Allows(trouble) == trouble \in Troubles

\* When the user may act at all, and on which file.
Ready == \/ panel = "loaded"
         \/ panel = "loading" /\ Allows("early")
         \/ panel = "failed" /\ Allows("unloaded")
Calm(f) == /\ Ready
           /\ f = reading => Allows("impatient")

---------------------------------------------------------------------------
(* The panel's handlers. *)

\* renderTree: the button follows the draft, whatever else goes on.
RenderTree == button' = (Has(draft') # {})

\* openFile
OpenFile(f) == selected' = f /\ label' = f /\ doc' = draft'[f]

\* clearEditorView
ClearEditor == doc' = Absent

\* loadCurrent: a handler without its source enters neither list.
LoadCurrent ==
    /\ panel = "loading"
    /\ \E lost \in SUBSET (Modules \cap Has(deployed)) :
        /\ lost # {} => Allows("unreadable")
        /\ draft' = [f \in Parts |->
              IF f \in (Modules \cap Has(deployed)) \ lost THEN deployed[f] ELSE draft[f]]
        /\ statics' = [f \in Parts |-> IF f \in Modules THEN Absent ELSE deployed[f]]
        /\ RenderTree
    /\ gone' \in {FALSE, deployed[PackageSet] # Absent}
    /\ panel' = "loaded"
    /\ UNCHANGED <<deployed, selected, label, doc, reading, shipping, starts, wanted>>

LoadFails ==
    /\ panel = "loading"
    /\ panel' = "failed"
    /\ UNCHANGED <<deployed, panelVars, shipping, starts, wanted>>

\* A row of the draft is opened.
OpenDraft(f) ==
    /\ Ready /\ draft[f] # Absent
    /\ UNCHANGED draft
    /\ OpenFile(f)
    /\ UNCHANGED <<deployed, panel, statics, reading, button, gone, shipping, starts, wanted>>

\* openEntry of a row the draft does not have: nothing is selected, a binary
\* empties the editor, a text waits for its source; one read at a time.
OpenEntry(f) ==
    /\ Ready /\ draft[f] = Absent /\ statics[f] # Absent
    /\ selected' = Absent /\ label' = f
    /\ \/ f \in Binaries /\ ClearEditor /\ UNCHANGED reading
       \/ /\ f \in TextFiles
          /\ reading' = IF reading = Absent THEN f ELSE reading
          /\ UNCHANGED doc
    /\ UNCHANGED <<deployed, panel, draft, statics, button, gone, shipping, starts, wanted>>

\* openEntry, after its await: the source of the deployment that is current
\* by now enters the draft.
SourceRead ==
    /\ reading # Absent
    /\ reading' = Absent
    /\ \/ /\ deployed[reading] # Absent
          /\ draft' = [draft EXCEPT ![reading] = deployed[reading]]
          /\ RenderTree /\ OpenFile(reading)
       \/ UNCHANGED <<draft, selected, label, doc, button>>    \* the read failed
    /\ UNCHANGED <<deployed, panel, statics, gone, shipping, starts, wanted>>

\* The user types: the editor's listener writes the text into the draft of
\* the selected file, and enables the button.
Type(text) ==
    /\ Ready /\ doc # Absent /\ doc # text
    /\ selected = Absent => Allows("stray")
    /\ doc' = text
    /\ IF selected = Absent THEN UNCHANGED <<draft, button>>
       ELSE draft' = [draft EXCEPT ![selected] = text] /\ RenderTree
    /\ wanted' = [wanted EXCEPT ![label] = text]
    /\ UNCHANGED <<deployed, panel, statics, selected, label, reading, gone, shipping, starts>>

\* removeEntry: out of both lists.
DropsDraftOnly(f) == statics    \* mutant: the reference is forgotten
WithoutStatic(f) == [statics EXCEPT ![f] = Absent]

RemoveEntry(f) ==
    /\ Calm(f) /\ (draft[f] # Absent \/ statics[f] # Absent)
    /\ draft' = [draft EXCEPT ![f] = Absent]
    /\ statics' = WithoutStatic(f)
    /\ wanted' = [wanted EXCEPT ![f] = Absent]
    /\ IF selected = f THEN selected' = Absent /\ label' = Absent /\ ClearEditor
       ELSE UNCHANGED <<selected, label, doc>>
    /\ RenderTree
    /\ UNCHANGED <<deployed, panel, reading, gone, shipping, starts>>

\* createDraft, from a template; it replaces a draft when the user agrees.
CreateDraft(f, text) ==
    /\ Calm(f) /\ f \notin Binaries
    /\ draft' = [draft EXCEPT ![f] = text]
    /\ wanted' = [wanted EXCEPT ![f] = text]
    /\ RenderTree /\ OpenFile(f)
    /\ UNCHANGED <<deployed, panel, statics, reading, gone, shipping, starts>>

\* Deploy's click: the draft, the statics it does not shadow and the packages;
\* refused when a package cannot be carried.
Bundle == [f \in Parts |-> IF draft[f] # Absent THEN draft[f] ELSE statics[f]]

ClickDeploy ==
    /\ Ready /\ button /\ Has(draft) # {} /\ ~gone /\ starts < MaxDeploys
    /\ starts' = starts + 1
    /\ shipping' = Append(shipping, Bundle)
    /\ button' = FALSE
    /\ UNCHANGED <<deployed, panel, draft, statics, selected, label, doc, gone, reading, wanted>>

\* deployAndRelease ends: the bundle is the current deployment, or nothing is.
DeployEnds ==
    /\ shipping # <<>>
    /\ deployed' = Head(shipping) \/ UNCHANGED deployed
    /\ shipping' = Tail(shipping)
    /\ button' = (Has(draft) # {})
    /\ UNCHANGED <<panel, draft, statics, selected, label, doc, reading, gone, starts, wanted>>

---------------------------------------------------------------------------
EditorInit ==
    /\ deployed = [f \in Parts |-> IF f \in AtFirst THEN Original ELSE Absent]
    /\ panel = "loading" /\ draft = Nothing /\ statics = Nothing /\ gone = FALSE
    /\ selected = Absent /\ label = Absent /\ doc = Absent /\ reading = Absent
    /\ shipping = <<>> /\ button = FALSE /\ starts = 0 /\ wanted = deployed

EditorNext ==
    \/ LoadCurrent \/ LoadFails \/ SourceRead \/ ClickDeploy \/ DeployEnds
    \/ \E f \in Files : OpenDraft(f) \/ OpenEntry(f) \/ RemoveEntry(f)
    \/ \E f \in Files, text \in Texts : CreateDraft(f, text)
    \/ \E text \in Texts : Type(text)

EditorSpec == EditorInit /\ [][EditorNext]_editorVars

---------------------------------------------------------------------------
(* Properties. *)

\* "Live-write the edit into the draft; Deploy ships the whole map" and
\* "Explicit removal - the ONLY way a file leaves the next deploy (nothing is
\* dropped implicitly)" (pages/instance.js): a deploy ships exactly what the
\* user last typed into, created, left alone or removed.
ShipsTheWanted == [][ClickDeploy => Bundle = wanted]_editorVars

\* One deploy at a time: two that stage into the one workspace of the tenant
\* mix (the button is disabled while a deploy runs).
OneDeploy == Len(shipping) <= 1
===========================================================================
