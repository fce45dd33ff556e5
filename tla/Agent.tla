-------------------------------- MODULE Agent --------------------------------
(***************************************************************************)
(* The browser agent: the script in the page (rove-agent.js), the handler  *)
(* that thinks for it (agent-sample/agent/index.mjs) and the held socket   *)
(* between them.  The page sends a snapshot, the handler asks the language *)
(* model, the model names one tool call, the page executes it and sends    *)
(* the next snapshot.  The model, the browser and the shim @rewind/browser *)
(* are not of this repository: the model answers anything, but it names an *)
(* element it was shown last.  When a socket drops the held chain ends     *)
(* with it.                                                                *)
(***************************************************************************)
EXTENDS Integers, Sequences, FiniteSets

CONSTANTS
    Elements,       \* what the page may show, by ref
    Danger,         \* those whose name DESTRUCTIVE_RE matches at first
    Options,        \* what page and operator may choose: [ownConfirm, screenshots,
                    \* tokenPath, drops]; drops bounds the sockets that drop
    MaxTranscript,  \* MAX_TRANSCRIPT
    MaxTurns        \* bound: calls of the model

ASSUME DangerAssumption == Danger \subseteq Elements

VARIABLES
    option,         \* the choice made, one of Options
    page,           \* the elements shown now
    danger,         \* the elements whose name DESTRUCTIVE_RE matches now
    link,           \* of the script: "off", "minting", "open", "waiting"
    closed,         \* _closed
    prompts,        \* prompts the user has not answered: [id, ref]
    capturing,      \* is a screenshot being taken?
    sharing,        \* does the script hold the user's screen (_display)?
    up, down,       \* the frames on the wire
    held,           \* is a chain held?
    calls,          \* calls of the model in flight: [id, shows]
    replaying,      \* is a replay log being fetched?
    ctx,            \* request.ctx of the held chain
    msgs,           \* agent/{sid}/msgs
    turns, drops,
    shown,          \* history: the view of the page that the model saw last
    risky,          \* history: the calls of the model that named an element
                    \* which that view names destructive
    sent,           \* history: the messages of the last call of the model
    approved,       \* history: ids of the prompts the user approved
    clicked         \* history: what the page executed, [id, ref]

pageVars == <<page, danger, link, closed, prompts, capturing, sharing, drops, approved, clicked>>
brainVars == <<held, calls, replaying, ctx, msgs, turns, shown, risky, sent>>
agentVars == <<option, pageVars, brainVars, up, down>>

NoAction == [id |-> 0, ref |-> "none"]
NoCtx == [pending |-> FALSE, replay |-> FALSE, asked |-> NoAction,
          refs |-> {}, turn |-> "none"]

-----------------------------------------------------------------------------
(* The script.  The built-in confirm blocks everything else in the page.   *)
Free == option.ownConfirm \/ prompts = {}

(* A view: the refs of a snapshot, and those of them with a name that      *)
(* DESTRUCTIVE_RE matches, which is what the map of refs to names is for.  *)
NoView == [shows |-> {}, warns |-> {}]
Frame(t) == [t |-> t, id |-> 0, ok |-> TRUE, view |-> NoView]
Snapshot == [Frame("snapshot") EXCEPT !.view = [shows |-> page, warns |-> page \cap danger]]

(* The chain ends, and what it waited for is dropped.                      *)
Released == held' = FALSE /\ calls' = {} /\ replaying' = FALSE

(* _connect; the token is awaited.                                         *)
Connect ==
    /\ Free /\ ~closed /\ link \in {"off", "waiting"}
    /\ IF option.tokenPath THEN link' = "minting" /\ UNCHANGED up
       ELSE link' = "open" /\ up' = <<Frame("hello"), Snapshot>>
    /\ Released
    /\ down' = <<>>
    /\ UNCHANGED <<page, danger, closed, prompts, capturing, sharing, drops, approved, clicked, ctx, msgs, turns, shown, risky, sent>>

TokenMinted ==
    /\ Free /\ link = "minting"
    /\ link' = "open" /\ up' = <<Frame("hello"), Snapshot>>
    /\ UNCHANGED <<page, danger, closed, prompts, capturing, sharing, drops, approved, clicked, down, brainVars>>

(* onclose and _scheduleReconnect; the handler's onDisconnect ends it.     *)
SocketDrops ==
    /\ link = "open" /\ drops < option.drops
    /\ drops' = drops + 1
    /\ link' = "waiting"
    /\ Released /\ up' = <<>> /\ down' = <<>>
    /\ UNCHANGED <<page, danger, closed, prompts, capturing, sharing, approved, clicked, ctx, msgs, turns, shown, risky, sent>>

(* stop.                                                                   *)
Stop ==
    /\ Free /\ ~closed /\ link # "off"
    /\ closed' = TRUE
    /\ link' = IF link = "minting" THEN link ELSE "off"
    /\ Released /\ up' = <<>> /\ down' = <<>>
    /\ sharing' = FALSE
    /\ UNCHANGED <<page, danger, prompts, capturing, drops, approved, clicked, ctx, msgs, turns, shown, risky, sent>>

Sends(frames) == up' = IF link = "open" THEN up \o frames ELSE up

(* _onFrame: _onAct, _onScreenshot, _onConfirm; a click may change what    *)
(* the page shows before the snapshot is taken.                            *)
OnFrame ==
    /\ Free /\ link = "open" /\ down # <<>>
    /\ down' = Tail(down)
    /\ LET msg == Head(down) IN
         \/ /\ msg.t = "snapshot"
            /\ Sends(<<Frame("result"), Snapshot>>)
            /\ UNCHANGED <<prompts, capturing, clicked>>
         \/ /\ msg.t = "click"
            /\ clicked' = IF msg.ref \in page THEN clicked \cup {[id |-> msg.id, ref |-> msg.ref]}
                          ELSE clicked
            /\ Sends(<<Frame("result"), Snapshot>>)
            /\ UNCHANGED <<prompts, capturing>>
         \/ /\ msg.t = "screenshot"
            /\ capturing' = TRUE
            /\ UNCHANGED <<prompts, clicked, up>>
         \/ /\ msg.t = "confirm"
            /\ prompts' = prompts \cup {[id |-> msg.id, ref |-> msg.ref]}
            /\ UNCHANGED <<capturing, clicked, up>>
    /\ UNCHANGED <<page, danger, link, closed, sharing, drops, approved, brainVars>>

Captured ==
    /\ Free /\ capturing
    /\ capturing' = FALSE /\ sharing' = TRUE
    /\ Sends(<<Frame("screenshot")>>)
    /\ UNCHANGED <<page, danger, link, closed, prompts, drops, approved, clicked, down, brainVars>>

UserAnswers(prompt, yes) ==
    /\ prompts' = prompts \ {prompt}
    /\ approved' = IF yes THEN approved \cup {prompt.id} ELSE approved
    /\ Sends(<<[Frame("confirm_result") EXCEPT !.id = prompt.id, !.ok = yes]>>)
    /\ UNCHANGED <<page, danger, link, closed, capturing, sharing, drops, clicked, down, brainVars>>

PageChanges(e) ==
    /\ Free
    /\ page' = IF e \in page THEN page \ {e} ELSE page \cup {e}
    /\ UNCHANGED <<danger, link, closed, prompts, capturing, sharing, drops, approved, clicked, up, down, brainVars>>

(* An element keeps its ref (REF_ATTR) while its name changes.             *)
Relabels(e) ==
    /\ Free
    /\ danger' = IF e \in danger THEN danger \ {e} ELSE danger \cup {e}
    /\ UNCHANGED <<page, link, closed, prompts, capturing, sharing, drops, approved, clicked, up, down, brainVars>>

-----------------------------------------------------------------------------
(* The handler.  trim: from the bound on to the next plain user turn.      *)
Trim(seq) ==
    IF Len(seq) <= MaxTranscript THEN seq
    ELSE LET from == Len(seq) - MaxTranscript + 1
             plain == {i \in from .. Len(seq) : seq[i] = "plain"}
         IN IF plain = {} THEN <<>>
            ELSE SubSeq(seq, CHOOSE i \in plain : \A j \in plain : i <= j, Len(seq))

Act(t, id, ref) == down' = Append(down, [t |-> t, id |-> id, ref |-> ref])

(* callLLM: nothing is written, the user turn rides in the ctx.            *)
CallLLM(turn, refs, view) ==
    /\ turns < MaxTurns
    /\ turns' = turns + 1
    /\ sent' = Append(msgs, turn)
    /\ calls' = calls \cup {[id |-> turns + 1, shows |-> view.shows]}
    /\ shown' = view
    /\ held' = TRUE
    /\ ctx' = [NoCtx EXCEPT !.turn = turn, !.refs = refs]

(* think: what the model asked for last is answered by this turn.  The     *)
(* snapshot that a pending getReplay bounced through is not looked at.     *)
Think(view) ==
    /\ IF ctx.replay
       THEN \/ /\ replaying' = TRUE
               /\ ctx' = [NoCtx EXCEPT !.replay = TRUE, !.refs = ctx.refs]
               /\ UNCHANGED <<held, calls, turns, shown, sent>>
            \/ CallLLM("result", ctx.refs, shown) /\ UNCHANGED replaying
       ELSE /\ CallLLM(IF ctx.pending THEN "result" ELSE "plain", view.warns, view)
            /\ UNCHANGED replaying
    /\ UNCHANGED <<msgs, risky, down>>

Hello ==
    /\ msgs' = <<>>
    /\ ctx' = NoCtx /\ held' = TRUE
    /\ UNCHANGED <<calls, replaying, turns, shown, risky, sent, down>>

Forgetful(refs) == {}          \* mutant: refs are not carried over a bounce
Carried(refs) == refs

(* onShot: the pixels wait in the ctx for the next snapshot, and so does   *)
(* the answer to the tool call that asked for them.                        *)
Answered == FALSE              \* mutant: the pixels count as the answer
StillPending == ctx.pending

OnShot ==
    /\ Act("snapshot", 0, "none")
    /\ ctx' = [NoCtx EXCEPT !.pending = StillPending, !.refs = Carried(ctx.refs)]
    /\ UNCHANGED <<held, calls, replaying, msgs, turns, shown, risky, sent>>

(* confirm_result: no look at which prompt it answers.                     *)
ConfirmResult(ok) ==
    /\ IF ok /\ ctx.asked # NoAction THEN Act("click", ctx.asked.id, ctx.asked.ref)
       ELSE Act("snapshot", 0, "none")
    /\ ctx' = [NoCtx EXCEPT !.pending = ctx.asked # NoAction]
    /\ UNCHANGED <<held, calls, replaying, msgs, turns, shown, risky, sent>>

OnMessage ==
    /\ up # <<>>
    /\ up' = Tail(up)
    /\ LET frame == Head(up) IN
         \/ frame.t = "hello" /\ Hello
         \/ frame.t = "snapshot" /\ Think(frame.view)
         \/ frame.t = "screenshot" /\ OnShot
         \/ frame.t = "confirm_result" /\ ConfirmResult(frame.ok)
         \/ frame.t = "result" /\ UNCHANGED <<brainVars, down>>
    /\ UNCHANGED pageVars

OnReplay ==
    /\ replaying
    /\ replaying' = FALSE
    /\ CallLLM("result", Carried(ctx.refs), shown)
    /\ UNCHANGED <<msgs, risky, up, down, pageVars>>

(* onLLM: the model failed, is done, or named one tool call, on an element *)
(* that its own call had shown it.                                         *)
Persist(answer) ==
    msgs' = Trim((IF ctx.turn = "none" THEN msgs ELSE Append(msgs, ctx.turn)) \o <<answer>>)

LLMFails == ctx' = NoCtx /\ UNCHANGED <<msgs, risky, down>>
LLMDone == ctx' = NoCtx /\ Persist("text") /\ UNCHANGED <<risky, down>>

(* The names are those of the snapshot, not of the page as it is now.      *)
Gated(ref) == ref \in ctx.refs

ToolCall(id, t, ref) ==
    /\ Persist("use")
    /\ risky' = IF ref \in shown.warns THEN risky \cup {id} ELSE risky
    /\ \/ /\ t = "getReplay"
          /\ Act("snapshot", id, "none")
          /\ ctx' = [NoCtx EXCEPT !.replay = TRUE, !.refs = Carried(ctx.refs)]
       \/ /\ t # "getReplay" /\ Gated(ref)
          /\ Act("confirm", id, ref)
          /\ ctx' = [NoCtx EXCEPT !.asked = [id |-> id, ref |-> ref]]
       \/ /\ t # "getReplay" /\ ~Gated(ref)
          /\ Act(t, id, ref)
          /\ ctx' = [NoCtx EXCEPT !.pending = TRUE, !.refs = ctx.refs]

OnLLM(call) ==
    /\ calls' = calls \ {call}
    /\ \/ LLMFails
       \/ LLMDone
       \/ ToolCall(call.id, "getReplay", "none")
       \/ option.screenshots /\ ToolCall(call.id, "screenshot", "none")
       \/ \E ref \in call.shows : ToolCall(call.id, "click", ref)
    /\ UNCHANGED <<held, replaying, turns, shown, sent, up, pageVars>>

AgentInit ==
    /\ option \in Options
    /\ page = Elements /\ danger = Danger /\ link = "off" /\ closed = FALSE
    /\ prompts = {} /\ capturing = FALSE /\ up = <<>> /\ down = <<>>
    /\ held = FALSE /\ calls = {} /\ replaying = FALSE /\ sharing = FALSE /\ ctx = NoCtx /\ msgs = <<>>
    /\ turns = 0 /\ drops = 0 /\ shown = NoView /\ risky = {} /\ sent = <<>>
    /\ approved = {} /\ clicked = {}

AgentNext ==
    /\ \/ Connect \/ TokenMinted \/ SocketDrops \/ Stop \/ OnFrame \/ Captured
       \/ \E prompt \in prompts, yes \in BOOLEAN : UserAnswers(prompt, yes)
       \/ \E e \in Elements : PageChanges(e) \/ Relabels(e)
       \/ OnMessage \/ OnReplay
       \/ \E call \in calls : OnLLM(call)
    /\ UNCHANGED option

AgentSpec == AgentInit /\ [][AgentNext]_agentVars

-----------------------------------------------------------------------------
(* An action on an element that had a destructive name when the model      *)
(* chose it, in the view that the model was shown last, is executed only   *)
(* after the user approved that very action, whatever the page shows,      *)
(* hides or re-labels while the model thinks and the user decides.         *)
ConfirmedFirst == \A c \in clicked : c.id \in risky => c.id \in approved

(* "Policy gate: confirm before acting on a destructive-looking element"   *)
(* (onLLM), of the element as it looks when the page acts on it.           *)
PolicyGate == [][\A c \in clicked' \ clicked : c.ref \in danger => c.id \in approved]_agentVars

(* The comment at stop: "stop the agent, drop the socket ... Idempotent    *)
(* and final".                                                             *)
StopIsFinal == closed => link # "open" /\ ~sharing

(* The comments at trim and in think: the turn after a tool_use leads with *)
(* its tool_result, and no tool_result is without its tool_use.            *)
Paired(seq) ==
    \A i \in DOMAIN seq :
        /\ seq[i] = "use" /\ i < Len(seq) => seq[i + 1] = "result"
        /\ seq[i] = "result" => i > 1 /\ seq[i - 1] = "use"
CallsArePaired == Paired(sent)
=============================================================================
