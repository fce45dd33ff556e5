------------------------------- MODULE MCApps -------------------------------
(***************************************************************************)
(* The applications beside and on top of the admin one: the memberships of  *)
(* an account, the identity provider's login links, the package registry,   *)
(* the agent of a page with its handler, and the browser client of a        *)
(* channel.  They share no state, so each behaviour exercises one of them,  *)
(* its subject, while the others rest.                                      *)
(***************************************************************************)
EXTENDS Teams, Login, Registry, Agent, Channel

PlainVersions == {[n |-> n, zeros |-> FALSE] : n \in {<<0, 1, 0>>, <<0, 2, 0>>, <<1, 0, 0>>}}
SomeRanges == {[op |-> "*", parts |-> <<>>], [op |-> "^", parts |-> <<0, 1>>]}
Caps == [f \in {"plain", "store", "sys"} |-> IF f = "store" THEN {"kv"} ELSE {}]

Choice(own, shots, token, n) ==
    [ownConfirm |-> own, screenshots |-> shots, tokenPath |-> token, drops |-> n]
SomeChoices == {Choice(FALSE, FALSE, FALSE, 1), Choice(TRUE, TRUE, TRUE, 0)}

VARIABLE subject

appsVars == <<subject, vars, loginVars, registryVars, agentVars, channelVars>>

AppsInit ==
    /\ subject \in {"teams", "login", "registry", "agent", "channel"}
    /\ Init /\ RegistryInit /\ ChannelInit
    /\ LoginInit /\ (subject # "login" => mailing)
    /\ AgentInit /\ (subject # "agent" => option = CHOOSE o \in Options : TRUE)

AppsNext ==
    /\ UNCHANGED subject
    /\ \/ subject = "teams" /\ Next /\ UNCHANGED <<loginVars, registryVars, agentVars, channelVars>>
       \/ subject = "login" /\ LoginNext /\ UNCHANGED <<vars, registryVars, agentVars, channelVars>>
       \/ subject = "registry" /\ RegistryNext /\ UNCHANGED <<vars, loginVars, agentVars, channelVars>>
       \/ subject = "agent" /\ AgentNext /\ UNCHANGED <<vars, loginVars, registryVars, channelVars>>
       \/ subject = "channel" /\ ChannelNext /\ UNCHANGED <<vars, loginVars, registryVars, agentVars>>

AppsSpec == AppsInit /\ [][AppsNext]_appsVars
=============================================================================
