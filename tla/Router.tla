------------------------------- MODULE Router -------------------------------
(***************************************************************************)
(* The surface of the dashboard: _middlewares/index.mjs (before), the      *)
(* table of routes of admin/index.mjs with its gate (matchRoute,           *)
(* routeAuthz), and the gates that handlers keep themselves: the deploy    *)
(* ops, the history, log, source and control-plane doors and the streamed  *)
(* upload.  One request runs through all of them.  The tenant "t1" belongs *)
(* to the account "a1".                                                    *)
(***************************************************************************)
EXTENDS Integers, Sequences, FiniteSets

CONSTANTS
    Fillers             \* what a request may have where a route has a parameter

(* A caller and what he has: no session, the root token of the platform,   *)
(* or a session and a role in the account.                                 *)
Callers == {"anonymous", "root token", "operator", "owner", "member", "invitee", "stranger"}

VARIABLES
    asked,      \* the request: method, path, who
    auth,       \* request.auth: sub, is_root
    outcome     \* "", "handled" or a refusal

routerVars == <<asked, auth, outcome>>

-----------------------------------------------------------------------------
(* ROUTES: method and pattern, with the class of its gate and what its     *)
(* handler touches.                                                        *)
Rows(cls, touches, rows) ==
    {[method |-> r[1], pattern |-> r[2], cls |-> cls, touches |-> touches] : r \in rows}

Instance == <<"v1", "instances", ":id">>
Account == <<"v1", "accounts", ":aid">>
GET(path) == <<"GET", path>>
POST(path) == <<"POST", path>>
PUT(path) == <<"PUT", path>>
DELETE(path) == <<"DELETE", path>>

Routes ==
    Rows("open", "handshake",
        {GET(<<"v1", "session">>), POST(<<"v1", "logout">>), POST(<<"v1", "cli", "exchange">>),
         POST(<<"v1", "billing", "webhook">>)}
        \cup {GET(<<"_rp", p>>) : p \in {"login", "callback", "poll", "logout"}})
    \cup Rows("authed", "caller",
        {GET(<<"v1", "instances">>), POST(<<"v1", "instances">>), POST(<<"v1", "accounts">>),
         POST(Account \o <<"leave">>), POST(<<"v1", "account", "delete">>),
         GET(<<"v1", "billing", "config">>), POST(<<"v1", "invites", "accept">>)})
    \cup Rows("root", "platform",
        {PUT(Instance), GET(<<"v1", "domains">>), PUT(<<"v1", "domains", ":host">>),
         GET(<<"v1", "deletions">>), POST(<<"v1", "deletions", ":aid", "retry">>),
         POST(<<"v1", "ops", "incarnations", "bind">>)})
    \cup Rows("tenant", "tenant",
        {GET(Instance), DELETE(Instance), POST(Instance \o <<"release">>),
         POST(Instance \o <<"export">>), GET(Instance \o <<"export">>),
         GET(Instance \o <<"export", ":eid">>), GET(Instance \o <<"export", ":eid", "links">>),
         GET(Instance \o <<"usage">>), GET(Instance \o <<"kv">>), PUT(Instance \o <<"kv">>),
         DELETE(Instance \o <<"kv">>)})
    \cup Rows("accountMember", "account",
        {GET(Account \o <<"members">>), GET(Account \o <<"export">>), GET(Account \o <<"billing">>)})
    \cup Rows("accountOwner", "ownership",
        {POST(Account \o <<"invites">>), DELETE(Account \o <<"invites", ":eh">>),
         PUT(Account \o <<"members", ":h">>), DELETE(Account \o <<"members", ":h">>),
         DELETE(Account), GET(Account \o <<"billing", "invoices">>)}
        \cup {POST(Account \o <<"billing", p>>) : p \in {"subscribe", "change", "cancel"}})
    \cup Rows("open", "deploy",
        {POST(<<"v1", "deploy", p>>) : p \in {"reset", "file", "pkgfile", "ref", "cut"}})
    \cup Rows("self", "door",
        {GET(<<"v1", "history", ":id">>), GET(<<"v1", "logs", "*">>), GET(<<"v1", "sources", "*">>),
         GET(<<"v1", "source", ":id", ":dep">>)})
    \cup Rows("self", "platform", {POST(<<"v1", "cp", ":op">>), GET(<<"v1", "cp", ":op">>)})

Parameters == {":id", ":aid", ":eid", ":eh", ":h", ":host", ":dep", ":op"}

(* matchRoute: the first row that fits; its parameters are the segments.   *)
RouteFits(route, request) ==
    LET pat == route.pattern
        wild == Len(pat) > 0 /\ pat[Len(pat)] = "*"
        fixed == IF wild THEN Len(pat) - 1 ELSE Len(pat)
    IN /\ route.method = request.method
       /\ IF wild THEN Len(request.path) >= fixed ELSE Len(request.path) = fixed
       /\ \A i \in 1 .. fixed : pat[i] \in Parameters \/ pat[i] = request.path[i]

MatchRoute(request) == {route \in Routes : RouteFits(route, request)}

(* The tenant or account that a matched route names.                       *)
Named(route, request) ==
    LET at == {i \in DOMAIN route.pattern : route.pattern[i] \in {":id", ":aid", "*"}} IN
    IF at = {} THEN "none" ELSE
    LET i == CHOOSE i \in at : TRUE IN
    IF i \in DOMAIN request.path THEN request.path[i] ELSE "none"

-----------------------------------------------------------------------------
(* roleInAccount, isActiveMember and canAccess for this one account.       *)
RoleIn(account, sub) == IF account = "a1" /\ sub \in {"owner", "member"} THEN sub ELSE "none"
Admits(role) == role \in {"owner", "member"}
HasAccess(sub, tenant) == tenant = "t1" /\ Admits(RoleIn("a1", sub))

NoAuth == [sub |-> "none", is_root |-> FALSE]

(* _middlewares: paths that need no session, paths that the root token     *)
(* opens, and the session of everybody else.                               *)
PreAuth(path) ==
    path \in {<<"_rp", p>> : p \in {"login", "callback", "poll", "logout"}}
             \cup {<<"v1", "logout">>, <<"v1", "cli", "exchange">>, <<"v1", "upload">>,
                   <<"v1", "billing", "webhook">>}

IsM2M(path) ==
    \/ path \in {<<"v1", "deploy", p>> : p \in {"reset", "file", "pkgfile", "cut"}}
    \/ Len(path) > 2 /\ path[1] = "v1" /\ path[2] \in {"cp", "instances", "domains", "sources", "source"}

Session(who) == [sub |-> who, is_root |-> who = "operator"]

Before ==
    /\ outcome = ""
    /\ \/ /\ PreAuth(asked.path)
          /\ auth' = NoAuth /\ outcome' = "passed"
       \/ /\ ~PreAuth(asked.path) /\ asked.who = "root token" /\ IsM2M(asked.path)
          /\ auth' = [sub |-> "none", is_root |-> TRUE] /\ outcome' = "passed"
       \/ /\ ~PreAuth(asked.path) /\ asked.who \notin {"root token", "anonymous"}
          /\ auth' = Session(asked.who) /\ outcome' = "passed"
       \/ /\ ~PreAuth(asked.path)
          /\ asked.who = "anonymous" \/ (asked.who = "root token" /\ ~IsM2M(asked.path))
          /\ auth' = NoAuth /\ outcome' = "401"
    /\ UNCHANGED asked

(* routeAuthz.                                                             *)
AnyRole(role) == role # "none"      \* mutant: a member manages the account
IsOwner(role) == role = "owner"

RouteAuthz(route, name) ==
    \/ auth.is_root
    \/ route.cls \in {"open", "self"}
    \/ /\ auth.sub # "none"
       /\ \/ route.cls = "authed"
          \/ route.cls = "tenant" /\ HasAccess(auth.sub, name)
          \/ route.cls = "accountOwner" /\ IsOwner(RoleIn(name, auth.sub))
          \/ route.cls = "accountMember" /\ Admits(RoleIn(name, auth.sub))

(* deployGate, handleHistory, handleLogQuery, handleReadSources,           *)
(* handleCpOp, publishRelease; a deploy op names the tenant in its body.   *)
OwnGate(route, name) ==
    /\ route.touches = "deploy" => auth.is_root \/ HasAccess(auth.sub, "t1")
    /\ route.touches = "door" => auth.is_root \/ HasAccess(auth.sub, name)
    /\ route.touches = "platform" => auth.is_root
    /\ route.pattern[2] = "history" => auth.sub # "none"
    /\ Len(route.pattern) = 4 /\ route.pattern[4] = "release" => auth.sub # "none"

Dispatched ==
    /\ outcome = "passed"
    /\ \/ /\ MatchRoute(asked) = {} /\ asked.path # <<"v1", "upload">>
          /\ outcome' = "404"
       \/ \E route \in MatchRoute(asked) :
            outcome' = IF RouteAuthz(route, Named(route, asked)) /\ OwnGate(route, Named(route, asked))
                       THEN "handled" ELSE "refused"
    /\ UNCHANGED <<asked, auth>>

(* authFor of the streamed upload: the root token, or a session.           *)
StreamedUpload ==
    /\ outcome = "passed" /\ asked.path = <<"v1", "upload">>
    /\ outcome' = IF asked.who \in {"root token", "operator"} \/ HasAccess(asked.who, "t1")
                  THEN "handled" ELSE "refused"
    /\ UNCHANGED <<asked, auth>>

(* Requests: those that fit a route, with anything for its parameters, and *)
(* some that fit none.                                                     *)
Filled(pattern) ==
    {path \in [1 .. Len(pattern) -> Fillers \cup {pattern[i] : i \in 1 .. Len(pattern)}] :
        \A i \in 1 .. Len(pattern) :
            IF pattern[i] \in Parameters \cup {"*"} THEN path[i] \in Fillers
            ELSE path[i] = pattern[i]}

Requests ==
    {[method |-> r.method, path |-> path, who |-> who] :
        r \in Routes, path \in UNION {Filled(s.pattern) : s \in Routes}, who \in Callers}
    \cup {[method |-> "PUT", path |-> <<"v1", "upload">>, who |-> who] : who \in Callers}

RouterInit == asked \in Requests /\ auth = NoAuth /\ outcome = ""
RouterNext == Before \/ Dispatched \/ StreamedUpload
RouterSpec == RouterInit /\ [][RouterNext]_routerVars

-----------------------------------------------------------------------------
(* A request is handled if and only if it fits one route and its caller    *)
(* may do what that handler touches: the gates in front of the handlers    *)
(* and those inside leave no gap and no caller out.  The root token alone  *)
(* may be refused where it has no business.                                *)
Entitled(who, touches, name) ==
    /\ touches = "caller" => who # "anonymous"
    /\ touches = "platform" => who \in {"operator", "root token"}
    /\ touches \in {"tenant", "door"} =>
         who \in {"operator", "root token"} \/ (name = "t1" /\ who \in {"owner", "member"})
    /\ touches = "deploy" => who \in {"operator", "root token", "owner", "member"}
    /\ touches = "account" =>
         who = "operator" \/ (name = "a1" /\ who \in {"owner", "member"})
    /\ touches = "ownership" => who = "operator" \/ (name = "a1" /\ who = "owner")

EveryRouteIsGated ==
    /\ Cardinality(MatchRoute(asked)) <= 1
    /\ \A route \in MatchRoute(asked) :
         LET may == Entitled(asked.who, route.touches, Named(route, asked)) IN
         /\ outcome = "handled" => may
         /\ outcome \in {"401", "refused", "404"} => ~may \/ asked.who = "root token"
                                                        \/ asked.path = <<"v1", "session">>
=============================================================================
