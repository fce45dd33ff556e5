------------------------------- MODULE Teams -------------------------------
(***************************************************************************)
(* Accounts, members and invites of the dashboard (admin/index.mjs, "Team  *)
(* account model").  Every handler here is one activation, so one step;    *)
(* what makes it hard is that the same fact is kept in several rows        *)
(* (member row, reverse index, e-mail row; invite by token, pending row by *)
(* invitee) that a dozen handlers write by hand, and that invites live for *)
(* days while the membership under them changes.                           *)
(*                                                                         *)
(* A user is the hash of an e-mail address; the personal account of a user *)
(* has that hash as its id.  The deletion job of an account is one step    *)
(* here, Erase, some time after the request; AccountDeletion opens it up.  *)
(***************************************************************************)
EXTENDS Naturals, FiniteSets

CONSTANTS
    Users,
    TeamIds,        \* ids createAccount may mint
    Tokens,         \* hashes of invite tokens inviteMember may mint
    None,           \* no row
    TeamLimit,      \* max_team_accounts of a plan
    OperatorActs    \* operators (is_root) use the owner routes too

Accounts == Users \cup TeamIds
Roles    == {"owner", "member"}

ASSUME TeamsAssumption ==
    /\ Users \cap TeamIds = {}
    /\ None \notin Tokens \cup Roles \cup [aid : Accounts, user : Users]
    /\ TeamLimit \in Nat /\ OperatorActs \in BOOLEAN

VARIABLES
    members,    \* account/{aid}/members/{h}: a role, or None
    index,      \* user/{h}/accounts/{aid}: a role, or None
    emails,     \* account/{aid}/email/{h}
    pending,    \* account/{aid}/pending/{h}: the token of its invite, or None
    invite,     \* invite/{tokenHash}: account and invitee, or None
    minted,     \* team ids and tokens drawn so far; randomness never repeats
    expired,    \* tokens whose exp_ms has passed
    deletion    \* the tombstone acctdel/{aid}: "none", "running", "done"

vars == <<members, index, emails, pending, invite, minted, expired, deletion>>
rows == <<members, index, emails>>

Active(a, u) == members[a][u] # None
Owner(a, u)  == members[a][u] = "owner"

(* A frozen job is "running" here: both are the tombstone.                 *)
IsDeleting(a) == deletion[a] = "running"

(* ownerCount(aid) <= 1, for an account whose owner u is one of them.      *)
LastOwnerOffByOne(a, u) == ~ \E v \in Users : Owner(a, v)     \* mutant: ownerCount < 1
LastOwner(a, u) == ~ \E v \in Users \ {u} : Owner(a, v)

(* The accountOwner route class: some owner of a calls, or an operator.    *)
(* What an operator does, it does to accounts there are.                   *)
OwnerRouteOpen(a) == a \in Accounts                  \* mutant: the role is not looked at
OwnerRoute(a) ==
    \/ \E c \in Users : Owner(a, c)
    \/ OperatorActs /\ \E c \in Users : Active(a, c)

(* isPersonalAccount: the member row keyed by the account id itself.       *)
IsPersonalAlone(a) ==                                \* mutant: "nobody else is in it"
    a \in Users /\ Owner(a, a) /\ \A v \in Users \ {a} : ~Active(a, v)
IsPersonal(a) == a \in Users /\ Owner(a, a)

(* The three rows of a membership, written and dropped together.           *)
SetMember(a, u, role) ==
    /\ members' = [members EXCEPT ![a][u] = role]
    /\ index'   = [index EXCEPT ![u][a] = role]
    /\ emails'  = [emails EXCEPT ![a] = @ \cup {u}]

DropMemberKeepsIndex(a, u) ==           \* mutant: the reverse index is forgotten
    /\ members' = [members EXCEPT ![a][u] = None]
    /\ emails'  = [emails EXCEPT ![a] = @ \ {u}]
    /\ UNCHANGED index
DropMemberSoft(a, u) ==                 \* mutant: the row is marked, not deleted
    /\ members' = [members EXCEPT ![a][u] = "removed"]
    /\ index'   = [index EXCEPT ![u][a] = None]
    /\ emails'  = [emails EXCEPT ![a] = @ \ {u}]
DropMember(a, u) ==
    /\ members' = [members EXCEPT ![a][u] = None]
    /\ index'   = [index EXCEPT ![u][a] = None]
    /\ emails'  = [emails EXCEPT ![a] = @ \ {u}]

-----------------------------------------------------------------------------
(* backfillSelf: any session of u materialises its personal account.       *)
BackfillSelf(u) ==
    /\ ~IsDeleting(u) /\ ~Active(u, u)
    /\ SetMember(u, u, "owner")
    /\ UNCHANGED <<pending, invite, minted, expired, deletion>>

(* createAccount: a team with a fresh id and its first owner, within the   *)
(* allowance of the caller's own plan; backfillSelf runs first.            *)
OwnedTeams(u) == {a \in Accounts \ {u} : index[u][a] # None /\ Owner(a, u)}

CreateAccount(u, a) ==
    /\ a \in TeamIds \ minted
    /\ ~IsDeleting(u)
    /\ OperatorActs \/ Cardinality(OwnedTeams(u)) < TeamLimit
    /\ LET own == IF Active(u, u) THEN members[u][u] ELSE "owner"
       IN  /\ members' = [members EXCEPT ![u][u] = own, ![a][u] = "owner"]
           /\ index' = [index EXCEPT ![u][u] = IF Active(u, u) THEN @ ELSE own,
                                     ![u][a] = "owner"]
           /\ emails' = [emails EXCEPT ![u] = IF Active(u, u) THEN @ ELSE @ \cup {u},
                                       ![a] = @ \cup {u}]
    /\ minted' = minted \cup {a}
    /\ UNCHANGED <<pending, invite, expired, deletion>>

(* inviteMember: a fresh token; a prior invite of the same address dies.   *)
InvitableAnyone(a, u) == OwnerRoute(a)               \* mutant: members are invited too
Invitable(a, u) == OwnerRoute(a) /\ ~Active(a, u)

InviteMember(a, u, tok) ==
    /\ Invitable(a, u)
    /\ tok \in Tokens \ minted
    /\ minted' = minted \cup {tok}
    /\ invite' = [t \in Tokens |-> IF t = tok THEN [aid |-> a, user |-> u]
                                   ELSE IF t = pending[a][u] THEN None
                                   ELSE invite[t]]
    /\ pending' = [pending EXCEPT ![a][u] = tok]
    /\ UNCHANGED <<members, index, emails, expired, deletion>>

(* Seven days pass over an invite.                                         *)
Expire(tok) ==
    /\ invite[tok] # None /\ tok \notin expired
    /\ expired' = expired \cup {tok}
    /\ UNCHANGED <<members, index, emails, pending, invite, minted, deletion>>

(* acceptInvite, by the invited user with the token of the invite.         *)
HonouredForever(u, tok) == invite[tok].user = u      \* mutant: exp_ms is not looked at
Honoured(u, tok) == invite[tok].user = u /\ tok \notin expired

AcceptInvite(u, tok) ==
    /\ invite[tok] # None
    /\ LET a == invite[tok].aid
       IN  /\ Honoured(u, tok)
           /\ ~IsDeleting(u) /\ ~IsDeleting(a)
           /\ SetMember(a, u, "member")
           /\ invite' = [invite EXCEPT ![tok] = None]
           /\ pending' = [pending EXCEPT ![a][u] = None]
    /\ UNCHANGED <<minted, expired, deletion>>

RevokeInvite(a, u) ==
    /\ OwnerRoute(a)
    /\ pending[a][u] # None
    /\ invite' = [invite EXCEPT ![pending[a][u]] = None]
    /\ pending' = [pending EXCEPT ![a][u] = None]
    /\ UNCHANGED <<members, index, emails, minted, expired, deletion>>

SetMemberRole(a, u, role) ==
    /\ OwnerRoute(a) /\ ~IsPersonal(a)
    /\ Active(a, u)
    /\ Owner(a, u) /\ role = "member" => ~LastOwner(a, u)
    /\ members' = [members EXCEPT ![a][u] = role]
    /\ index' = [index EXCEPT ![u][a] = role]
    /\ UNCHANGED <<emails, pending, invite, minted, expired, deletion>>

RemoveMember(a, u) ==
    /\ OwnerRoute(a)
    /\ Active(a, u)
    /\ Owner(a, u) => ~LastOwner(a, u)
    /\ DropMember(a, u)
    /\ UNCHANGED <<pending, invite, minted, expired, deletion>>

(* leaveAccount, by u itself; a personal account is never left.            *)
LeaveAccount(a, u) ==
    /\ a # u
    /\ Active(a, u)
    /\ Owner(a, u) => ~LastOwner(a, u)
    /\ DropMember(a, u)
    /\ UNCHANGED <<pending, invite, minted, expired, deletion>>

-----------------------------------------------------------------------------
(* accountsForUser: the reverse index, the personal account always in it.  *)
AccountsOwned(u) == {a \in Accounts : index[u][a] = "owner"} \cup {u}   \* mutant: owned only
AccountsForUser(u) == {a \in Accounts : index[u][a] # None} \cup {u}

(* soleOwnerTeams blocks the deletion of a personal account: deleting a    *)
(* team destroys what belongs to others.                                   *)
SoleOwnerTeams(u) ==
    {a \in AccountsForUser(u) \ {u} : Owner(a, u) /\ LastOwner(a, u)}

(* requestAccountDeletion: u leaves every team now, then its own account   *)
(* is the job's.  Its backfillSelf materialises the account first.         *)
RequestAccountDeletion(u) ==
    /\ ~IsDeleting(u)
    /\ SoleOwnerTeams(u) = {}
    /\ LET left == AccountsForUser(u) \ {u}
       IN  /\ members' = [a \in Accounts |->
                            IF a \in left THEN [members[a] EXCEPT ![u] = None]
                            ELSE IF a = u /\ members[a][u] = None
                                 THEN [members[a] EXCEPT ![u] = "owner"]
                            ELSE members[a]]
           /\ index' = [index EXCEPT ![u] = [a \in Accounts |->
                            IF a \in left THEN None
                            ELSE IF a = u /\ members[u][u] = None THEN "owner"
                            ELSE index[u][a]]]
           /\ emails' = [a \in Accounts |->
                            IF a \in left THEN emails[a] \ {u}
                            ELSE IF a = u /\ members[u][u] = None THEN emails[a] \cup {u}
                            ELSE emails[a]]
    /\ deletion' = [deletion EXCEPT ![u] = "running"]
    /\ UNCHANGED <<pending, invite, minted, expired>>

(* deleteTeamAccount: owner-only, for a team that is there.                *)
DeleteTeamAccount(a) ==
    /\ OwnerRoute(a) /\ ~IsPersonal(a)
    /\ a \in TeamIds
    /\ ~IsDeleting(a)
    /\ deletion' = [deletion EXCEPT ![a] = "running"]
    /\ UNCHANGED <<rows, pending, invite, minted, expired>>

(* The rows phase of the job: account/{aid}/* goes, and with every row its *)
(* reverse index: the members' user/{h}/accounts/{aid}, and the global     *)
(* invite of every pending row.                                            *)
EraseKeepsInvites(a) == invite          \* mutant: the global invites survive
InvitesAfterErase(a) ==
    [t \in Tokens |-> IF \E u \in Users : pending[a][u] = t THEN None ELSE invite[t]]

Erase(a) ==
    /\ IsDeleting(a)
    /\ members' = [members EXCEPT ![a] = [u \in Users |-> None]]
    /\ index' = [u \in Users |-> IF members[a][u] # None
                                 THEN [index[u] EXCEPT ![a] = None] ELSE index[u]]
    /\ emails' = [emails EXCEPT ![a] = {}]
    /\ invite' = InvitesAfterErase(a)
    /\ pending' = [pending EXCEPT ![a] = [u \in Users |-> None]]
    /\ deletion' = [deletion EXCEPT ![a] = "done"]
    /\ UNCHANGED <<minted, expired>>

-----------------------------------------------------------------------------
Init ==
    /\ members  = [a \in Accounts |-> [u \in Users |-> None]]
    /\ index    = [u \in Users |-> [a \in Accounts |-> None]]
    /\ emails   = [a \in Accounts |-> {}]
    /\ pending  = [a \in Accounts |-> [u \in Users |-> None]]
    /\ invite   = [t \in Tokens |-> None]
    /\ minted   = {} /\ expired = {}
    /\ deletion = [a \in Accounts |-> "none"]

Next ==
    \/ \E u \in Users : BackfillSelf(u) \/ RequestAccountDeletion(u)
    \/ \E u \in Users, a \in TeamIds : CreateAccount(u, a)
    \/ \E u \in Users, tok \in Tokens : AcceptInvite(u, tok)
    \/ \E tok \in Tokens : Expire(tok)
    \/ \E a \in Accounts : DeleteTeamAccount(a) \/ Erase(a)
    \/ \E a \in Accounts, u \in Users :
          \/ RevokeInvite(a, u) \/ RemoveMember(a, u) \/ LeaveAccount(a, u)
          \/ \E tok \in Tokens : InviteMember(a, u, tok)
          \/ \E role \in Roles : SetMemberRole(a, u, role)

Spec == Init /\ [][Next]_vars
-----------------------------------------------------------------------------
TypeOK ==
    /\ members  \in [Accounts -> [Users -> Roles \cup {None}]]
    /\ index    \in [Users -> [Accounts -> Roles \cup {None}]]
    /\ emails   \in [Accounts -> SUBSET Users]
    /\ pending  \in [Accounts -> [Users -> Tokens \cup {None}]]
    /\ invite   \in [Tokens -> [aid : Accounts, user : Users] \cup {None}]
    /\ minted   \subseteq TeamIds \cup Tokens
    /\ expired  \subseteq Tokens
    /\ deletion \in [Accounts -> {"none", "running", "done"}]

(* The three rows of a membership always agree: every authorization reads  *)
(* the member row, every listing and deletion the reverse index.           *)
RowsAgree ==
    \A a \in Accounts, u \in Users :
        /\ index[u][a] = members[a][u]
        /\ u \in emails[a] <=> Active(a, u)

(* A pending row names a live invite to just that person for just that     *)
(* account, and every live invite is some pending row's: so an owner can   *)
(* see and revoke every token that would still be honoured.                *)
InvitesAgree ==
    /\ \A a \in Accounts, u \in Users : pending[a][u] # None =>
           invite[pending[a][u]] = [aid |-> a, user |-> u]
    /\ \A t \in Tokens : invite[t] # None =>
           pending[invite[t].aid][invite[t].user] = t

(* Nobody holds an invite to an account they are in: acceptInvite writes   *)
(* "member" over whatever role is there, and would demote an owner.        *)
NoInvitedMember ==
    \A a \in Accounts, u \in Users : pending[a][u] # None => ~Active(a, u)

(* An account with members has an owner, whatever promotions, removals,    *)
(* departures and personal deletions happened to it.                       *)
SomeoneOwns ==
    \A a \in Accounts : (\E u \in Users : Active(a, u)) => \E u \in Users : Owner(a, u)

(* From the request of its deletion until it is done, a user is in no      *)
(* account but its own: the job only ever touches that account's rows.     *)
LeaverIsOut ==
    \A u \in Users : IsDeleting(u) => \A a \in Accounts \ {u} : ~Active(a, u)

(* Only an invitee joins an account there is, and only through the token   *)
(* last minted for them: one superseded or revoked admits nobody.          *)
JoinStep == \A a \in Accounts, u \in Users :
    /\ \E c \in Users : Active(a, c)
    /\ ~Active(a, u) /\ Active(a, u)'
    => /\ pending[a][u] # None /\ pending[a][u] \notin expired
       /\ invite'[pending[a][u]] = None

JoinsByInvite == [][JoinStep]_vars

(* A personal account belongs to its user: whoever is in it, the user is   *)
(* its owner and nobody else is.                                           *)
PersonalOwned ==
    \A u \in Users : (\E v \in Users : Active(u, v)) =>
        Owner(u, u) /\ \A v \in Users \ {u} : ~Owner(u, v)

-----------------------------------------------------------------------------
(* The inductive invariant.  Beside the properties it needs that nobody is *)
(* invited to an account that is not there (backfillSelf could otherwise   *)
(* make an invitee the owner), and that what exists was minted before.     *)
InvitedToSomething ==
    \A a \in Accounts : (\E u \in Users : pending[a][u] # None) =>
        \E u \in Users : Active(a, u)

MintedFirst ==
    /\ \A t \in Tokens : invite[t] # None => t \in minted
    /\ \A a \in TeamIds, u \in Users : Active(a, u) => a \in minted

IInv == /\ TypeOK /\ RowsAgree /\ InvitesAgree /\ NoInvitedMember /\ SomeoneOwns
        /\ LeaverIsOut /\ PersonalOwned /\ InvitedToSomething /\ MintedFirst
=============================================================================
