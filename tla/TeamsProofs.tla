---------------------------- MODULE TeamsProofs ----------------------------
(***************************************************************************)
(* The invariants of Teams, for every set of users, teams and tokens.      *)
(*                                                                         *)
(* IInv is inductive.  Its parts hold each other up: InvitesAgree needs    *)
(* fresh tokens (MintedFirst); SomeoneOwns needs, for a personal deletion, *)
(* that the reverse index names every membership (RowsAgree);              *)
(* NoInvitedMember needs that nobody is invited to an account that is not  *)
(* there, which needs that an account is never left empty (SomeoneOwns).   *)
(***************************************************************************)
EXTENDS Teams, TLAPS

USE TeamsAssumption

(* The empty dashboard satisfies the invariant.                            *)
LEMMA InitIInv == Init => IInv
  BY DEF Init, IInv, TypeOK, RowsAgree, InvitesAgree, NoInvitedMember, SomeoneOwns,
         LeaverIsOut, PersonalOwned, InvitedToSomething, MintedFirst, Active, Owner,
         IsDeleting, Accounts

(* An update of a function keeps its type.                                 *)
LEMMA ExceptType ==
  ASSUME NEW S, NEW T, NEW f \in [S -> T], NEW x, NEW y \in T
  PROVE  [f EXCEPT ![x] = y] \in [S -> T]
  OBVIOUS

(* Every step keeps the types.                                             *)
LEMMA TypeStep == TypeOK /\ [Next]_vars => TypeOK'
<1> SUFFICES ASSUME TypeOK, [Next]_vars PROVE TypeOK'
  OBVIOUS
<1> USE DEF TypeOK, Accounts, Roles
<1>1. ASSUME NEW u \in Users, BackfillSelf(u) PROVE TypeOK'
  BY <1>1 DEF BackfillSelf, SetMember
<1>2. ASSUME NEW u \in Users, RequestAccountDeletion(u) PROVE TypeOK'
  BY <1>2 DEF RequestAccountDeletion
<1>3. ASSUME NEW u \in Users, NEW a \in TeamIds, CreateAccount(u, a) PROVE TypeOK'
  <2> DEFINE own == IF Active(u, u) THEN members[u][u] ELSE "owner"
             ownMail == IF Active(u, u) THEN emails[u] ELSE emails[u] \cup {u}
             ownIndex == IF Active(u, u) THEN index[u][u] ELSE own
  <2>1. own \in Roles /\ ownMail \in SUBSET Users /\ ownIndex \in Roles \cup {None}
    BY DEF Active
  <2>2. /\ members' = [members EXCEPT ![u][u] = own, ![a][u] = "owner"]
        /\ index' = [index EXCEPT ![u][u] = ownIndex, ![u][a] = "owner"]
        /\ emails' = [emails EXCEPT ![u] = ownMail, ![a] = @ \cup {u}]
    BY <1>3 DEF CreateAccount
  <2> HIDE DEF own, ownMail, ownIndex
  <2>3. members' \in [Accounts -> [Users -> Roles \cup {None}]]
    <3> DEFINE m == [members EXCEPT ![u][u] = own]
    <3>1. m \in [Accounts -> [Users -> Roles \cup {None}]]
      BY <2>1
    <3>2. members' = [m EXCEPT ![a][u] = "owner"]
      BY <2>2
    <3> HIDE DEF m
    <3> QED
      BY <3>1, <3>2
  <2>4. index' \in [Users -> [Accounts -> Roles \cup {None}]]
    <3> DEFINE m == [index EXCEPT ![u][u] = ownIndex]
    <3>1. m \in [Users -> [Accounts -> Roles \cup {None}]]
      BY <2>1
    <3>2. index' = [m EXCEPT ![u][a] = "owner"]
      BY <2>2
    <3> HIDE DEF m
    <3> QED
      BY <3>1, <3>2
  <2>5. emails' \in [Accounts -> SUBSET Users]
    <3> DEFINE m == [emails EXCEPT ![u] = ownMail]
    <3>1. m \in [Accounts -> SUBSET Users]
      BY <2>1
    <3> DEFINE all == m[a] \cup {u}
    <3>2. all \in SUBSET Users
      BY <3>1
    <3>3. emails' = [m EXCEPT ![a] = all]
      BY <2>2
    <3> HIDE DEF m, all
    <3> QED
      BY <3>1, <3>2, <3>3, ExceptType
  <2>6. /\ minted' \subseteq TeamIds \cup Tokens
        /\ UNCHANGED <<pending, invite, expired, deletion>>
    BY <1>3 DEF CreateAccount
  <2> QED
    BY <2>3, <2>4, <2>5, <2>6
<1>4. ASSUME NEW u \in Users, NEW tok \in Tokens, AcceptInvite(u, tok) PROVE TypeOK'
  BY <1>4 DEF AcceptInvite, SetMember
<1>5. ASSUME NEW tok \in Tokens, Expire(tok) PROVE TypeOK'
  BY <1>5 DEF Expire
<1>6. ASSUME NEW a \in Accounts, DeleteTeamAccount(a) PROVE TypeOK'
  BY <1>6 DEF DeleteTeamAccount, rows
<1>7. ASSUME NEW a \in Accounts, Erase(a) PROVE TypeOK'
  BY <1>7 DEF Erase, InvitesAfterErase
<1>8. ASSUME NEW a \in Accounts, NEW u \in Users, RevokeInvite(a, u) PROVE TypeOK'
  BY <1>8 DEF RevokeInvite
<1>9. ASSUME NEW a \in Accounts, NEW u \in Users, RemoveMember(a, u) PROVE TypeOK'
  BY <1>9 DEF RemoveMember, DropMember
<1>10. ASSUME NEW a \in Accounts, NEW u \in Users, LeaveAccount(a, u) PROVE TypeOK'
  BY <1>10 DEF LeaveAccount, DropMember
<1>11. ASSUME NEW a \in Accounts, NEW u \in Users, NEW tok \in Tokens,
              InviteMember(a, u, tok) PROVE TypeOK'
  BY <1>11 DEF InviteMember
<1>12. ASSUME NEW a \in Accounts, NEW u \in Users, NEW role \in Roles,
              SetMemberRole(a, u, role) PROVE TypeOK'
  BY <1>12 DEF SetMemberRole
<1>13. CASE UNCHANGED vars
  BY <1>13 DEF vars
<1> QED
  <2> HIDE DEF TypeOK, Accounts, Roles
  <2>1. ASSUME Next PROVE TypeOK'
    BY <2>1, <1>1, <1>2, <1>3, <1>4, <1>5, <1>6, <1>7, <1>8, <1>9, <1>10, <1>11, <1>12
    DEF Next
  <2> QED
    BY <2>1, <1>13

(* The variables of every reachable state have their types.                *)
THEOREM TypeCorrect == Spec => []TypeOK
<1>1. Init => TypeOK
  BY InitIInv DEF IInv
<1> QED
  BY <1>1, TypeStep, PTL DEF Spec

-----------------------------------------------------------------------------
(* A user's id is an account.                                              *)
LEMMA UserIsAccount == ASSUME NEW u \in Users PROVE u \in Accounts
  BY DEF Accounts

(* A team's id is an account and nobody's personal one.                    *)
LEMMA TeamIsNoUser == ASSUME NEW a \in TeamIds PROVE a \in Accounts /\ a \notin Users
  BY DEF Accounts

(* What writing a membership does to its three rows.                       *)
LEMMA SetMemberEffect ==
  ASSUME TypeOK, NEW a \in Accounts, NEW u \in Users, NEW role, SetMember(a, u, role)
  PROVE  \A b \in Accounts, v \in Users :
            /\ members'[b][v] = IF b = a /\ v = u THEN role ELSE members[b][v]
            /\ index'[v][b] = IF b = a /\ v = u THEN role ELSE index[v][b]
            /\ v \in emails'[b] <=> v \in emails[b] \/ (b = a /\ v = u)
  BY DEF SetMember, TypeOK

(* What dropping a membership does to them.                                *)
LEMMA DropMemberEffect ==
  ASSUME TypeOK, NEW a \in Accounts, NEW u \in Users, DropMember(a, u)
  PROVE  \A b \in Accounts, v \in Users :
            /\ members'[b][v] = IF b = a /\ v = u THEN None ELSE members[b][v]
            /\ index'[v][b] = IF b = a /\ v = u THEN None ELSE index[v][b]
            /\ v \in emails'[b] <=> v \in emails[b] /\ ~(b = a /\ v = u)
  BY DEF DropMember, TypeOK

(* backfillSelf writes into an account that was empty.                     *)
LEMMA BackfillSelfStep ==
  ASSUME IInv, NEW u \in Users, BackfillSelf(u) PROVE IInv'
<1>1. u \in Accounts
  BY UserIsAccount
<1>2. \A b \in Accounts, v \in Users :
         /\ members'[b][v] = IF b = u /\ v = u THEN "owner" ELSE members[b][v]
         /\ index'[v][b] = IF b = u /\ v = u THEN "owner" ELSE index[v][b]
         /\ v \in emails'[b] <=> v \in emails[b] \/ (b = u /\ v = u)
  BY <1>1, SetMemberEffect DEF BackfillSelf, IInv
<1>3. "owner" # None
  BY DEF Roles
<1>4. members[u][u] = None /\ deletion[u] # "running"
  BY DEF BackfillSelf, Active, IsDeleting
<1>5. UNCHANGED <<pending, invite, minted, expired, deletion>>
  BY DEF BackfillSelf
<1>6. \A v \in Users : members[u][v] = None
  BY <1>1, <1>4, <1>3 DEF IInv, PersonalOwned, Active, Owner
<1>7. TypeOK'
  BY TypeStep DEF IInv, Next
<1>8. RowsAgree'
  BY <1>2, <1>3 DEF IInv, RowsAgree, Active
<1>9. InvitesAgree'
  BY <1>5 DEF IInv, InvitesAgree
<1>10. NoInvitedMember'
  BY <1>1, <1>2, <1>5, <1>6 DEF IInv, NoInvitedMember, InvitedToSomething, Active
<1>11. SomeoneOwns'
  BY <1>2 DEF IInv, SomeoneOwns, Active, Owner
<1>12. LeaverIsOut'
  BY <1>2, <1>5 DEF IInv, LeaverIsOut, Active, IsDeleting
<1>13. PersonalOwned'
  BY <1>1, <1>2, <1>3, <1>6, UserIsAccount DEF IInv, PersonalOwned, Active, Owner
<1>14. InvitedToSomething'
  BY <1>2, <1>3, <1>5 DEF IInv, InvitedToSomething, Active
<1>15. MintedFirst'
  BY <1>2, <1>5, TeamIsNoUser DEF IInv, MintedFirst, Active
<1> QED
  BY <1>7, <1>8, <1>9, <1>10, <1>11, <1>12, <1>13, <1>14, <1>15 DEF IInv

(* createAccount also runs backfillSelf; the team is new to everybody.     *)
LEMMA CreateAccountStep ==
  ASSUME IInv, NEW u \in Users, NEW a \in TeamIds, CreateAccount(u, a) PROVE IInv'
<1> DEFINE new(b, v) == v = u /\ (b = a \/ (b = u /\ members[u][u] = None))
<1>1. /\ u \in Accounts /\ a \in Accounts /\ a \notin Users
      /\ "owner" # None
  BY UserIsAccount, TeamIsNoUser DEF Roles
<1>2. \A b \in Accounts, v \in Users :
         members'[b][v] = IF new(b, v) THEN "owner" ELSE members[b][v]
  BY <1>1 DEF CreateAccount, IInv, TypeOK, Active
<1>3. \A b \in Accounts, v \in Users :
         index'[v][b] = IF new(b, v) THEN "owner" ELSE index[v][b]
  BY <1>1 DEF CreateAccount, IInv, TypeOK, Active
<1>4. \A b \in Accounts, v \in Users :
         v \in emails'[b] <=> new(b, v) \/ v \in emails[b]
  BY <1>1 DEF CreateAccount, IInv, TypeOK, Active
<1>5. /\ a \notin minted /\ minted' = minted \cup {a}
      /\ UNCHANGED <<pending, invite, expired, deletion>>
      /\ deletion[u] # "running"
  BY DEF CreateAccount, IsDeleting
<1>6. /\ \A v \in Users : members[a][v] = None
      /\ members[u][u] = None => \A v \in Users : members[u][v] = None
  BY <1>1, <1>5 DEF IInv, MintedFirst, PersonalOwned, Active, Owner
<1>7. TypeOK'
  BY TypeStep DEF IInv, Next
<1>8. RowsAgree'
  BY <1>1, <1>2, <1>3, <1>4 DEF IInv, RowsAgree, Active
<1>9. InvitesAgree'
  BY <1>5 DEF IInv, InvitesAgree
<1>10. NoInvitedMember'
  BY <1>1, <1>2, <1>5, <1>6 DEF IInv, NoInvitedMember, InvitedToSomething, Active
<1>11. SomeoneOwns'
  BY <1>1, <1>2, <1>6 DEF IInv, SomeoneOwns, Active, Owner
<1>12. LeaverIsOut'
  BY <1>1, <1>2, <1>5 DEF IInv, LeaverIsOut, Active, IsDeleting
<1>13. PersonalOwned'
  BY <1>1, <1>2, <1>6, UserIsAccount DEF IInv, PersonalOwned, Active, Owner
<1>14. InvitedToSomething'
  BY <1>1, <1>2, <1>5 DEF IInv, InvitedToSomething, Active
<1>15. MintedFirst'
  BY <1>1, <1>2, <1>5, TeamIsNoUser DEF IInv, MintedFirst, Active
<1> QED
  BY <1>7, <1>8, <1>9, <1>10, <1>11, <1>12, <1>13, <1>14, <1>15 DEF IInv

(* What a token still honoured means for its invitee.                      *)
LEMMA AcceptInviteFacts ==
  ASSUME IInv, NEW u \in Users, NEW tok \in Tokens, AcceptInvite(u, tok)
  PROVE  \E a \in Accounts :
            /\ invite[tok] = [aid |-> a, user |-> u]
            /\ pending[a][u] = tok /\ members[a][u] = None
            /\ tok \notin expired
            /\ deletion[u] # "running"
            /\ SetMember(a, u, "member")
            /\ invite' = [invite EXCEPT ![tok] = None]
            /\ pending' = [pending EXCEPT ![a][u] = None]
            /\ UNCHANGED <<minted, expired, deletion>>
<1>1. invite[tok] \in [aid : Accounts, user : Users]
  BY DEF AcceptInvite, IInv, TypeOK
<1>2. invite[tok].user = u
  BY DEF AcceptInvite, Honoured
<1>3. invite[tok] = [aid |-> invite[tok].aid, user |-> u]
  BY <1>1, <1>2
<1>4. pending[invite[tok].aid][u] = tok
  BY <1>2 DEF AcceptInvite, IInv, InvitesAgree
<1>5. members[invite[tok].aid][u] = None
  BY <1>1, <1>4 DEF IInv, NoInvitedMember, Active
<1> QED
  BY <1>1, <1>3, <1>4, <1>5 DEF AcceptInvite, Honoured, IsDeleting

(* acceptInvite joins an account that has another owner, so it is nobody's *)
(* first membership and not the joiner's own account.                      *)
LEMMA AcceptInviteStep ==
  ASSUME IInv, NEW u \in Users, NEW tok \in Tokens, AcceptInvite(u, tok) PROVE IInv'
<1>1. PICK a \in Accounts :
            /\ invite[tok] = [aid |-> a, user |-> u]
            /\ pending[a][u] = tok /\ members[a][u] = None
            /\ tok \notin expired
            /\ deletion[u] # "running"
            /\ SetMember(a, u, "member")
            /\ invite' = [invite EXCEPT ![tok] = None]
            /\ pending' = [pending EXCEPT ![a][u] = None]
            /\ UNCHANGED <<minted, expired, deletion>>
  BY AcceptInviteFacts
<1>2. \A b \in Accounts, v \in Users :
         /\ members'[b][v] = IF b = a /\ v = u THEN "member" ELSE members[b][v]
         /\ index'[v][b] = IF b = a /\ v = u THEN "member" ELSE index[v][b]
         /\ v \in emails'[b] <=> v \in emails[b] \/ (b = a /\ v = u)
  BY <1>1, SetMemberEffect DEF IInv
<1>3. \A b \in Accounts, v \in Users :
         pending'[b][v] = IF b = a /\ v = u THEN None ELSE pending[b][v]
  BY <1>1 DEF IInv, TypeOK
<1>4. \A t \in Tokens : invite'[t] = IF t = tok THEN None ELSE invite[t]
  BY <1>1 DEF IInv, TypeOK
<1>5. /\ "member" # None /\ "owner" # None /\ tok # None
      /\ \A b \in Accounts, v \in Users : pending[b][v] \in Tokens \cup {None}
      /\ \A t \in Tokens : invite[t] \in [aid : Accounts, user : Users] \cup {None}
  BY DEF Roles, IInv, TypeOK
<1>6. \E w \in Users : w # u /\ members[a][w] = "owner"
  BY <1>1, <1>5 DEF IInv, InvitedToSomething, SomeoneOwns, Active, Owner
<1>7. a \in Users => a # u
  BY <1>1, <1>5, <1>6 DEF IInv, PersonalOwned, Active, Owner
<1>8. TypeOK'
  BY TypeStep DEF IInv, Next
<1>9. RowsAgree'
  BY <1>2, <1>5 DEF IInv, RowsAgree, Active
<1>10. InvitesAgree'
  BY <1>1, <1>3, <1>4, <1>5 DEF IInv, InvitesAgree
<1>11. NoInvitedMember'
  BY <1>2, <1>3 DEF IInv, NoInvitedMember, Active
<1>12. SomeoneOwns'
  BY <1>2, <1>6 DEF IInv, SomeoneOwns, Active, Owner
<1>13. LeaverIsOut'
  BY <1>1, <1>2 DEF IInv, LeaverIsOut, Active, IsDeleting
<1>14. PersonalOwned'
  BY <1>2, <1>5, <1>6, <1>7, UserIsAccount DEF IInv, PersonalOwned, Active, Owner
<1>15. InvitedToSomething'
  BY <1>2, <1>3, <1>5 DEF IInv, InvitedToSomething, Active
<1>16. MintedFirst'
  <2>1. \A t \in Tokens : invite'[t] # None => t \in minted'
    BY <1>1, <1>4 DEF IInv, MintedFirst
  <2>2. a \in TeamIds => a \in minted
    BY <1>5, <1>6 DEF IInv, MintedFirst, Active
  <2> QED
    BY <1>1, <1>2, <2>1, <2>2, TeamIsNoUser DEF IInv, MintedFirst, Active
<1> QED
  BY <1>8, <1>9, <1>10, <1>11, <1>12, <1>13, <1>14, <1>15, <1>16 DEF IInv

(* A token is the invite of one person to one account.                     *)
LEMMA TokenNamesOne ==
  ASSUME InvitesAgree, NEW a \in Accounts, NEW u \in Users, NEW b \in Accounts, NEW v \in Users,
         pending[a][u] # None, pending[b][v] = pending[a][u]
  PROVE  a = b /\ u = v
<1> DEFINE x == [aid |-> a, user |-> u]
           y == [aid |-> b, user |-> v]
<1>1. x = y
  BY DEF InvitesAgree
<1>2. x.aid = a /\ x.user = u /\ y.aid = b /\ y.user = v
  OBVIOUS
<1> HIDE DEF x, y
<1> QED
  BY <1>1, <1>2

(* inviteMember replaces at most the token it supersedes.                  *)
LEMMA InviteMemberStep ==
  ASSUME IInv, NEW a \in Accounts, NEW u \in Users, NEW tok \in Tokens,
         InviteMember(a, u, tok) PROVE IInv'
<1>1. /\ tok \notin minted /\ minted' = minted \cup {tok} /\ tok # None
      /\ UNCHANGED <<members, index, emails, expired, deletion>>
      /\ members[a][u] = None
  BY DEF InviteMember, Invitable, Active
<1>2. \A b \in Accounts, v \in Users :
         pending'[b][v] = IF b = a /\ v = u THEN tok ELSE pending[b][v]
  BY DEF InviteMember, IInv, TypeOK
<1>3. \A t \in Tokens :
         invite'[t] = IF t = tok THEN [aid |-> a, user |-> u]
                      ELSE IF t = pending[a][u] THEN None ELSE invite[t]
  BY DEF InviteMember
<1>4. \E v \in Users : members[a][v] # None
  BY DEF InviteMember, Invitable, OwnerRoute, Active, Owner, Roles
<1>5. invite[tok] = None /\ \A b \in Accounts, v \in Users : pending[b][v] # tok
  <2>1. invite[tok] = None
    BY <1>1 DEF IInv, MintedFirst
  <2>2. ASSUME NEW b \in Accounts, NEW v \in Users, pending[b][v] = tok PROVE FALSE
    <3>1. invite[tok] = [aid |-> b, user |-> v]
      BY <2>2, <1>1 DEF IInv, InvitesAgree
    <3> QED
      BY <2>1, <3>1
  <2> QED
    BY <2>1, <2>2
<1>6. /\ \A b \in Accounts, v \in Users : pending[b][v] \in Tokens \cup {None}
      /\ \A t \in Tokens : invite[t] \in [aid : Accounts, user : Users] \cup {None}
  BY DEF IInv, TypeOK
<1>7. TypeOK'
  BY TypeStep DEF IInv, Next
<1>8. RowsAgree'
  BY <1>1 DEF IInv, RowsAgree, Active
<1>9. InvitesAgree'
  <2>1. ASSUME NEW b \in Accounts, NEW v \in Users, pending'[b][v] # None
        PROVE  invite'[pending'[b][v]] = [aid |-> b, user |-> v]
    <3>1. CASE b = a /\ v = u
      BY <3>1, <1>2, <1>3
    <3>2. CASE ~(b = a /\ v = u)
      <4>1. pending'[b][v] = pending[b][v] /\ pending[b][v] \in Tokens
        BY <3>2, <2>1, <1>2, <1>6
      <4>2. invite[pending[b][v]] = [aid |-> b, user |-> v]
        BY <4>1, <2>1 DEF IInv, InvitesAgree
      <4>3. pending[b][v] # pending[a][u]
        BY <3>2, <4>1, <2>1, TokenNamesOne DEF IInv
      <4> QED
        BY <4>1, <4>2, <4>3, <1>3, <1>5
    <3> QED
      BY <3>1, <3>2
  <2>2. ASSUME NEW t \in Tokens, invite'[t] # None
        PROVE  pending'[invite'[t].aid][invite'[t].user] = t
    <3>1. CASE t = tok
      BY <3>1, <1>2, <1>3
    <3>2. CASE t # tok
      <4>1. invite'[t] = invite[t] /\ t # pending[a][u] /\ invite[t] # None
        BY <3>2, <2>2, <1>3
      <4>2. pending[invite[t].aid][invite[t].user] = t
        BY <4>1 DEF IInv, InvitesAgree
      <4>3. invite[t].aid \in Accounts /\ invite[t].user \in Users
        BY <4>1, <1>6
      <4> QED
        BY <4>1, <4>2, <4>3, <1>2
    <3> QED
      BY <3>1, <3>2
  <2> QED
    BY <2>1, <2>2 DEF InvitesAgree
<1>10. NoInvitedMember'
  BY <1>1, <1>2 DEF IInv, NoInvitedMember, Active
<1>11. SomeoneOwns'
  BY <1>1 DEF IInv, SomeoneOwns, Active, Owner
<1>12. LeaverIsOut'
  BY <1>1 DEF IInv, LeaverIsOut, Active, IsDeleting
<1>13. PersonalOwned'
  BY <1>1 DEF IInv, PersonalOwned, Active, Owner
<1>14. InvitedToSomething'
  BY <1>1, <1>2, <1>4 DEF IInv, InvitedToSomething, Active
<1>15. MintedFirst'
  BY <1>1, <1>3 DEF IInv, MintedFirst, Active
<1> QED
  BY <1>7, <1>8, <1>9, <1>10, <1>11, <1>12, <1>13, <1>14, <1>15 DEF IInv

(* revokeInvite drops both sides of one invite.                            *)
LEMMA RevokeInviteStep ==
  ASSUME IInv, NEW a \in Accounts, NEW u \in Users, RevokeInvite(a, u) PROVE IInv'
<1>1. /\ pending[a][u] # None
      /\ UNCHANGED <<members, index, emails, minted, expired, deletion>>
  BY DEF RevokeInvite
<1>2. \A b \in Accounts, v \in Users :
         pending'[b][v] = IF b = a /\ v = u THEN None ELSE pending[b][v]
  BY DEF RevokeInvite, IInv, TypeOK
<1>3. \A t \in Tokens : invite'[t] = IF t = pending[a][u] THEN None ELSE invite[t]
  BY DEF RevokeInvite, IInv, TypeOK
<1>4. /\ \A b \in Accounts, v \in Users : pending[b][v] \in Tokens \cup {None}
      /\ \A t \in Tokens : invite[t] \in [aid : Accounts, user : Users] \cup {None}
  BY DEF IInv, TypeOK
<1>5. TypeOK'
  BY TypeStep DEF IInv, Next
<1>6. RowsAgree'
  BY <1>1 DEF IInv, RowsAgree, Active
<1>7. InvitesAgree'
  <2>1. ASSUME NEW b \in Accounts, NEW v \in Users, pending'[b][v] # None
        PROVE  invite'[pending'[b][v]] = [aid |-> b, user |-> v]
    <3>1. pending'[b][v] = pending[b][v] /\ pending[b][v] \in Tokens /\ ~(b = a /\ v = u)
      BY <2>1, <1>2, <1>4
    <3>2. invite[pending[b][v]] = [aid |-> b, user |-> v]
      BY <3>1, <2>1 DEF IInv, InvitesAgree
    <3>3. pending[b][v] # pending[a][u]
      BY <3>1, <1>1, TokenNamesOne DEF IInv
    <3> QED
      BY <3>1, <3>2, <3>3, <1>3
  <2>2. ASSUME NEW t \in Tokens, invite'[t] # None
        PROVE  pending'[invite'[t].aid][invite'[t].user] = t
    <3>1. invite'[t] = invite[t] /\ t # pending[a][u] /\ invite[t] # None
      BY <2>2, <1>3
    <3>2. pending[invite[t].aid][invite[t].user] = t
      BY <3>1 DEF IInv, InvitesAgree
    <3>3. invite[t].aid \in Accounts /\ invite[t].user \in Users
      BY <3>1, <1>4
    <3> QED
      BY <3>1, <3>2, <3>3, <1>2
  <2> QED
    BY <2>1, <2>2 DEF InvitesAgree
<1>8. NoInvitedMember'
  BY <1>1, <1>2 DEF IInv, NoInvitedMember, Active
<1>9. SomeoneOwns'
  BY <1>1 DEF IInv, SomeoneOwns, Active, Owner
<1>10. LeaverIsOut'
  BY <1>1 DEF IInv, LeaverIsOut, Active, IsDeleting
<1>11. PersonalOwned'
  BY <1>1 DEF IInv, PersonalOwned, Active, Owner
<1>12. InvitedToSomething'
  BY <1>1, <1>2 DEF IInv, InvitedToSomething, Active
<1>13. MintedFirst'
  BY <1>1, <1>3 DEF IInv, MintedFirst, Active
<1> QED
  BY <1>5, <1>6, <1>7, <1>8, <1>9, <1>10, <1>11, <1>12, <1>13 DEF IInv

(* setMemberRole demotes an owner only while another stays.                *)
LEMMA SetMemberRoleStep ==
  ASSUME IInv, NEW a \in Accounts, NEW u \in Users, NEW role \in Roles,
         SetMemberRole(a, u, role) PROVE IInv'
<1>1. /\ members[a][u] # None /\ role # None /\ "owner" # None
      /\ UNCHANGED <<emails, pending, invite, minted, expired, deletion>>
  BY DEF SetMemberRole, Active, Roles
<1>2. \A b \in Accounts, v \in Users :
         /\ members'[b][v] = IF b = a /\ v = u THEN role ELSE members[b][v]
         /\ index'[v][b] = IF b = a /\ v = u THEN role ELSE index[v][b]
  BY DEF SetMemberRole, IInv, TypeOK
<1>3. \E v \in Users : members'[a][v] = "owner"
  <2>1. CASE role = "owner"
    BY <2>1, <1>2
  <2>2. CASE members[a][u] = "owner" /\ role = "member"
    BY <2>2, <1>2 DEF SetMemberRole, LastOwner, Owner
  <2>3. CASE members[a][u] # "owner"
    BY <2>3, <1>1, <1>2 DEF IInv, SomeoneOwns, Active, Owner
  <2> QED
    BY <2>1, <2>2, <2>3 DEF Roles
<1>4. a \notin Users
  BY <1>1 DEF SetMemberRole, IsPersonal, IInv, PersonalOwned, Active, Owner
<1>5. TypeOK'
  BY TypeStep DEF IInv, Next
<1>6. RowsAgree'
  BY <1>1, <1>2 DEF IInv, RowsAgree, Active
<1>7. InvitesAgree'
  BY <1>1 DEF IInv, InvitesAgree
<1>8. NoInvitedMember'
  BY <1>1, <1>2 DEF IInv, NoInvitedMember, Active
<1>9. SomeoneOwns'
  BY <1>2, <1>3 DEF IInv, SomeoneOwns, Active, Owner
<1>10. LeaverIsOut'
  BY <1>1, <1>2 DEF IInv, LeaverIsOut, Active, IsDeleting
<1>11. PersonalOwned'
  BY <1>2, <1>4, UserIsAccount DEF IInv, PersonalOwned, Active, Owner
<1>12. InvitedToSomething'
  BY <1>1, <1>2 DEF IInv, InvitedToSomething, Active
<1>13. MintedFirst'
  BY <1>1, <1>2, TeamIsNoUser DEF IInv, MintedFirst, Active
<1> QED
  BY <1>5, <1>6, <1>7, <1>8, <1>9, <1>10, <1>11, <1>12, <1>13 DEF IInv

(* removeMember and leaveAccount: an owner goes only while another stays.  *)
LEMMA DropMemberStep ==
  ASSUME IInv, NEW a \in Accounts, NEW u \in Users, [Next]_vars, Active(a, u),
         Owner(a, u) => ~LastOwner(a, u), DropMember(a, u),
         UNCHANGED <<pending, invite, minted, expired, deletion>>
  PROVE  IInv'
<1>1. \A b \in Accounts, v \in Users :
         /\ members'[b][v] = IF b = a /\ v = u THEN None ELSE members[b][v]
         /\ index'[v][b] = IF b = a /\ v = u THEN None ELSE index[v][b]
         /\ v \in emails'[b] <=> v \in emails[b] /\ ~(b = a /\ v = u)
  BY DropMemberEffect DEF IInv
<1>2. "owner" # None
  BY DEF Roles
<1>3. \E v \in Users : v # u /\ members[a][v] = "owner"
  BY DEF LastOwner, Owner, IInv, SomeoneOwns
<1>4. a \in Users => a # u
  BY <1>2, <1>3 DEF IInv, PersonalOwned, Active, Owner
<1>5. TypeOK'
  BY TypeStep DEF IInv
<1>6. RowsAgree'
  BY <1>1 DEF IInv, RowsAgree, Active
<1>7. InvitesAgree'
  BY DEF IInv, InvitesAgree
<1>8. NoInvitedMember'
  BY <1>1 DEF IInv, NoInvitedMember, Active
<1>9. SomeoneOwns'
  BY <1>1, <1>3 DEF IInv, SomeoneOwns, Active, Owner
<1>10. LeaverIsOut'
  BY <1>1 DEF IInv, LeaverIsOut, Active, IsDeleting
<1>11. PersonalOwned'
  BY <1>1, <1>2, <1>4, UserIsAccount DEF IInv, PersonalOwned, Active, Owner
<1>12. InvitedToSomething'
  BY <1>1, <1>2, <1>3 DEF IInv, InvitedToSomething, Active
<1>13. MintedFirst'
  BY <1>1, TeamIsNoUser DEF IInv, MintedFirst, Active
<1> QED
  BY <1>5, <1>6, <1>7, <1>8, <1>9, <1>10, <1>11, <1>12, <1>13 DEF IInv

(* A personal deletion: the reverse index, which names every team of u,    *)
(* decides what is left behind; soleOwnerTeams, that each of them keeps an *)
(* owner.                                                                  *)
LEMMA RequestAccountDeletionStep ==
  ASSUME IInv, NEW u \in Users, RequestAccountDeletion(u) PROVE IInv'
<1> DEFINE role(b, v) == IF v = u /\ b # u THEN None
                         ELSE IF v = u /\ members[u][u] = None THEN "owner"
                         ELSE members[b][v]
<1>1. u \in Accounts /\ "owner" # None
  BY UserIsAccount DEF Roles
<1>2. /\ deletion' = [deletion EXCEPT ![u] = "running"]
      /\ UNCHANGED <<pending, invite, minted, expired>>
  BY DEF RequestAccountDeletion
<1>3. \A b \in Accounts : b \in AccountsForUser(u) \ {u} <=> b # u /\ members[b][u] # None
  BY DEF AccountsForUser, IInv, RowsAgree
<1>4. \A b \in Accounts, v \in Users : members'[b][v] = role(b, v)
  BY <1>1, <1>3 DEF RequestAccountDeletion, IInv, TypeOK
<1>5. \A b \in Accounts, v \in Users : index'[v][b] = role(b, v)
  BY <1>1, <1>3 DEF RequestAccountDeletion, IInv, TypeOK, RowsAgree
<1>6. \A b \in Accounts, v \in Users : v \in emails'[b] <=> role(b, v) # None
  BY <1>1, <1>3 DEF RequestAccountDeletion, IInv, TypeOK, RowsAgree, Active
<1>7. members[u][u] = None => \A v \in Users : members[u][v] = None
  BY <1>1 DEF IInv, PersonalOwned, Active, Owner
<1>8. \A b \in Accounts \ {u} : members[b][u] # None =>
         \E v \in Users : v # u /\ members[b][v] = "owner"
  <2>1. ASSUME NEW b \in Accounts \ {u}, members[b][u] # None
        PROVE  \E v \in Users : v # u /\ members[b][v] = "owner"
    <3>1. b \in AccountsForUser(u) \ {u}
      BY <2>1, <1>3
    <3>2. ~(Owner(b, u) /\ LastOwner(b, u))
      BY <3>1 DEF RequestAccountDeletion, SoleOwnerTeams
    <3> QED
      BY <2>1, <3>2 DEF Owner, LastOwner, IInv, SomeoneOwns, Active
  <2> QED
    BY <2>1
<1> HIDE DEF role
<1>9. \A b \in Accounts, v \in Users : role(b, v) =
         IF v = u /\ b # u THEN None
         ELSE IF v = u /\ members[u][u] = None THEN "owner" ELSE members[b][v]
  BY DEF role
<1>10. TypeOK'
  BY TypeStep DEF IInv, Next
<1>11. RowsAgree'
  BY <1>4, <1>5, <1>6 DEF RowsAgree, Active
<1>12. InvitesAgree'
  BY <1>2 DEF IInv, InvitesAgree
<1>13. NoInvitedMember'
  BY <1>1, <1>2, <1>4, <1>7, <1>9 DEF IInv, NoInvitedMember, InvitedToSomething, Active
<1>14. SomeoneOwns'
  BY <1>1, <1>4, <1>8, <1>9 DEF IInv, SomeoneOwns, Active, Owner
<1>15. LeaverIsOut'
  BY <1>1, <1>2, <1>4, <1>9, UserIsAccount DEF IInv, TypeOK, LeaverIsOut, Active, IsDeleting
<1>16. PersonalOwned'
  BY <1>1, <1>4, <1>7, <1>9, UserIsAccount DEF IInv, PersonalOwned, Active, Owner
<1>17. InvitedToSomething'
  BY <1>1, <1>2, <1>4, <1>8, <1>9 DEF IInv, InvitedToSomething, Active
<1>18. MintedFirst'
  BY <1>1, <1>2, <1>4, <1>9, TeamIsNoUser DEF IInv, MintedFirst, Active
<1> QED
  BY <1>10, <1>11, <1>12, <1>13, <1>14, <1>15, <1>16, <1>17, <1>18 DEF IInv

(* The erasure of an account takes its members and its invites together.   *)
LEMMA EraseStep ==
  ASSUME IInv, NEW a \in Accounts, Erase(a) PROVE IInv'
<1>1. /\ deletion' = [deletion EXCEPT ![a] = "done"]
      /\ UNCHANGED <<minted, expired>>
  BY DEF Erase
<1>2. \A b \in Accounts, v \in Users :
         /\ members'[b][v] = IF b = a THEN None ELSE members[b][v]
         /\ index'[v][b] = IF b = a THEN None ELSE index[v][b]
         /\ v \in emails'[b] <=> b # a /\ v \in emails[b]
         /\ pending'[b][v] = IF b = a THEN None ELSE pending[b][v]
  BY DEF Erase, IInv, TypeOK, RowsAgree
<1>3. \A t \in Tokens :
         invite'[t] = IF \E v \in Users : pending[a][v] = t THEN None ELSE invite[t]
  BY DEF Erase, InvitesAfterErase
<1>4. /\ \A b \in Accounts, v \in Users : pending[b][v] \in Tokens \cup {None}
      /\ \A t \in Tokens : invite[t] \in [aid : Accounts, user : Users] \cup {None}
  BY DEF IInv, TypeOK
<1>5. TypeOK'
  BY TypeStep DEF IInv, Next
<1>6. RowsAgree'
  BY <1>2 DEF IInv, RowsAgree, Active
<1>7. InvitesAgree'
  <2>1. ASSUME NEW b \in Accounts, NEW v \in Users, pending'[b][v] # None
        PROVE  invite'[pending'[b][v]] = [aid |-> b, user |-> v]
    <3>1. pending'[b][v] = pending[b][v] /\ pending[b][v] \in Tokens /\ b # a
      BY <2>1, <1>2, <1>4
    <3>2. \A w \in Users : pending[a][w] # pending[b][v]
      BY <3>1, <2>1, TokenNamesOne DEF IInv
    <3> QED
      BY <3>1, <3>2, <2>1, <1>3 DEF IInv, InvitesAgree
  <2>2. ASSUME NEW t \in Tokens, invite'[t] # None
        PROVE  pending'[invite'[t].aid][invite'[t].user] = t
    <3>1. /\ invite'[t] = invite[t] /\ invite[t] # None
          /\ \A w \in Users : pending[a][w] # t
      BY <2>2, <1>3
    <3>2. invite[t].aid \in Accounts /\ invite[t].user \in Users
      BY <3>1, <1>4
    <3>3. pending[invite[t].aid][invite[t].user] = t
      BY <3>1 DEF IInv, InvitesAgree
    <3> QED
      BY <3>1, <3>2, <3>3, <1>2
  <2> QED
    BY <2>1, <2>2 DEF InvitesAgree
<1>8. NoInvitedMember'
  BY <1>2 DEF IInv, NoInvitedMember, Active
<1>9. SomeoneOwns'
  BY <1>2 DEF IInv, SomeoneOwns, Active, Owner
<1>10. LeaverIsOut'
  BY <1>1, <1>2, UserIsAccount DEF IInv, TypeOK, LeaverIsOut, Active, IsDeleting
<1>11. PersonalOwned'
  BY <1>2, UserIsAccount DEF IInv, PersonalOwned, Active, Owner
<1>12. InvitedToSomething'
  BY <1>2 DEF IInv, InvitedToSomething, Active
<1>13. MintedFirst'
  BY <1>1, <1>2, <1>3, TeamIsNoUser DEF IInv, MintedFirst, Active
<1> QED
  BY <1>5, <1>6, <1>7, <1>8, <1>9, <1>10, <1>11, <1>12, <1>13 DEF IInv

(* Everything else leaves members and invites alone.                       *)
LEMMA QuietStep ==
  ASSUME IInv, [Next]_vars, UNCHANGED <<rows, pending, invite, minted>>,
         \A u \in Users : deletion'[u] = deletion[u]
  PROVE  IInv'
<1>1. TypeOK'
  BY TypeStep DEF IInv
<1>2. UNCHANGED <<members, index, emails, pending, invite, minted>>
  BY DEF rows
<1>3. RowsAgree' /\ InvitesAgree' /\ NoInvitedMember' /\ InvitedToSomething' /\ MintedFirst'
  BY <1>2 DEF IInv, RowsAgree, InvitesAgree, NoInvitedMember, InvitedToSomething, MintedFirst,
              Active
<1>4. SomeoneOwns' /\ PersonalOwned'
  BY <1>2 DEF IInv, SomeoneOwns, PersonalOwned, Active, Owner
<1>5. LeaverIsOut'
  BY <1>2 DEF IInv, LeaverIsOut, Active, IsDeleting
<1> QED
  BY <1>1, <1>3, <1>4, <1>5 DEF IInv

-----------------------------------------------------------------------------
(* The invariant is inductive.                                             *)
LEMMA NextIInv == IInv /\ [Next]_vars => IInv'
<1> SUFFICES ASSUME IInv, [Next]_vars PROVE IInv'
  OBVIOUS
<1>1. ASSUME NEW u \in Users, BackfillSelf(u) PROVE IInv'
  BY <1>1, BackfillSelfStep
<1>2. ASSUME NEW u \in Users, RequestAccountDeletion(u) PROVE IInv'
  BY <1>2, RequestAccountDeletionStep
<1>3. ASSUME NEW u \in Users, NEW a \in TeamIds, CreateAccount(u, a) PROVE IInv'
  BY <1>3, CreateAccountStep
<1>4. ASSUME NEW u \in Users, NEW tok \in Tokens, AcceptInvite(u, tok) PROVE IInv'
  BY <1>4, AcceptInviteStep
<1>5. ASSUME NEW tok \in Tokens, Expire(tok) PROVE IInv'
  BY <1>5, QuietStep DEF Expire, rows
<1>6. ASSUME NEW a \in Accounts, DeleteTeamAccount(a) PROVE IInv'
  <2>1. \A u \in Users : deletion'[u] = deletion[u]
    BY <1>6 DEF DeleteTeamAccount, IInv, TypeOK, TeamsAssumption
  <2> QED
    BY <1>6, <2>1, QuietStep DEF DeleteTeamAccount
<1>7. ASSUME NEW a \in Accounts, Erase(a) PROVE IInv'
  BY <1>7, EraseStep
<1>8. ASSUME NEW a \in Accounts, NEW u \in Users, RevokeInvite(a, u) PROVE IInv'
  BY <1>8, RevokeInviteStep
<1>9. ASSUME NEW a \in Accounts, NEW u \in Users, RemoveMember(a, u) PROVE IInv'
  BY <1>9, DropMemberStep DEF RemoveMember
<1>10. ASSUME NEW a \in Accounts, NEW u \in Users, LeaveAccount(a, u) PROVE IInv'
  BY <1>10, DropMemberStep DEF LeaveAccount
<1>11. ASSUME NEW a \in Accounts, NEW u \in Users, NEW tok \in Tokens,
              InviteMember(a, u, tok) PROVE IInv'
  BY <1>11, InviteMemberStep
<1>12. ASSUME NEW a \in Accounts, NEW u \in Users, NEW role \in Roles,
              SetMemberRole(a, u, role) PROVE IInv'
  BY <1>12, SetMemberRoleStep
<1>13. CASE UNCHANGED vars
  BY <1>13, QuietStep DEF vars, rows
<1> QED
  BY <1>1, <1>2, <1>3, <1>4, <1>5, <1>6, <1>7, <1>8, <1>9, <1>10, <1>11, <1>12, <1>13
  DEF Next

(* The strengthening holds of every reachable state.                       *)
THEOREM Inductive == Spec => []IInv
  BY InitIInv, NextIInv, PTL DEF Spec

(* Every membership is written in all three of its rows or in none:        *)
(* authorization, the member list and the deletion read the same thing.    *)
THEOREM RowsAgreeAlways == Spec => []RowsAgree
<1>1. IInv => RowsAgree
  BY DEF IInv
<1> QED
  BY <1>1, Inductive, PTL

(* Pending rows and live tokens are the two sides of the same invites: an  *)
(* owner can see, and revoke, every token that would be honoured.          *)
THEOREM InvitesAgreeAlways == Spec => []InvitesAgree
<1>1. IInv => InvitesAgree
  BY DEF IInv
<1> QED
  BY <1>1, Inductive, PTL

(* No member is invited, so accepting an invite never lowers a role.       *)
THEOREM NoInvitedMemberAlways == Spec => []NoInvitedMember
<1>1. IInv => NoInvitedMember
  BY DEF IInv
<1> QED
  BY <1>1, Inductive, PTL

(* No account with members is left without an owner.                       *)
THEOREM SomeoneOwnsAlways == Spec => []SomeoneOwns
<1>1. IInv => SomeoneOwns
  BY DEF IInv
<1> QED
  BY <1>1, Inductive, PTL

(* A user whose deletion runs is in no account but its own.                *)
THEOREM LeaverIsOutAlways == Spec => []LeaverIsOut
<1>1. IInv => LeaverIsOut
  BY DEF IInv
<1> QED
  BY <1>1, Inductive, PTL

(* A personal account, while it has members, is owned by its user alone.   *)
THEOREM PersonalOwnedAlways == Spec => []PersonalOwned
<1>1. IInv => PersonalOwned
  BY DEF IInv
<1> QED
  BY <1>1, Inductive, PTL

-----------------------------------------------------------------------------
(* Joining.                                                                *)

(* Every way of becoming active in an account others are in.                *)
LEMMA JoinNext == IInv /\ [Next]_vars => JoinStep
<1> SUFFICES ASSUME IInv, [Next]_vars,
                    NEW a \in Accounts, NEW u \in Users, NEW c \in Users,
                    members[a][c] # None, members[a][u] = None, members'[a][u] # None
             PROVE  /\ pending[a][u] # None /\ pending[a][u] \notin expired
                    /\ invite'[pending[a][u]] = None
  BY DEF JoinStep, Active
<1>0. a = u => FALSE
  BY DEF IInv, PersonalOwned, Active, Owner, Roles
<1>1. ASSUME NEW v \in Users, BackfillSelf(v) PROVE FALSE
  BY <1>0, <1>1, UserIsAccount DEF BackfillSelf, SetMember, IInv, TypeOK
<1>2. ASSUME NEW v \in Users, RequestAccountDeletion(v) PROVE FALSE
  BY <1>0, <1>2, UserIsAccount DEF RequestAccountDeletion, IInv, TypeOK
<1>3. ASSUME NEW v \in Users, NEW b \in TeamIds, CreateAccount(v, b) PROVE FALSE
  <2>1. a # b
    BY <1>3 DEF CreateAccount, IInv, MintedFirst, Active
  <2> QED
    BY <1>0, <1>3, <2>1, UserIsAccount, TeamIsNoUser DEF CreateAccount, IInv, TypeOK
<1>4. ASSUME NEW v \in Users, NEW tok \in Tokens, AcceptInvite(v, tok)
      PROVE  /\ pending[a][u] # None /\ pending[a][u] \notin expired
             /\ invite'[pending[a][u]] = None
  <2>1. PICK b \in Accounts : /\ pending[b][v] = tok /\ tok \notin expired
                              /\ SetMember(b, v, "member")
                              /\ invite' = [invite EXCEPT ![tok] = None]
    BY <1>4, AcceptInviteFacts
  <2>2. a = b /\ u = v
    BY <2>1, SetMemberEffect DEF IInv, TypeOK
  <2> QED
    BY <2>1, <2>2 DEF IInv, TypeOK
<1>5. ASSUME UNCHANGED members PROVE FALSE
  BY <1>5
<1>6. ASSUME NEW b \in Accounts, Erase(b) PROVE FALSE
  BY <1>6 DEF Erase, IInv, TypeOK
<1>7. ASSUME NEW b \in Accounts, NEW v \in Users, DropMember(b, v) PROVE FALSE
  BY <1>7, DropMemberEffect DEF IInv
<1>8. ASSUME NEW b \in Accounts, NEW v \in Users, NEW role \in Roles,
             SetMemberRole(b, v, role) PROVE FALSE
  BY <1>8 DEF SetMemberRole, Active, IInv, TypeOK
<1> QED
  BY <1>1, <1>2, <1>3, <1>4, <1>5, <1>6, <1>7, <1>8
  DEF Next, vars, rows, Expire, DeleteTeamAccount, RevokeInvite, RemoveMember, LeaveAccount,
      InviteMember

(* Whoever joins an account there already is, holds its unexpired pending  *)
(* invite, and the token is spent in the same step.                        *)
THEOREM JoinsByInviteAlways == Spec => JoinsByInvite
<1>1. IInv /\ [Next]_vars => [JoinStep]_vars
  BY JoinNext
<1> QED
  BY <1>1, Inductive, PTL DEF Spec, JoinsByInvite
=============================================================================
