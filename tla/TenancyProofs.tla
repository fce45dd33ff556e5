--------------------------- MODULE TenancyProofs ---------------------------
(***************************************************************************)
(* The invariants of Tenancy, for every set of accounts, names and calls   *)
(* in flight.                                                              *)
(*                                                                         *)
(* Access is safe because three things agree: the reply of a provision     *)
(* names a lifetime formed for the account that asked (AnswersTrue), the   *)
(* incarnation row is only ever written together with that account as the  *)
(* owner and dropped together with the owner row (BindingIsOwners), and    *)
(* an incarnation is formed once (ServedFormed and the bound in both).     *)
(***************************************************************************)
EXTENDS Tenancy, SourceReads, Router, Editor, Deploy, FiniteSetTheorems, SequenceTheorems,
    WellFoundedInduction, NaturalsInduction, TLAPS

USE TenancyAssumption

(* A dashboard without tenants satisfies the invariant.                    *)
LEMMA InitIInv == Init => IInv
  BY DEF Init, IInv, TypeOK, CallsWhole, ServedFormed, AnswersTrue, PointerIsListed,
         RepliesNamed, BindingIsOwners, RowsMatch, CallType, Idle, Incs

(* What a step does to the slots: it answers or empties one.               *)
LEMMA AnswerType ==
  ASSUME TypeOK, NEW c \in Slots, NEW st \in {"ok", "refused"}, NEW i \in 0..MaxInc,
         Answer(c, st, i)
  PROVE  /\ call' \in [Slots -> CallType]
         /\ \A d \in Slots : d # c => call'[d] = call[d]
         /\ call'[c] = [call[c] EXCEPT !.st = st, !.inc = i]
<1> DEFINE r == [call[c] EXCEPT !.st = st, !.inc = i]
<1>1. call \in [Slots -> CallType] /\ call[c] \in CallType
  BY DEF TypeOK
<1>2. r \in CallType
  BY <1>1 DEF CallType
<1>3. call' = [call EXCEPT ![c] = r]
  BY DEF Answer
<1> HIDE DEF r
<1>4. /\ call' \in [Slots -> CallType]
      /\ \A d \in Slots : d # c => call'[d] = call[d]
      /\ call'[c] = r
  BY <1>1, <1>2, <1>3
<1> QED
  BY <1>4 DEF r

(* Handling the answer empties the slot.                                   *)
LEMMA HandledType ==
  ASSUME TypeOK, NEW c \in Slots, Handled(c)
  PROVE  /\ call' \in [Slots -> CallType]
         /\ \A d \in Slots : d # c => call'[d] = call[d]
         /\ call'[c] = Idle
  BY DEF TypeOK, Handled, CallType, Idle

(* Forming a lifetime touches one name and the next incarnation only.      *)
LEMMA FormType ==
  ASSUME TypeOK, NEW n \in Names, NEW a \in Accounts \cup {None}, Form(n, a)
  PROVE  /\ served' \in [Names -> 0..MaxInc] /\ born' \in [Incs -> Accounts \cup {None}]
         /\ formed' \in 0..MaxInc /\ formed' = formed + 1
         /\ served'[n] = formed + 1
         /\ \A m \in Names : m # n => served'[m] = served[m]
         /\ born'[formed + 1] = a
         /\ \A i \in 1..formed : born'[i] = born[i]
  BY DEF TypeOK, Form, Incs

(* Taking down touches what is served and no history.                      *)
LEMMA TearDownType ==
  ASSUME TypeOK, NEW n \in Names, TearDown(n)
  PROVE  /\ served' \in [Names -> 0..MaxInc]
         /\ \A m \in Names : served'[m] \in {served[m], 0}
         /\ UNCHANGED <<born, formed>>
  BY DEF TypeOK, TearDown

-----------------------------------------------------------------------------
(* The conjuncts one step cannot disturb because it leaves the state they  *)
(* speak of alone.                                                         *)
LEMMA KvFrame ==
  ASSUME IInv, UNCHANGED kv
  PROVE  /\ rows' \subseteq Accounts \X Names /\ owner' \in [Names -> Accounts \cup {None}]
         /\ bound' \in [Names -> 0..MaxInc]
         /\ PointerIsListed'
         /\ ~Jobs => RowsMatch'
  BY DEF IInv, TypeOK, kv, PointerIsListed, RowsMatch

(* Likewise what only speaks of the cluster.                               *)
LEMMA CpFrame ==
  ASSUME IInv, UNCHANGED cp
  PROVE  /\ served' \in [Names -> 0..MaxInc] /\ born' \in [Incs -> Accounts \cup {None}]
         /\ formed' \in 0..MaxInc
         /\ ServedFormed'
  BY DEF IInv, TypeOK, cp, ServedFormed

(* What the rows say of incarnations stays true when more are formed.      *)
LEMMA BindingFrame ==
  ASSUME IInv, CpNamesIncarnation, UNCHANGED kv, formed' \in 0..MaxInc, formed <= formed',
         \A i \in 1..formed : born'[i] = born[i]
  PROVE  BindingIsOwners'
<1>1. BindingIsOwners /\ owner' = owner /\ bound' = bound /\ formed \in Nat
  BY DEF IInv, kv, TypeOK
<1> QED
  BY <1>1 DEF BindingIsOwners

(* So does what the calls carry, when one slot changes to r.               *)
LEMMA CallFrame ==
  ASSUME IInv, NEW c \in Slots, NEW r,
         \A d \in Slots : d # c => call'[d] = call[d], call'[c] = r,
         formed' \in 0..MaxInc, formed <= formed',
         \A i \in 1..formed : born'[i] = born[i],
         r.kind # "none" => r.name \in Names /\ (r.kind # "delete" => r.acct \in Accounts),
         r.inc # 0 => r.kind = "provision" /\ r.inc \in 1..formed' /\ born'[r.inc] = r.acct,
         CpNamesIncarnation /\ r.kind = "provision" /\ r.st = "ok" => r.inc # 0,
         ~Jobs => r.kind # "job"
  PROVE  /\ CallsWhole' /\ AnswersTrue'
         /\ CpNamesIncarnation => RepliesNamed'
         /\ ~Jobs => \A d \in Slots : call'[d].kind # "job"
<1>1. formed \in Nat
  BY DEF IInv, TypeOK
<1>2. CallsWhole'
  BY DEF IInv, CallsWhole
<1>3. AnswersTrue'
  <2> SUFFICES ASSUME NEW d \in Slots, call'[d].inc # 0
               PROVE  /\ call'[d].kind = "provision" /\ call'[d].inc \in 1..formed'
                      /\ born'[call'[d].inc] = call'[d].acct
    BY DEF AnswersTrue
  <2>1. CASE d = c
    BY <2>1
  <2>2. CASE d # c
    BY <2>2, <1>1 DEF IInv, AnswersTrue
  <2> QED
    BY <2>1, <2>2
<1>4. CpNamesIncarnation => RepliesNamed'
  BY DEF IInv, RepliesNamed
<1>5. ~Jobs => \A d \in Slots : call'[d].kind # "job"
  BY DEF IInv
<1> QED
  BY <1>2, <1>3, <1>4, <1>5
-----------------------------------------------------------------------------
(* The steps that issue a call.                                            *)
LEMMA IssueStep ==
  ASSUME IInv, NEW c \in Slots, NEW kind \in {"provision", "delete", "job"},
         NEW a \in Accounts \cup {None}, NEW n \in Names,
         Issue(c, kind, a, n), UNCHANGED <<kv, cp>>,
         kind # "delete" => a \in Accounts, kind = "job" => Jobs
  PROVE  IInv'
<1> DEFINE r == [Idle EXCEPT !.kind = kind, !.acct = a, !.name = n, !.st = "sent"]
<1>1. r.kind = kind /\ r.acct = a /\ r.name = n /\ r.st = "sent" /\ r.inc = 0
  BY DEF Idle
<1>2. /\ call' \in [Slots -> CallType]
      /\ \A d \in Slots : d # c => call'[d] = call[d]
      /\ call'[c] = r
  BY DEF IInv, TypeOK, Issue, Idle, CallType
<1> HIDE DEF r
<1>3. formed \in 0..MaxInc /\ UNCHANGED <<formed, born>>
  BY DEF IInv, TypeOK, cp
<1>4. /\ CallsWhole' /\ AnswersTrue'
      /\ CpNamesIncarnation => RepliesNamed'
      /\ ~Jobs => \A d \in Slots : call'[d].kind # "job"
  BY <1>1, <1>2, <1>3, CallFrame
<1>5. CpNamesIncarnation => BindingIsOwners'
  BY <1>3, BindingFrame
<1>6. TypeOK'
  BY <1>2, KvFrame, CpFrame DEF TypeOK
<1> QED
  BY <1>4, <1>5, <1>6, KvFrame, CpFrame DEF IInv

(* The control plane answers a provision.                                  *)
LEMMA CpProvisionStep == ASSUME IInv, NEW c \in Slots, CpProvision(c) PROVE IInv'
<1> DEFINE n == call[c].name
           a == call[c].acct
<1>1. call[c].kind = "provision" /\ n \in Names /\ a \in Accounts /\ call[c] \in CallType
  BY DEF CpProvision, IInv, CallsWhole, TypeOK
<1>2. UNCHANGED kv /\ formed \in 0..MaxInc
  BY DEF CpProvision, IInv, TypeOK
<1>3. CASE Form(n, a) /\ Answer(c, "ok", IF CpNamesIncarnation THEN formed + 1 ELSE 0)
  <2> DEFINE i == IF CpNamesIncarnation THEN formed + 1 ELSE 0
             r == [call[c] EXCEPT !.st = "ok", !.inc = i]
  <2>1. /\ served' \in [Names -> 0..MaxInc] /\ born' \in [Incs -> Accounts \cup {None}]
        /\ formed' \in 0..MaxInc /\ formed' = formed + 1
        /\ served'[n] = formed + 1
        /\ \A m \in Names : m # n => served'[m] = served[m]
        /\ born'[formed + 1] = a
        /\ \A j \in 1..formed : born'[j] = born[j]
    BY <1>1, <1>3, FormType DEF IInv
  <2>2. i \in 0..MaxInc
    BY <2>1
  <2>3. Answer(c, "ok", i)
    BY <1>3
  <2> HIDE DEF i
  <2>4. /\ r.kind = "provision" /\ r.acct = a /\ r.name = n /\ r.st = "ok" /\ r.inc = i
    BY <1>1 DEF CallType
  <2>5. /\ call' \in [Slots -> CallType]
        /\ \A d \in Slots : d # c => call'[d] = call[d]
        /\ call'[c] = r
    BY <2>2, <2>3, AnswerType DEF IInv
  <2> HIDE DEF r
  <2>6. formed \in Nat /\ formed <= formed' /\ formed + 1 \in 1..formed'
    BY <1>2, <2>1
  <2>7. (i # 0 => i = formed + 1) /\ (CpNamesIncarnation => i # 0)
    BY <1>2 DEF i
  <2>8. /\ CallsWhole' /\ AnswersTrue'
        /\ CpNamesIncarnation => RepliesNamed'
        /\ ~Jobs => \A d \in Slots : call'[d].kind # "job"
    BY <1>1, <2>1, <2>4, <2>5, <2>6, <2>7, CallFrame
  <2>9. CpNamesIncarnation => BindingIsOwners'
    BY <1>2, <2>1, <2>6, BindingFrame
  <2>10. ServedFormed'
    BY <2>1, <2>6 DEF IInv, ServedFormed
  <2>11. TypeOK'
    BY <1>2, <2>1, <2>5, KvFrame DEF TypeOK
  <2> QED
    BY <1>2, <2>8, <2>9, <2>10, <2>11, KvFrame DEF IInv
<1>4. CASE Answer(c, "refused", 0) /\ UNCHANGED cp
  <2> DEFINE r == [call[c] EXCEPT !.st = "refused", !.inc = 0]
  <2>1. /\ r.kind = "provision" /\ r.acct = a /\ r.name = n /\ r.st = "refused" /\ r.inc = 0
    BY <1>1 DEF CallType
  <2>2. /\ call' \in [Slots -> CallType]
        /\ \A d \in Slots : d # c => call'[d] = call[d]
        /\ call'[c] = r
    <3>1. TypeOK /\ 0 \in 0..MaxInc
      BY DEF IInv
    <3> QED
      BY <1>4, <3>1, AnswerType
  <2> HIDE DEF r
  <2>3. UNCHANGED <<formed, born>>
    BY <1>4 DEF cp
  <2>4. /\ CallsWhole' /\ AnswersTrue'
        /\ CpNamesIncarnation => RepliesNamed'
        /\ ~Jobs => \A d \in Slots : call'[d].kind # "job"
    BY <1>1, <1>2, <2>1, <2>2, <2>3, CallFrame
  <2>5. CpNamesIncarnation => BindingIsOwners'
    BY <1>2, <2>3, BindingFrame
  <2>6. TypeOK'
    BY <1>2, <1>4, <2>2, KvFrame, CpFrame DEF TypeOK
  <2> QED
    BY <1>2, <1>4, <2>4, <2>5, <2>6, KvFrame, CpFrame DEF IInv
<1> QED
  BY <1>3, <1>4 DEF CpProvision

(* Handling an answer empties its slot; the rows are the action's matter.  *)
LEMMA HandledStep ==
  ASSUME IInv, NEW c \in Slots, Handled(c), UNCHANGED cp,
         rows' \subseteq Accounts \X Names, owner' \in [Names -> Accounts \cup {None}],
         bound' \in [Names -> 0..MaxInc],
         PointerIsListed', CpNamesIncarnation => BindingIsOwners', ~Jobs => RowsMatch'
  PROVE  IInv'
<1>1. /\ call' \in [Slots -> CallType]
      /\ \A d \in Slots : d # c => call'[d] = call[d]
      /\ call'[c] = Idle
  BY HandledType DEF IInv
<1>2. Idle.kind = "none" /\ Idle.inc = 0
  BY DEF Idle
<1>3. formed \in 0..MaxInc /\ UNCHANGED <<formed, born>>
  BY DEF IInv, TypeOK, cp
<1>4. /\ CallsWhole' /\ AnswersTrue'
      /\ CpNamesIncarnation => RepliesNamed'
      /\ ~Jobs => \A d \in Slots : call'[d].kind # "job"
  BY <1>1, <1>2, <1>3, CallFrame
<1>5. TypeOK'
  BY <1>1, CpFrame DEF TypeOK
<1> QED
  BY <1>4, <1>5, CpFrame DEF IInv

(* The rows of a provision that was granted: the two rows of the name move *)
(* together to the account that asked.                                     *)
LEMMA OnProvisionedStep == ASSUME IInv, NEW c \in Slots, OnProvisioned(c) PROVE IInv'
<1> DEFINE n == call[c].name
           a == call[c].acct
<1>1. call[c].kind = "provision" /\ n \in Names /\ a \in Accounts /\ call[c] \in CallType
  BY DEF OnProvisioned, IInv, CallsWhole, TypeOK
<1>2. Handled(c) /\ UNCHANGED cp
  BY DEF OnProvisioned
<1>3. TypeOK /\ formed \in 0..MaxInc
  BY DEF IInv, TypeOK
<1>4. CASE UNCHANGED kv
  <2>1. CpNamesIncarnation => BindingIsOwners'
    BY <1>2, <1>3, <1>4, BindingFrame DEF cp
  <2> QED
    BY <1>2, <1>4, <2>1, KvFrame, HandledStep
<1>5. ASSUME call[c].st = "ok", NEW i \in Binding(c),
             rows' = (rows \ Superseded(a, n)) \cup {<<a, n>>},
             owner' = [owner EXCEPT ![n] = a], bound' = [bound EXCEPT ![n] = i]
      PROVE  IInv'
  <2>1. /\ i \in 0..MaxInc
        /\ CpNamesIncarnation => i # 0 /\ i \in 1..formed /\ born[i] = a
    BY <1>1, <1>3, <1>5 DEF Binding, IInv, TypeOK, RepliesNamed, AnswersTrue, CallType
  <2>2. /\ owner' \in [Names -> Accounts \cup {None}]
        /\ owner'[n] = a /\ \A m \in Names : m # n => owner'[m] = owner[m]
    BY <1>1, <1>3, <1>5 DEF TypeOK
  <2>3. /\ bound' \in [Names -> 0..MaxInc]
        /\ bound'[n] = i /\ \A m \in Names : m # n => bound'[m] = bound[m]
    BY <1>1, <1>3, <1>5, <2>1 DEF TypeOK
  <2>4. /\ <<a, n>> \in rows'
        /\ \A b \in Accounts, m \in Names : m # n => (<<b, m>> \in rows' <=> <<b, m>> \in rows)
        /\ \A b \in Accounts : b # a /\ owner[n] = b => <<b, n>> \notin rows'
        /\ \A b \in Accounts : b # a /\ <<b, n>> \in rows' => <<b, n>> \in rows
    BY <1>5 DEF Superseded
  <2>5. rows' \subseteq Accounts \X Names
    BY <1>1, <1>3, <1>5 DEF TypeOK
  <2>6. PointerIsListed'
    BY <1>3, <2>2, <2>4 DEF PointerIsListed, IInv, TypeOK
  <2>7. CpNamesIncarnation => BindingIsOwners'
    <3> SUFFICES ASSUME CpNamesIncarnation PROVE BindingIsOwners'
      OBVIOUS
    <3>1. BindingIsOwners /\ UNCHANGED <<formed, born>> /\ a # None
      BY <1>1, <1>2 DEF IInv, cp
    <3>2. ASSUME NEW m \in Names, bound'[m] # 0
          PROVE  bound'[m] \in 1..formed' /\ owner'[m] # None /\ owner'[m] = born'[bound'[m]]
      <4>1. CASE m = n
        BY <3>1, <2>1, <2>2, <2>3, <4>1
      <4>2. CASE m # n
        BY <3>1, <3>2, <2>2, <2>3, <4>2 DEF BindingIsOwners
      <4> QED
        BY <4>1, <4>2
    <3> QED
      BY <3>2 DEF BindingIsOwners
  <2>8. ~Jobs => RowsMatch'
    <3> SUFFICES ASSUME ~Jobs, NEW b \in Accounts, NEW m \in Names
                 PROVE  <<b, m>> \in rows' <=> owner'[m] = b
      BY DEF RowsMatch
    <3>1. RowsMatch
      BY DEF IInv
    <3>2. CASE m # n
      BY <3>1, <3>2, <2>2, <2>4 DEF RowsMatch
    <3>3. CASE m = n
      BY <3>1, <3>3, <1>1, <2>2, <2>4 DEF RowsMatch
    <3> QED
      BY <3>2, <3>3
  <2> QED
    BY <1>2, <2>2, <2>3, <2>5, <2>6, <2>7, <2>8, HandledStep
<1> QED
  BY <1>4, <1>5 DEF OnProvisioned

(* Clearing a name: the owner row and the incarnation row go together.     *)
LEMMA ClearStep ==
  ASSUME IInv, NEW c \in Slots, NEW n \in Names, Handled(c), UNCHANGED cp,
         rows' \subseteq rows,
         \A b \in Accounts, m \in Names : m # n => (<<b, m>> \in rows' <=> <<b, m>> \in rows),
         DropPointer(n), DropBinding(n),
         ~Jobs => \A b \in Accounts : owner[n] = b => <<b, n>> \notin rows'
  PROVE  IInv'
<1>1. TypeOK /\ formed \in 0..MaxInc /\ UNCHANGED <<formed, born>> /\ 0 \in 0..MaxInc
  BY DEF IInv, TypeOK, cp
<1>2. /\ owner' \in [Names -> Accounts \cup {None}]
      /\ owner'[n] = None /\ \A m \in Names : m # n => owner'[m] = owner[m]
  BY <1>1 DEF TypeOK, DropPointer
<1>3. /\ bound' \in [Names -> 0..MaxInc]
      /\ bound'[n] = 0 /\ \A m \in Names : m # n => bound'[m] = bound[m]
  BY <1>1 DEF TypeOK, DropBinding
<1>4. rows' \subseteq Accounts \X Names
  BY <1>1 DEF TypeOK
<1>5. PointerIsListed'
  BY <1>1, <1>2 DEF PointerIsListed, IInv, TypeOK
<1>6. CpNamesIncarnation => BindingIsOwners'
  BY <1>1, <1>2, <1>3 DEF BindingIsOwners, IInv
<1>7. ~Jobs => RowsMatch'
  <2> SUFFICES ASSUME ~Jobs, NEW b \in Accounts, NEW m \in Names
               PROVE  <<b, m>> \in rows' <=> owner'[m] = b
    BY DEF RowsMatch
  <2>1. RowsMatch
    BY DEF IInv
  <2>2. CASE m # n
    BY <2>1, <2>2, <1>2 DEF RowsMatch
  <2>3. CASE m = n
    BY <2>1, <2>3, <1>2 DEF RowsMatch
  <2> QED
    BY <2>2, <2>3
<1> QED
  BY <1>2, <1>3, <1>4, <1>5, <1>6, <1>7, HandledStep

(* A refused or failed call changes no row.                                *)
LEMMA RefusedStep == ASSUME IInv, NEW c \in Slots, Handled(c), UNCHANGED cp, UNCHANGED kv
                     PROVE  IInv'
<1>1. formed \in 0..MaxInc /\ UNCHANGED <<formed, born>>
  BY DEF IInv, TypeOK, cp
<1>2. CpNamesIncarnation => BindingIsOwners'
  BY <1>1, BindingFrame
<1> QED
  BY <1>2, KvFrame, HandledStep

(* The continuation of a delete clears the name, whoever owns it by now.   *)
LEMMA OnDeprovisionedStep == ASSUME IInv, NEW c \in Slots, OnDeprovisioned(c) PROVE IInv'
<1> DEFINE n == call[c].name
<1>1. Handled(c) /\ UNCHANGED cp /\ n \in Names
  BY DEF OnDeprovisioned, IInv, CallsWhole
<1>2. CASE rows' = rows \ {<<owner[n], n>>} /\ DropPointer(n) /\ DropBinding(n)
  BY <1>1, <1>2, ClearStep
<1>3. CASE UNCHANGED kv
  BY <1>1, <1>3, RefusedStep
<1> QED
  BY <1>2, <1>3 DEF OnDeprovisioned

(* So does the callback of the deletion job.                               *)
LEMMA OnAcctdelCpDeleteStep == ASSUME IInv, NEW c \in Slots, OnAcctdelCpDelete(c) PROVE IInv'
<1> DEFINE n == call[c].name
<1>1. Handled(c) /\ UNCHANGED cp /\ n \in Names /\ Jobs
  BY DEF OnAcctdelCpDelete, IInv, CallsWhole
<1>2. CASE rows' = rows \ {<<call[c].acct, n>>} /\ DropPointer(n) /\ DropBinding(n)
  BY <1>1, <1>2, ClearStep
<1>3. CASE UNCHANGED kv
  BY <1>1, <1>3, RefusedStep
<1> QED
  BY <1>2, <1>3 DEF OnAcctdelCpDelete

(* The control plane takes a tenant down: no row changes.                  *)
LEMMA CpDeleteStep == ASSUME IInv, NEW c \in Slots, CpDelete(c) PROVE IInv'
<1> DEFINE n == call[c].name
<1>1. /\ call[c].kind \in {"delete", "job"} /\ n \in Names /\ call[c] \in CallType
      /\ call[c].kind # "delete" => call[c].acct \in Accounts
      /\ TypeOK /\ formed \in 0..MaxInc /\ 0 \in 0..MaxInc
      /\ ~Jobs => call[c].kind # "job"
  BY DEF CpDelete, IInv, CallsWhole, TypeOK
<1>2. UNCHANGED kv
  BY DEF CpDelete
<1>3. UNCHANGED <<born, formed>> /\ served' \in [Names -> 0..MaxInc] /\ ServedFormed'
  <2>1. CASE TearDown(n)
    <3>1. /\ served' \in [Names -> 0..MaxInc]
          /\ \A m \in Names : served'[m] \in {served[m], 0}
          /\ UNCHANGED <<born, formed>>
      BY <1>1, <2>1, TearDownType
    <3> QED
      BY <1>1, <3>1 DEF IInv, ServedFormed
  <2>2. CASE UNCHANGED cp
    BY <2>2, CpFrame DEF cp
  <2> QED
    BY <2>1, <2>2 DEF CpDelete
<1>4. born' \in [Incs -> Accounts \cup {None}] /\ formed' \in 0..MaxInc
  BY <1>1, <1>3 DEF TypeOK
<1>5. CpNamesIncarnation => BindingIsOwners'
  BY <1>1, <1>2, <1>3, BindingFrame
<1>6. ASSUME NEW st \in {"ok", "refused"}, Answer(c, st, 0)
      PROVE  /\ call' \in [Slots -> CallType]
             /\ CallsWhole' /\ AnswersTrue'
             /\ CpNamesIncarnation => RepliesNamed'
             /\ ~Jobs => \A d \in Slots : call'[d].kind # "job"
  <2> DEFINE r == [call[c] EXCEPT !.st = st, !.inc = 0]
  <2>1. /\ r.kind = call[c].kind /\ r.acct = call[c].acct /\ r.name = n
        /\ r.st = st /\ r.inc = 0
    BY <1>1 DEF CallType
  <2>2. /\ call' \in [Slots -> CallType]
        /\ \A d \in Slots : d # c => call'[d] = call[d]
        /\ call'[c] = r
    <3>1. TypeOK /\ 0 \in 0..MaxInc /\ Answer(c, st, 0)
      BY <1>1, <1>6
    <3> QED
      BY <3>1, AnswerType
  <2> HIDE DEF r
  <2> QED
    BY <1>1, <1>3, <2>1, <2>2, CallFrame
<1>7. CASE UNCHANGED call
  <2>1. /\ call' \in [Slots -> CallType]
        /\ CallsWhole' /\ AnswersTrue'
        /\ CpNamesIncarnation => RepliesNamed'
        /\ ~Jobs => \A d \in Slots : call'[d].kind # "job"
    BY <1>1, <1>3, <1>7 DEF IInv, TypeOK, CallsWhole, AnswersTrue, RepliesNamed
  <2> QED
    BY <1>2, <1>3, <1>4, <1>5, <2>1, KvFrame DEF IInv, TypeOK
<1>8. ASSUME NEW st \in {"ok", "refused"}, Answer(c, st, 0) PROVE IInv'
  BY <1>2, <1>3, <1>4, <1>5, <1>6, <1>8, KvFrame DEF IInv, TypeOK
<1> QED
  BY <1>7, <1>8 DEF CpDelete

(* Steps outside the calls: a lifetime formed or taken down, an owner row  *)
(* set where there was none, an incarnation row set by an operator.        *)
LEMMA OtherStep ==
  ASSUME IInv, UNCHANGED call,
         rows' \subseteq Accounts \X Names, owner' \in [Names -> Accounts \cup {None}],
         bound' \in [Names -> 0..MaxInc], served' \in [Names -> 0..MaxInc],
         born' \in [Incs -> Accounts \cup {None}], formed' \in 0..MaxInc,
         formed <= formed', \A i \in 1..formed : born'[i] = born[i],
         ServedFormed', PointerIsListed', CpNamesIncarnation => BindingIsOwners',
         ~Jobs => RowsMatch'
  PROVE  IInv'
<1>1. formed \in Nat
  BY DEF IInv, TypeOK
<1>2. CallsWhole' /\ (CpNamesIncarnation => RepliesNamed')
  BY DEF IInv, CallsWhole, RepliesNamed
<1>3. AnswersTrue'
  <2>1. AnswersTrue
    BY DEF IInv
  <2> QED
    BY <1>1, <2>1 DEF AnswersTrue
<1>4. TypeOK'
  BY DEF IInv, TypeOK
<1> QED
  BY <1>2, <1>3, <1>4 DEF IInv

(* Backfill gives an owner row only where there was none.                  *)
LEMMA BackfillStep == ASSUME IInv, NEW a \in Accounts, Backfill(a) PROVE IInv'
<1>1. TypeOK /\ UNCHANGED <<rows, bound, cp, call>> /\ UNCHANGED <<born, formed>>
  BY DEF IInv, Backfill, cp
<1>2. owner' \in [Names -> Accounts \cup {None}]
  BY <1>1 DEF Backfill, TypeOK
<1>3. \A n \in Names : owner'[n] = IF n \in Unpointed(a) THEN a ELSE owner[n]
  BY DEF Backfill
<1>4. PointerIsListed'
  BY <1>1, <1>3 DEF PointerIsListed, IInv, Unpointed, Owned
<1>5. CpNamesIncarnation => BindingIsOwners'
  BY <1>1, <1>3 DEF BindingIsOwners, IInv, Unpointed
<1>6. ~Jobs => RowsMatch'
  BY <1>1, <1>3 DEF RowsMatch, IInv, Unpointed, Owned
<1>7. formed \in 0..MaxInc /\ formed <= formed'
  BY <1>1 DEF TypeOK
<1> QED
  BY <1>1, <1>2, <1>4, <1>5, <1>6, <1>7, CpFrame, OtherStep DEF TypeOK

(* An operator's binding names a lifetime formed for the owner.            *)
LEMMA BindStep == ASSUME IInv, NEW n \in Names, Bind(n) PROVE IInv'
<1>1. TypeOK /\ UNCHANGED <<rows, owner, cp, call>> /\ UNCHANGED <<born, formed, served>>
  BY DEF IInv, Bind, cp
<1>2. served[n] \in 0..formed /\ served[n] # 0 /\ formed \in 0..MaxInc
  BY <1>1 DEF IInv, ServedFormed, Bind, TypeOK
<1>3. /\ bound' \in [Names -> 0..MaxInc]
      /\ bound'[n] = served[n] /\ \A m \in Names : m # n => bound'[m] = bound[m]
  BY <1>1 DEF TypeOK, Bind
<1>4. CpNamesIncarnation => BindingIsOwners'
  <2> SUFFICES ASSUME CpNamesIncarnation, NEW m \in Names, bound'[m] # 0
               PROVE  bound'[m] \in 1..formed' /\ owner'[m] # None /\ owner'[m] = born'[bound'[m]]
    BY DEF BindingIsOwners
  <2>1. CASE m = n
    BY <1>1, <1>2, <1>3, <2>1 DEF Bind
  <2>2. CASE m # n
    BY <1>1, <1>3, <2>2 DEF BindingIsOwners, IInv
  <2> QED
    BY <2>1, <2>2
<1>5. PointerIsListed' /\ (~Jobs => RowsMatch')
  BY <1>1 DEF PointerIsListed, RowsMatch, IInv
<1>6. formed <= formed'
  BY <1>1, <1>2
<1> QED
  BY <1>1, <1>3, <1>4, <1>5, <1>6, CpFrame, OtherStep DEF TypeOK

(* Operators' own control-plane calls change no row.                       *)
LEMMA OperatorStep ==
  ASSUME IInv, NEW n \in Names, OperatorProvision(n) \/ OperatorDelete(n) PROVE IInv'
<1>1. TypeOK /\ UNCHANGED <<kv, call>> /\ formed \in 0..MaxInc
  BY DEF IInv, TypeOK, OperatorProvision, OperatorDelete
<1>2. /\ served' \in [Names -> 0..MaxInc] /\ born' \in [Incs -> Accounts \cup {None}]
      /\ formed' \in 0..MaxInc /\ formed <= formed'
      /\ \A i \in 1..formed : born'[i] = born[i]
      /\ ServedFormed'
  <2>1. CASE Form(n, None)
    <3>1. /\ served' \in [Names -> 0..MaxInc] /\ born' \in [Incs -> Accounts \cup {None}]
          /\ formed' \in 0..MaxInc /\ formed' = formed + 1
          /\ served'[n] = formed + 1
          /\ \A m \in Names : m # n => served'[m] = served[m]
          /\ \A i \in 1..formed : born'[i] = born[i]
      BY <1>1, <2>1, FormType
    <3> QED
      BY <1>1, <3>1 DEF IInv, ServedFormed
  <2>2. CASE TearDown(n)
    <3>1. /\ served' \in [Names -> 0..MaxInc]
          /\ \A m \in Names : served'[m] \in {served[m], 0}
          /\ UNCHANGED <<born, formed>>
      BY <1>1, <2>2, TearDownType
    <3> QED
      BY <1>1, <3>1 DEF IInv, ServedFormed, TypeOK
  <2> QED
    BY <2>1, <2>2 DEF OperatorProvision, OperatorDelete
<1>3. CpNamesIncarnation => BindingIsOwners'
  BY <1>1, <1>2, BindingFrame
<1> QED
  BY <1>1, <1>2, <1>3, KvFrame, OtherStep

-----------------------------------------------------------------------------
(* Every step keeps the invariant.                                         *)
LEMMA NextIInv == IInv /\ [Next]_vars => IInv'
<1> SUFFICES ASSUME IInv, [Next]_vars PROVE IInv'
  OBVIOUS
<1>1. ASSUME NEW c \in Slots, NEW a \in Accounts, NEW n \in Names,
             StartProvision(c, a, n) \/ StartJobDelete(c, a, n) PROVE IInv'
  BY <1>1, IssueStep DEF StartProvision, StartJobDelete
<1>2. ASSUME NEW c \in Slots, NEW a \in Accounts \cup {None}, NEW n \in Names,
             StartDelete(c, a, n) PROVE IInv'
  BY <1>2, IssueStep DEF StartDelete
<1>3. CASE UNCHANGED vars
  <2>1. UNCHANGED <<kv, cp, call>> /\ TypeOK /\ UNCHANGED <<born, formed>>
    BY <1>3 DEF vars, kv, cp, IInv
  <2>2. formed \in 0..MaxInc /\ formed <= formed'
    BY <2>1 DEF TypeOK
  <2>3. CpNamesIncarnation => BindingIsOwners'
    BY <2>1, <2>2, BindingFrame
  <2> QED
    BY <2>1, <2>2, <2>3, KvFrame, CpFrame, OtherStep
<1> QED
  BY <1>1, <1>2, <1>3, CpProvisionStep, OnProvisionedStep, CpDeleteStep, OnDeprovisionedStep,
     OnAcctdelCpDeleteStep, BackfillStep, BindStep, OperatorStep DEF Next

(* The inductive invariant holds in every reachable state.                 *)
THEOREM Inductive == Spec => []IInv
  BY InitIInv, NextIInv, PTL DEF Spec

(* The variables keep their types.                                         *)
THEOREM TypeCorrect == Spec => []TypeOK
<1>1. IInv => TypeOK
  BY DEF IInv
<1> QED
  BY <1>1, Inductive, PTL

(* An owner row never names an account that does not list the tenant,      *)
(* deletions of accounts included.                                         *)
THEOREM PointerIsListedAlways == Spec => []PointerIsListed
<1>1. IInv => PointerIsListed
  BY DEF IInv
<1> QED
  BY <1>1, Inductive, PTL

(* While no account is deleted, one account lists a name: its owner.       *)
THEOREM RowsMatchAlways == ASSUME ~Jobs PROVE Spec => []RowsMatch
<1>1. IInv => RowsMatch
  BY DEF IInv
<1> QED
  BY <1>1, Inductive, PTL

(* Under a control plane that names incarnations, the incarnation row of a *)
(* name is of its owner.                                                   *)
THEOREM BindingIsOwnersAlways == ASSUME CpNamesIncarnation PROVE Spec => []BindingIsOwners
<1>1. IInv => BindingIsOwners
  BY DEF IInv
<1> QED
  BY <1>1, Inductive, PTL

(* So only the account that provisioned the lifetime being served is let   *)
(* in to it.                                                               *)
THEOREM NoForeignAccessAlways == ASSUME CpNamesIncarnation PROVE Spec => []NoForeignAccess
<1>1. BindingIsOwners => NoForeignAccess
  BY DEF BindingIsOwners, NoForeignAccess, CanAccess
<1> QED
  BY <1>1, BindingIsOwnersAlways, PTL

HIDE TenancyAssumption

------------------------------------------------------------------------------
(* SourceReads.  A context that rides between two hops holds what the hops   *)
(* before them read, in the order of its manifest.                          *)

PathsOf(m) == [i \in 1..Len(HandlersOf(m)) |-> HandlersOf(m)[i].path]

FileNames == {want.path : want \in Wants} \cup UNION {ToSet(m.files) : m \in Manifests}
Gots == [of : FileNames, missing : BOOLEAN]

(* The first n of the names have been asked for.                            *)
Holds(got, names, n) ==
    got \in Seq(Gots) /\ Len(got) = n /\ \A i \in 1..n : got[i].of = names[i]

AtManifest == [at : {"manifest", "blob"}, want : Wants, dep : Manifests]
AtSource == [at : {"source"}, want : Wants, dep : Manifests, idx : Nat, acc : Seq(Gots)]
AtPkgSource == [at : {"pkgsource"}, want : Wants, dep : Manifests, idx : Nat, acc : Seq(Gots),
                handlers : Seq(Gots)]
AtAnswer == [at : {"answered"}, want : Wants, dep : Manifests, sources : Seq(Gots), files : Seq(Gots)]

Contexts == [at : {"none", "refused", "dead"}] \cup [at : {"current"}, want : Wants]
            \cup [at : {"resolved"}, want : Wants, dep : Manifests \cup {NoManifest}]
            \cup AtManifest \cup AtSource \cup AtPkgSource \cup AtAnswer

(* What a context says of the files read so far.                            *)
ContextTrue(c) ==
    /\ c \in Contexts
    /\ c.at = "blob" => c.want.path # "all"
    /\ c.at = "source" =>
         /\ c.want.path = "all" /\ c.idx \in 1..Len(HandlersOf(c.dep))
         /\ Holds(c.acc, PathsOf(c.dep), c.idx - 1)
    /\ c.at = "pkgsource" =>
         /\ c.want.path = "all" /\ c.idx \in 1..Len(c.dep.files)
         /\ Holds(c.handlers, PathsOf(c.dep), Len(HandlersOf(c.dep)))
         /\ Holds(c.acc, c.dep.files, c.idx - 1)
    /\ c.at = "answered" =>
         IF c.want.path = "all"
         THEN /\ Holds(c.sources, PathsOf(c.dep), Len(HandlersOf(c.dep)))
              /\ Holds(c.files, c.dep.files, Len(c.dep.files))
         ELSE Holds(c.sources, <<c.want.path>>, 1)

ReadsInv ==
    /\ current \in Manifests \cup {NoManifest}
    /\ chain \in [Readers -> Contexts]
    /\ \A r \in Readers : ContextTrue(chain[r])
    /\ \A r \in Readers : chain[r].at \in {"answered", "refused"} => r \notin row

LEMMA Singleton ==
  ASSUME NEW x
  PROVE  /\ Len(<<x>>) = 1 /\ <<x>>[1] = x /\ \A S : x \in S => <<x>> \in Seq(S)
         /\ <<x>> = [i \in 1..1 |-> x]
  OBVIOUS

LEMMA ReadsInitInv == ReadsInit => ReadsInv
  BY DEF ReadsInit, ReadsInv, NotStarted, ContextTrue, Contexts

(* What kind of context waits for a hop.                                    *)
LEMMA ContextOf ==
  ASSUME NEW c \in Contexts
  PROVE  /\ c.at = "resolved" => c \in [at : {"resolved"}, want : Wants, dep : Manifests \cup {NoManifest}]
         /\ c.at = "current" => c \in [at : {"current"}, want : Wants]
         /\ c.at \in {"manifest", "blob"} => c \in AtManifest
         /\ c.at = "source" => c \in AtSource
         /\ c.at = "pkgsource" => c \in AtPkgSource
  BY DEF Contexts, AtManifest, AtSource, AtPkgSource, AtAnswer

(* A hop changes one chain, and its row only if it resolves or responds.    *)
LEMMA ChainStep ==
  ASSUME ReadsInv, NEW r \in Readers, NEW c, ContextTrue(c), UNCHANGED current,
         chain' = [chain EXCEPT ![r] = c],
         \/ row' = row /\ c.at \notin {"answered", "refused"}
         \/ row' = row \cup {r} /\ c.at \notin {"answered", "refused"}
         \/ row' = row \ {r}
  PROVE  ReadsInv'
<1>1. c \in Contexts
  BY DEF ContextTrue
<1>2. chain' \in [Readers -> Contexts] /\ chain'[r] = c
      /\ \A s \in Readers \ {r} : chain'[s] = chain[s]
  BY <1>1 DEF ReadsInv
<1>3. \A s \in Readers : ContextTrue(chain'[s])
  BY <1>2 DEF ReadsInv
<1>4. \A s \in Readers : chain'[s].at \in {"answered", "refused"} => s \notin row'
  BY <1>2 DEF ReadsInv
<1> QED
  BY <1>2, <1>3, <1>4 DEF ReadsInv

(* The handlers and the package files of a manifest have names.             *)
LEMMA NamesMatch ==
  ASSUME NEW m \in Manifests
  PROVE  /\ Len(HandlersOf(m)) \in Nat /\ Len(m.files) \in Nat
         /\ HandlersOf(m) = <<>> <=> Len(HandlersOf(m)) = 0
         /\ m.files = <<>> <=> Len(m.files) = 0
         /\ DOMAIN HandlersOf(m) = 1..Len(HandlersOf(m))
         /\ m.files = [i \in 1..Len(m.files) |-> m.files[i]]
         /\ \A i \in 1..Len(HandlersOf(m)) : HandlersOf(m)[i].path \in FileNames
         /\ \A i \in 1..Len(m.files) : m.files[i] \in FileNames
<1>1. HandlersOf(m) \in Seq(ToSet(m.entries)) /\ m.files \in Seq(ToSet(m.files))
  BY ReadsAssumption
<1>2. \A e \in ToSet(m.entries) : e.path \in FileNames
  <2> SUFFICES ASSUME NEW e \in ToSet(m.entries) PROVE e.path \in FileNames
    OBVIOUS
  <2>1. [path |-> e.path] \in Wants
    BY DEF Wants
  <2>2. [path |-> e.path].path = e.path
    OBVIOUS
  <2> QED
    BY <2>1, <2>2 DEF FileNames
<1>3. \A f \in ToSet(m.files) : f \in FileNames
  BY DEF FileNames
<1> QED
  BY <1>1, <1>2, <1>3, LenProperties, ElementOfSeq, EmptySeq

(* One more file was read, or could not be.                                 *)
LEMMA OneMore ==
  ASSUME NEW got, NEW names, NEW n \in Nat, Holds(got, names, n), NEW name \in FileNames,
         names[n + 1] = name, NEW ok \in BOOLEAN
  PROVE  Holds(Append(got, Got(name, ok)), names, n + 1)
<1>1. Got(name, ok) \in Gots /\ Got(name, ok).of = name
  BY DEF Got, Gots
<1>2. /\ Append(got, Got(name, ok)) \in Seq(Gots) /\ Len(Append(got, Got(name, ok))) = n + 1
      /\ \A i \in 1..n : Append(got, Got(name, ok))[i] = got[i]
      /\ Append(got, Got(name, ok))[n + 1] = Got(name, ok)
  BY <1>1, AppendProperties DEF Holds
<1> QED
  BY <1>1, <1>2 DEF Holds

LEMMA SameNames ==
  ASSUME NEW got, NEW names, NEW n \in Nat, Holds(got, names, n)
  PROVE  NamesOf(got) = [i \in 1..n |-> names[i]]
<1>1. DOMAIN got = 1..n
  BY LenProperties DEF Holds
<1>2. NamesOf(got) = [i \in 1..n |-> got[i].of]
  BY <1>1 DEF NamesOf
<1>3. \A i \in 1..n : got[i].of = names[i]
  BY DEF Holds
<1> QED
  BY <1>2, <1>3

LEMMA NoneYet == ASSUME NEW names PROVE Holds(<<>>, names, 0)
  BY EmptySeq DEF Holds

(* The package files are next, or there are none.                           *)
LEMMA StartPkgStep ==
  ASSUME ReadsInv, NEW r \in Readers, NEW c, c \in AtManifest \cup AtSource, NEW acc,
         c.want.path = "all", Holds(acc, PathsOf(c.dep), Len(HandlersOf(c.dep))),
         StartPkgSources(r, c, acc), UNCHANGED current
  PROVE  ReadsInv'
<1>1. c.dep \in Manifests /\ c.want \in Wants /\ acc \in Seq(Gots)
  BY DEF AtManifest, AtSource, Holds
<1>2. CASE c.dep.files = <<>>
  <2> DEFINE d == [at |-> "answered", want |-> c.want, dep |-> c.dep, sources |-> acc, files |-> <<>>]
  <2>1. chain' = [chain EXCEPT ![r] = d] /\ row' = row \ {r}
    BY <1>2 DEF StartPkgSources, FinishSources, Respond
  <2>2. Len(c.dep.files) = 0
    BY <1>1, <1>2, NamesMatch
  <2>3. Holds(<<>>, c.dep.files, 0) /\ <<>> \in Seq(Gots)
    BY NoneYet, EmptySeq
  <2>4. d \in AtAnswer
    BY <1>1, <2>3 DEF AtAnswer
  <2>5. ContextTrue(d)
    BY <2>2, <2>3, <2>4 DEF ContextTrue, Contexts
  <2> HIDE DEF d
  <2> QED
    BY <2>1, <2>5, ChainStep
<1>3. CASE c.dep.files # <<>>
  <2> DEFINE d == [at |-> "pkgsource", want |-> c.want, dep |-> c.dep, idx |-> 1, acc |-> <<>>,
                   handlers |-> acc]
  <2>1. chain' = [chain EXCEPT ![r] = d] /\ row' = row
    BY <1>3 DEF StartPkgSources, ParkRead
  <2>2. 1 \in 1..Len(c.dep.files)
    BY <1>1, <1>3, NamesMatch
  <2>3. Holds(<<>>, c.dep.files, 0) /\ <<>> \in Seq(Gots)
    BY NoneYet, EmptySeq
  <2>4. d \in AtPkgSource /\ d.at = "pkgsource"
    BY <1>1, <2>3 DEF AtPkgSource
  <2>5. ContextTrue(d)
    BY <2>2, <2>3, <2>4 DEF ContextTrue, Contexts
  <2> HIDE DEF d
  <2> QED
    BY <2>1, <2>4, <2>5, ChainStep
<1> QED
  BY <1>2, <1>3

LEMMA Refusal == ASSUME NEW c, c \in [at : {"refused", "dead", "none"}] PROVE ContextTrue(c)
  BY DEF ContextTrue, Contexts

(* The request, the dispatched read and the hop that looks at its result.   *)
LEMMA FirstHops ==
  ASSUME ReadsInv, NEW r \in Readers, HandleRead(r) \/ Resolve(r) \/ ReadSourcesCur(r)
  PROVE  ReadsInv'
<1>1. CASE HandleRead(r)
  <2>1. PICK want \in Wants :
          \/ ParkRead(r, [at |-> "current", want |-> want])
          \/ \E m \in Manifests : ParkRead(r, [at |-> "manifest", want |-> want, dep |-> m])
    BY <1>1 DEF HandleRead
  <2>2. ContextTrue([at |-> "current", want |-> want])
    BY DEF ContextTrue, Contexts
  <2>3. \A m \in Manifests : ContextTrue([at |-> "manifest", want |-> want, dep |-> m])
    BY DEF ContextTrue, Contexts, AtManifest
  <2> QED
    BY <1>1, <2>1, <2>2, <2>3, ChainStep DEF HandleRead, ParkRead
<1>2. CASE Resolve(r)
  <2>1. chain[r] \in [at : {"current"}, want : Wants]
    BY <1>2, ContextOf DEF Resolve, ReadsInv
  <2> DEFINE d == [at |-> "resolved", want |-> chain[r].want, dep |-> current]
  <2>2. ContextTrue(d) /\ d.at = "resolved"
    BY <2>1 DEF ContextTrue, Contexts, ReadsInv
  <2>3. chain' = [chain EXCEPT ![r] = d] /\ row' = row \cup {r} /\ UNCHANGED current
    BY <1>2 DEF Resolve
  <2> HIDE DEF d
  <2> QED
    BY <2>2, <2>3, ChainStep
<1>3. CASE ReadSourcesCur(r)
  <2>1. chain[r] \in [at : {"resolved"}, want : Wants, dep : Manifests \cup {NoManifest}]
    BY <1>3, ContextOf DEF ReadSourcesCur, ReadsInv
  <2>2. CASE chain[r].dep = NoManifest
    BY <1>3, <2>2, Refusal, ChainStep DEF ReadSourcesCur, Respond
  <2>3. CASE chain[r].dep # NoManifest
    <3>1. [chain[r] EXCEPT !.at = "manifest"] \in AtManifest
          /\ [chain[r] EXCEPT !.at = "manifest"].at = "manifest"
      BY <2>1, <2>3 DEF AtManifest
    <3>2. ContextTrue([chain[r] EXCEPT !.at = "manifest"])
      BY <3>1 DEF ContextTrue, Contexts
    <3> QED
      BY <1>3, <2>3, <3>1, <3>2, ChainStep DEF ReadSourcesCur, ParkRead
  <2> QED
    BY <2>2, <2>3
<1> QED
  BY <1>1, <1>2, <1>3

(* The manifest of a whole deployment.                                      *)
LEMMA ManifestHop == ASSUME ReadsInv, NEW r \in Readers, OnManifest(r) PROVE ReadsInv'
<1> DEFINE c == chain[r]
<1>1. c \in AtManifest /\ c.want.path = "all" /\ c.dep \in Manifests /\ c.want \in Wants /\ UNCHANGED current
  BY ContextOf DEF OnManifest, ReadsInv, AtManifest
<1>2. CASE Respond(r, [at |-> "refused"])
  BY <1>1, <1>2, Refusal, ChainStep DEF Respond
<1>3. CASE HandlersOf(c.dep) = <<>> /\ StartPkgSources(r, c, <<>>)
  <2>1. Holds(<<>>, PathsOf(c.dep), Len(HandlersOf(c.dep)))
    BY <1>1, <1>3, NoneYet, NamesMatch
  <2> HIDE DEF c
  <2> QED
    BY <1>1, <1>3, <2>1, StartPkgStep
<1>4. CASE /\ HandlersOf(c.dep) # <<>>
           /\ ParkRead(r, [at |-> "source", want |-> c.want, dep |-> c.dep, idx |-> 1, acc |-> <<>>])
           /\ UNCHANGED row
  <2> DEFINE d == [at |-> "source", want |-> c.want, dep |-> c.dep, idx |-> 1, acc |-> <<>>]
  <2>1. chain' = [chain EXCEPT ![r] = d] /\ row' = row
    BY <1>4 DEF ParkRead
  <2> HIDE DEF c
  <2>2. 1 \in 1..Len(HandlersOf(c.dep))
    BY <1>1, <1>4, NamesMatch
  <2>3. Holds(<<>>, PathsOf(c.dep), 0) /\ <<>> \in Seq(Gots)
    BY NoneYet, EmptySeq
  <2>4. d \in AtSource /\ d.at = "source"
    BY <1>1, <2>3 DEF AtSource
  <2>5. ContextTrue(d)
    BY <1>1, <2>2, <2>3, <2>4 DEF ContextTrue, Contexts
  <2> HIDE DEF d
  <2> QED
    BY <1>1, <2>1, <2>4, <2>5, ChainStep
<1> QED
  BY <1>2, <1>3, <1>4 DEF OnManifest

(* A handler's source.                                                      *)
LEMMA SourceHop == ASSUME ReadsInv, NEW r \in Readers, OnModuleSource(r) PROVE ReadsInv'
<1> DEFINE c == chain[r]
           n == Len(HandlersOf(c.dep))
<1>1. /\ c \in AtSource /\ c.want.path = "all" /\ c.dep \in Manifests /\ c.want \in Wants
      /\ c.idx \in 1..n /\ n \in Nat /\ Holds(c.acc, PathsOf(c.dep), c.idx - 1)
      /\ c.at = "source" /\ UNCHANGED current
  BY ContextOf, NamesMatch DEF OnModuleSource, ReadsInv, AtSource, ContextTrue
<1>2. PICK ok \in BOOLEAN :
        LET acc == Append(c.acc, Got(HandlersOf(c.dep)[c.idx].path, ok))
        IN IF More(c.idx, HandlersOf(c.dep))
           THEN ParkRead(r, [c EXCEPT !.idx = @ + 1, !.acc = acc]) /\ UNCHANGED row
           ELSE StartPkgSources(r, c, acc)
  BY DEF OnModuleSource
<1> DEFINE acc == Append(c.acc, Got(HandlersOf(c.dep)[c.idx].path, ok))
           d == [c EXCEPT !.idx = c.idx + 1, !.acc = acc]
<1>3. Holds(acc, PathsOf(c.dep), c.idx)
  <2> HIDE DEF c
  <2>1. c.idx - 1 \in Nat /\ (c.idx - 1) + 1 = c.idx
    BY <1>1
  <2>2. HandlersOf(c.dep)[c.idx].path \in FileNames
    BY <1>1, NamesMatch
  <2>3. PathsOf(c.dep)[c.idx] = HandlersOf(c.dep)[c.idx].path
    BY <1>1 DEF PathsOf
  <2> QED
    BY <1>1, <2>1, <2>2, <2>3, OneMore
<1>4. CASE c.idx < n
  <2>1. chain' = [chain EXCEPT ![r] = d] /\ row' = row
    BY <1>2, <1>4 DEF ParkRead, More
  <2>2. acc \in Seq(Gots)
    BY <1>3 DEF Holds
  <2> HIDE DEF c, acc
  <2>3. /\ d \in AtSource /\ d.at = "source" /\ d.want = c.want /\ d.dep = c.dep
        /\ d.idx = c.idx + 1 /\ d.acc = acc
    <3>1. c \in AtSource /\ c.idx + 1 \in Nat
      BY <1>1 DEF AtSource
    <3> QED
      BY <2>2, <3>1 DEF AtSource
  <2>4. ContextTrue(d)
    BY <1>1, <1>3, <1>4, <2>3 DEF ContextTrue, Contexts
  <2> HIDE DEF d
  <2> QED
    BY <1>1, <2>1, <2>3, <2>4, ChainStep
<1>5. CASE ~(c.idx < n)
  <2>1. StartPkgSources(r, c, acc)
    BY <1>2, <1>5 DEF More
  <2>2. c.idx = n
    BY <1>1, <1>5
  <2> HIDE DEF c, acc
  <2> QED
    BY <1>1, <1>3, <2>1, <2>2, StartPkgStep
<1> QED
  BY <1>4, <1>5

(* A package file.                                                          *)
LEMMA PkgSourceHop == ASSUME ReadsInv, NEW r \in Readers, OnPkgSource(r) PROVE ReadsInv'
<1> DEFINE c == chain[r]
           n == Len(c.dep.files)
<1>1. /\ c \in AtPkgSource /\ c.want.path = "all" /\ c.dep \in Manifests /\ c.want \in Wants
      /\ c.idx \in 1..n /\ n \in Nat /\ Holds(c.acc, c.dep.files, c.idx - 1)
      /\ c.handlers \in Seq(Gots) /\ Holds(c.handlers, PathsOf(c.dep), Len(HandlersOf(c.dep)))
      /\ c.at = "pkgsource" /\ UNCHANGED current
  BY ContextOf, NamesMatch DEF OnPkgSource, ReadsInv, AtPkgSource, ContextTrue
<1>2. PICK ok \in BOOLEAN :
        LET acc == Append(c.acc, Got(c.dep.files[c.idx], ok))
        IN IF More(c.idx, c.dep.files)
           THEN ParkRead(r, [c EXCEPT !.idx = @ + 1, !.acc = acc]) /\ UNCHANGED row
           ELSE FinishSources(r, c, c.handlers, acc)
  BY DEF OnPkgSource
<1> DEFINE acc == Append(c.acc, Got(c.dep.files[c.idx], ok))
           d == [c EXCEPT !.idx = c.idx + 1, !.acc = acc]
           a == [at |-> "answered", want |-> c.want, dep |-> c.dep, sources |-> c.handlers, files |-> acc]
<1>3. Holds(acc, c.dep.files, c.idx)
  <2>1. c.dep.files[c.idx] \in FileNames
    BY <1>1, NamesMatch
  <2>2. c.idx - 1 \in Nat /\ (c.idx - 1) + 1 = c.idx
    BY <1>1
  <2> HIDE DEF c
  <2> QED
    BY <1>1, <2>1, <2>2, OneMore
<1>4. CASE c.idx < n
  <2>1. chain' = [chain EXCEPT ![r] = d] /\ row' = row
    BY <1>2, <1>4 DEF ParkRead, More
  <2>2. acc \in Seq(Gots)
    BY <1>3 DEF Holds
  <2> HIDE DEF c, acc
  <2>3. /\ d \in AtPkgSource /\ d.at = "pkgsource" /\ d.want = c.want /\ d.dep = c.dep
        /\ d.idx = c.idx + 1 /\ d.acc = acc /\ d.handlers = c.handlers
    <3>1. c \in AtPkgSource /\ c.idx + 1 \in Nat
      BY <1>1 DEF AtPkgSource
    <3> QED
      BY <2>2, <3>1 DEF AtPkgSource
  <2>4. ContextTrue(d)
    BY <1>1, <1>3, <1>4, <2>3 DEF ContextTrue, Contexts
  <2> HIDE DEF d
  <2> QED
    BY <1>1, <2>1, <2>3, <2>4, ChainStep
<1>5. CASE ~(c.idx < n)
  <2>1. chain' = [chain EXCEPT ![r] = a] /\ row' = row \ {r}
    BY <1>2, <1>5 DEF More, FinishSources, Respond
  <2>2. c.idx = n /\ acc \in Seq(Gots)
    BY <1>1, <1>3, <1>5 DEF Holds
  <2> HIDE DEF c, acc
  <2>3. a \in AtAnswer
    BY <1>1, <2>2 DEF AtAnswer
  <2>4. ContextTrue(a)
    BY <1>1, <1>3, <2>2, <2>3 DEF ContextTrue, Contexts
  <2> HIDE DEF a
  <2> QED
    BY <1>1, <2>1, <2>4, ChainStep
<1> QED
  BY <1>4, <1>5

(* One file.                                                                *)
LEMMA FileHops ==
  ASSUME ReadsInv, NEW r \in Readers, OnSourceFileManifest(r) \/ OnSourceFileBlob(r)
  PROVE  ReadsInv'
<1> DEFINE c == chain[r]
<1>1. c \in AtManifest /\ c.dep \in Manifests /\ c.want \in Wants /\ c.want.path # "all" /\ UNCHANGED current
  BY ContextOf DEF OnSourceFileManifest, OnSourceFileBlob, ReadsInv, AtManifest, ContextTrue
<1>2. CASE Respond(r, [at |-> "refused"])
  BY <1>1, <1>2, Refusal, ChainStep DEF Respond
<1>3. CASE ParkRead(r, [c EXCEPT !.at = "blob"]) /\ UNCHANGED row
  <2> DEFINE d == [c EXCEPT !.at = "blob"]
  <2>1. chain' = [chain EXCEPT ![r] = d] /\ row' = row
    BY <1>3 DEF ParkRead
  <2> HIDE DEF c
  <2>2. d \in AtManifest /\ d.at = "blob" /\ d.want = c.want
    BY <1>1 DEF AtManifest
  <2>3. ContextTrue(d)
    BY <1>1, <2>2 DEF ContextTrue, Contexts
  <2> HIDE DEF d
  <2> QED
    BY <1>1, <2>1, <2>2, <2>3, ChainStep
<1>4. CASE FinishSources(r, c, <<Got(c.want.path, TRUE)>>, <<>>)
  <2> DEFINE got == <<Got(c.want.path, TRUE)>>
             d == [at |-> "answered", want |-> c.want, dep |-> c.dep, sources |-> got, files |-> <<>>]
  <2>1. chain' = [chain EXCEPT ![r] = d] /\ row' = row \ {r}
    BY <1>4 DEF FinishSources, Respond
  <2> HIDE DEF c
  <2>2. Got(c.want.path, TRUE) \in Gots /\ Got(c.want.path, TRUE).of = c.want.path
    BY <1>1 DEF Got, Gots, FileNames
  <2>3. got \in Seq(Gots) /\ Len(got) = 1 /\ got[1] = Got(c.want.path, TRUE) /\ <<>> \in Seq(Gots)
    BY <2>2, Singleton, EmptySeq
  <2> HIDE DEF got
  <2>4. Holds(got, <<c.want.path>>, 1)
    <3>1. <<c.want.path>>[1] = c.want.path
      BY Singleton
    <3>2. ASSUME NEW i \in 1..1 PROVE got[i].of = <<c.want.path>>[i]
      <4>1. i = 1
        OBVIOUS
      <4> QED
        BY <2>2, <2>3, <3>1, <4>1
    <3> QED
      BY <2>3, <3>2 DEF Holds
  <2>5. d \in AtAnswer
    BY <1>1, <2>3 DEF AtAnswer
  <2>6. ContextTrue(d)
    BY <1>1, <2>4, <2>5 DEF ContextTrue, Contexts
  <2> HIDE DEF d
  <2> QED
    BY <1>1, <2>1, <2>6, ChainStep
<1> QED
  BY <1>2, <1>3, <1>4 DEF OnSourceFileManifest, OnSourceFileBlob

LEMMA ReadsNextInv == ASSUME ReadsInv, [ReadsNext]_readVars PROVE ReadsInv'
<1>1. ASSUME NEW r \in Readers, Drop(r) PROVE ReadsInv'
  BY <1>1, Refusal, ChainStep DEF Drop, ParkRead
<1>2. ASSUME NEW m \in Manifests, Release(m) PROVE ReadsInv'
  BY <1>2 DEF Release, ReadsInv
<1>3. CASE UNCHANGED readVars
  BY <1>3 DEF readVars, ReadsInv
<1> QED
  BY <1>1, <1>2, <1>3, FirstHops, ManifestHop, SourceHop, PkgSourceHop, FileHops DEF ReadsNext, Hop

(* However many hops it took, and whatever was released or dropped          *)
(* meanwhile, an answer is of one deployment, whole and in its order, and a *)
(* chain that ended with a response has left no row.                        *)
THEOREM SourcesAreAlwaysWhole == ReadsSpec => []SourcesAreWhole
<1>1. ReadsInv => SourcesAreWhole
  <2> SUFFICES ASSUME ReadsInv, NEW r \in Readers, chain[r].at = "answered"
               PROVE  LET c == chain[r] IN
                      IF c.want.path = "all"
                      THEN /\ NamesOf(c.sources) = [i \in DOMAIN HandlersOf(c.dep) |-> HandlersOf(c.dep)[i].path]
                           /\ NamesOf(c.files) = c.dep.files
                      ELSE NamesOf(c.sources) = <<c.want.path>>
    BY DEF ReadsInv, SourcesAreWhole
  <2> DEFINE c == chain[r]
  <2>1. ContextTrue(c) /\ c.at = "answered"
    BY DEF ReadsInv
  <2>2. c.dep \in Manifests
    BY <2>1 DEF ContextTrue, Contexts, AtManifest, AtSource, AtPkgSource, AtAnswer
  <2> HIDE DEF c
  <2>3. CASE c.want.path = "all"
    <3>1. /\ Holds(c.sources, PathsOf(c.dep), Len(HandlersOf(c.dep)))
          /\ Holds(c.files, c.dep.files, Len(c.dep.files))
      BY <2>1, <2>3 DEF ContextTrue
    <3>2. NamesOf(c.sources) = [i \in 1..Len(HandlersOf(c.dep)) |-> PathsOf(c.dep)[i]]
      BY <2>2, <3>1, SameNames, NamesMatch
    <3>3. NamesOf(c.sources) = [i \in DOMAIN HandlersOf(c.dep) |-> HandlersOf(c.dep)[i].path]
      BY <2>2, <3>2, NamesMatch DEF PathsOf
    <3>4. NamesOf(c.files) = [i \in 1..Len(c.dep.files) |-> c.dep.files[i]]
      BY <2>2, <3>1, SameNames, NamesMatch
    <3> QED
      BY <2>2, <2>3, <3>3, <3>4, NamesMatch DEF c
  <2>4. CASE c.want.path # "all"
    <3>1. Holds(c.sources, <<c.want.path>>, 1)
      BY <2>1, <2>4 DEF ContextTrue
    <3>2. NamesOf(c.sources) = [i \in 1..1 |-> <<c.want.path>>[i]]
      BY <3>1, SameNames
    <3>3. NamesOf(c.sources) = <<c.want.path>>
      BY <3>2, Singleton
    <3> QED
      BY <2>4, <3>3 DEF c
  <2> QED
    BY <2>3, <2>4
<1> QED
  BY <1>1, ReadsInitInv, ReadsNextInv, PTL DEF ReadsSpec

------------------------------------------------------------------------------
(* Editor.  What the panel would ship is what the user knows, for a user    *)
(* and a platform in step with the panel (Troubles = {}).                   *)

(* A file of a bundle, or none.                                             *)
Cells == Texts \cup {Absent}
FileMaps == [Parts -> Cells]

EditorType ==
    /\ deployed \in FileMaps /\ draft \in FileMaps /\ statics \in FileMaps /\ wanted \in FileMaps
    /\ panel \in {"loading", "loaded", "failed"}
    /\ selected \in Files \cup {Absent} /\ label \in Files \cup {Absent}
    /\ doc \in Cells /\ reading \in TextFiles \cup {Absent}
    /\ shipping \in Seq(FileMaps)

(* Nobody acts on a panel that is not loaded.                               *)
Untouched ==
    panel # "loaded" =>
        /\ draft = Nothing /\ statics = Nothing /\ wanted = deployed
        /\ selected = Absent /\ reading = Absent /\ shipping = <<>>

(* What is carried by reference and not shadowed is what the current        *)
(* deployment, and every deployment under way, has under that path.         *)
Carries(f) ==
    statics[f] # Absent /\ draft[f] = Absent =>
        /\ deployed[f] = statics[f]
        /\ \A i \in 1..Len(shipping) : shipping[i][f] = statics[f]

(* The editor shows the draft of the file it names, and a file that is      *)
(* being read is not in the draft yet.                                      *)
InStep ==
    /\ selected # Absent => label = selected /\ draft[selected] # Absent
    /\ reading # Absent => statics[reading] # Absent /\ draft[reading] = Absent

EditorInv ==
    /\ EditorType /\ Untouched /\ InStep
    /\ panel = "loaded" => \A f \in Parts : Carries(f)
    /\ panel = "loaded" => Bundle = wanted

LEMMA EditorInitInv == EditorInit => EditorInv
  BY EditorAssumption, EmptySeq
  DEF EditorInit, EditorInv, EditorType, Untouched, InStep, Carries, Nothing, FileMaps, Cells, Files, Parts

(* The current deployment is loaded, every handler with its source.         *)
LEMMA LoadStep == ASSUME EditorInv, LoadCurrent, Troubles = {} PROVE EditorInv'
<1>1. panel = "loading" /\ panel' = "loaded" /\ draft = Nothing /\ wanted = deployed
      /\ selected = Absent /\ reading = Absent /\ shipping = <<>>
  BY DEF LoadCurrent, EditorInv, Untouched
<1>2. /\ draft' = [f \in Parts |-> IF f \in Modules \cap Has(deployed) THEN deployed[f] ELSE draft[f]]
      /\ statics' = [f \in Parts |-> IF f \in Modules THEN Absent ELSE deployed[f]]
      /\ UNCHANGED <<deployed, selected, label, doc, reading, shipping, starts, wanted>>
  <2>1. PICK lost \in SUBSET (Modules \cap Has(deployed)) :
          /\ lost # {} => Allows("unreadable")
          /\ draft' = [f \in Parts |->
                IF f \in (Modules \cap Has(deployed)) \ lost THEN deployed[f] ELSE draft[f]]
    BY DEF LoadCurrent
  <2>2. lost = {}
    BY <2>1 DEF Allows
  <2> QED
    BY <2>1, <2>2 DEF LoadCurrent
<1>3. EditorType'
  BY <1>1, <1>2, EditorAssumption DEF EditorInv, EditorType, FileMaps, Cells, Files, Parts, Has
<1>4. \A f \in Parts : /\ draft'[f] = (IF f \in Modules THEN deployed[f] ELSE Absent)
                       /\ statics'[f] = (IF f \in Modules THEN Absent ELSE deployed[f])
  BY <1>1, <1>2 DEF Nothing, Has, Files, Parts
<1>5. \A f \in Parts : Carries(f)'
  BY <1>1, <1>2, <1>4 DEF Carries
<1>6. Bundle' = wanted'
  <2>1. deployed \in [Parts -> Cells]
    BY DEF EditorInv, EditorType, FileMaps
  <2>2. \A f \in Parts : Bundle'[f] = deployed[f]
    BY <1>4 DEF Bundle
  <2> QED
    BY <2>1, <2>2, <1>1, <1>2 DEF Bundle
<1> QED
  BY <1>1, <1>2, <1>3, <1>5, <1>6 DEF EditorInv, Untouched, InStep

(* A step that leaves the lists and the deployments alone.                  *)
LEMMA ViewStep ==
  ASSUME EditorInv, EditorType', InStep', panel = "loaded", panel' = "loaded",
         UNCHANGED <<deployed, draft, statics, shipping, wanted>>
  PROVE  EditorInv'
<1>1. Bundle' = Bundle
  BY DEF Bundle
<1>2. \A f \in Parts : Carries(f)'
  BY DEF EditorInv, Carries
<1> QED
  BY <1>1, <1>2 DEF EditorInv, Untouched

(* A file is opened, from the draft or to be read.                          *)
LEMMA OpenStep ==
  ASSUME EditorInv, Troubles = {}, NEW f \in Files, OpenDraft(f) \/ OpenEntry(f)
  PROVE  EditorInv'
<1>1. panel = "loaded" /\ panel' = "loaded" /\ UNCHANGED <<deployed, draft, statics, shipping, wanted>>
  BY DEF OpenDraft, OpenEntry, Ready, Allows
<1>2. CASE OpenDraft(f)
  BY <1>1, <1>2, ViewStep
  DEF OpenDraft, OpenFile, EditorInv, EditorType, InStep, FileMaps, Parts
<1>3. CASE OpenEntry(f)
  <2>1. doc' \in Cells /\ reading' \in TextFiles \cup {Absent}
    BY <1>3 DEF OpenEntry, ClearEditor, EditorInv, EditorType, Cells
  <2>2. InStep'
    BY <1>1, <1>3 DEF OpenEntry, EditorInv, InStep
  <2> QED
    BY <1>1, <1>3, <2>1, <2>2, ViewStep DEF OpenEntry, EditorInv, EditorType
<1> QED
  BY <1>2, <1>3

(* A step that writes one file of the draft, and what is known of it.       *)
LEMMA DraftStep ==
  ASSUME EditorInv, EditorType', InStep', panel = "loaded", panel' = "loaded",
         NEW f \in Files, NEW text \in Texts,
         draft' = [draft EXCEPT ![f] = text], wanted' = [wanted EXCEPT ![f] = text],
         UNCHANGED <<deployed, statics, shipping>>
  PROVE  EditorInv'
<1>1. \A g \in Parts : draft'[g] = (IF g = f THEN text ELSE draft[g])
                       /\ wanted'[g] = (IF g = f THEN text ELSE wanted[g])
  BY DEF EditorInv, EditorType, FileMaps
<1>2. \A g \in Parts : Carries(g)'
  BY <1>1, EditorAssumption DEF EditorInv, Carries
<1>3. Bundle' = wanted'
  <2>1. \A g \in Parts : Bundle[g] = wanted[g]
    BY DEF EditorInv
  <2>2. \A g \in Parts : Bundle'[g] = wanted'[g]
    BY <1>1, <2>1, EditorAssumption DEF Bundle
  <2>3. wanted' \in [Parts -> Cells]
    BY DEF EditorType, FileMaps
  <2> QED
    BY <2>2, <2>3 DEF Bundle
<1> QED
  BY <1>2, <1>3 DEF EditorInv, Untouched

(* What is typed is written to the file the editor names.                   *)
LEMMA TypeStep ==
  ASSUME EditorInv, Troubles = {}, NEW text \in Texts, Type(text) PROVE EditorInv'
<1>1. selected # Absent /\ selected \in Files /\ label = selected /\ draft[selected] # Absent
  BY DEF Type, Allows, EditorInv, EditorType, InStep
<1>2. /\ draft' = [draft EXCEPT ![selected] = text] /\ wanted' = [wanted EXCEPT ![selected] = text]
      /\ doc' = text
      /\ UNCHANGED <<deployed, panel, statics, selected, label, reading, shipping>>
  BY <1>1 DEF Type
<1>3. panel = "loaded"
  BY DEF Type, Ready, Allows
<1>4. EditorType'
  BY <1>1, <1>2 DEF EditorInv, EditorType, FileMaps, Cells
<1>5. InStep'
  BY <1>1, <1>2, EditorAssumption DEF EditorInv, EditorType, InStep, FileMaps, Files, Parts
<1> QED
  BY <1>1, <1>2, <1>3, <1>4, <1>5, DraftStep

(* A file is created: not the one that is being read.                       *)
LEMMA CreateStep ==
  ASSUME EditorInv, Troubles = {}, NEW f \in Files, NEW text \in Texts, CreateDraft(f, text)
  PROVE  EditorInv'
<1>1. panel = "loaded" /\ f # reading
  BY DEF CreateDraft, Calm, Ready, Allows
<1>2. /\ draft' = [draft EXCEPT ![f] = text] /\ wanted' = [wanted EXCEPT ![f] = text]
      /\ selected' = f /\ label' = f /\ doc' = draft'[f]
      /\ UNCHANGED <<deployed, panel, statics, reading, shipping>>
  BY DEF CreateDraft, OpenFile
<1>3. draft' \in FileMaps /\ wanted' \in FileMaps /\ draft'[f] = text
  BY <1>2 DEF EditorInv, EditorType, FileMaps, Cells, Parts
<1>4. EditorType'
  BY <1>2, <1>3 DEF EditorInv, EditorType, Cells
<1>5. InStep'
  BY <1>1, <1>2, <1>3, EditorAssumption DEF EditorInv, EditorType, InStep, FileMaps, Files, Parts
<1> QED
  BY <1>1, <1>2, <1>4, <1>5, DraftStep

(* A file leaves both lists.                                                *)
LEMMA RemoveStep ==
  ASSUME EditorInv, Troubles = {}, NEW f \in Files, RemoveEntry(f) PROVE EditorInv'
<1>1. panel = "loaded" /\ f # reading
  BY DEF RemoveEntry, Calm, Ready, Allows
<1>2. /\ draft' = [draft EXCEPT ![f] = Absent] /\ wanted' = [wanted EXCEPT ![f] = Absent]
      /\ statics' = [statics EXCEPT ![f] = Absent]
      /\ selected' = (IF selected = f THEN Absent ELSE selected)
      /\ label' = (IF selected = f THEN Absent ELSE label)
      /\ doc' = (IF selected = f THEN Absent ELSE doc)
      /\ UNCHANGED <<deployed, panel, reading, shipping>>
  BY DEF RemoveEntry, WithoutStatic, ClearEditor
<1>3. \A g \in Parts : /\ draft'[g] = (IF g = f THEN Absent ELSE draft[g])
                       /\ wanted'[g] = (IF g = f THEN Absent ELSE wanted[g])
                       /\ statics'[g] = (IF g = f THEN Absent ELSE statics[g])
  BY <1>2 DEF EditorInv, EditorType, FileMaps
<1>4. EditorType'
  BY <1>2 DEF EditorInv, EditorType, FileMaps, Cells
<1>5. InStep'
  BY <1>1, <1>2, <1>3 DEF EditorInv, EditorType, InStep, Files, Parts
<1>6. \A g \in Parts : Carries(g)'
  BY <1>1, <1>2, <1>3 DEF EditorInv, Carries
<1>7. Bundle' = wanted'
  <2>1. \A g \in Parts : Bundle[g] = wanted[g]
    BY <1>1 DEF EditorInv
  <2>2. \A g \in Parts : Bundle'[g] = wanted'[g]
    BY <1>3, <2>1 DEF Bundle
  <2>3. wanted' \in [Parts -> Cells]
    BY <1>4 DEF EditorType, FileMaps
  <2> QED
    BY <2>2, <2>3 DEF Bundle
<1> QED
  BY <1>1, <1>2, <1>4, <1>5, <1>6, <1>7 DEF EditorInv, Untouched

(* A static that was read enters the draft as it is deployed, or the read   *)
(* failed.                                                                  *)
LEMMA ReadStep == ASSUME EditorInv, SourceRead PROVE EditorInv'
<1>1. /\ reading # Absent /\ reading \in Files /\ panel = "loaded" /\ reading' = Absent
      /\ statics[reading] # Absent /\ draft[reading] = Absent /\ deployed[reading] = statics[reading]
      /\ UNCHANGED <<deployed, panel, statics, shipping, wanted>>
  BY EditorAssumption DEF SourceRead, EditorInv, EditorType, Untouched, InStep, Carries, Files, Parts
<1>2. CASE UNCHANGED <<draft, selected, label, doc>>
  BY <1>1, <1>2, ViewStep DEF EditorInv, EditorType, InStep
<1>3. CASE /\ draft' = [draft EXCEPT ![reading] = deployed[reading]]
           /\ OpenFile(reading)
  <2>1. draft' \in FileMaps /\ deployed[reading] \in Texts
    BY <1>1, <1>3 DEF EditorInv, EditorType, FileMaps, Cells, Parts
  <2>2. \A g \in Parts : draft'[g] = (IF g = reading THEN deployed[reading] ELSE draft[g])
    BY <1>1, <1>3 DEF EditorInv, EditorType, FileMaps
  <2>3. EditorType' /\ InStep'
    BY <1>1, <1>3, <2>1, <2>2 DEF EditorInv, EditorType, InStep, OpenFile, FileMaps
  <2>4. \A g \in Parts : Carries(g)'
    BY <1>1, <2>2 DEF EditorInv, Carries
  <2>5. Bundle' = Bundle
    BY <1>1, <2>2 DEF Bundle
  <2> QED
    BY <1>1, <2>3, <2>4, <2>5 DEF EditorInv, Untouched
<1> QED
  BY <1>2, <1>3 DEF SourceRead

(* What is deployed carries what is carried by reference.                   *)
LEMMA ClickStep == ASSUME EditorInv, Troubles = {}, ClickDeploy PROVE EditorInv'
<1>1. /\ panel = "loaded" /\ shipping' = Append(shipping, Bundle)
      /\ UNCHANGED <<deployed, panel, draft, statics, selected, label, doc, reading, wanted>>
  BY DEF ClickDeploy, Ready, Allows
<1>2. Bundle \in FileMaps
  BY DEF EditorInv, EditorType, Bundle, FileMaps
<1>3. /\ shipping' \in Seq(FileMaps) /\ Len(shipping') = Len(shipping) + 1 /\ Len(shipping) \in Nat
      /\ \A i \in 1..Len(shipping) : shipping'[i] = shipping[i]
      /\ shipping'[Len(shipping) + 1] = Bundle
  BY <1>1, <1>2, AppendProperties, LenProperties DEF EditorInv, EditorType
<1>4. \A f \in Parts : Carries(f)'
  <2> SUFFICES ASSUME NEW f \in Parts, statics[f] # Absent, draft[f] = Absent,
                      NEW i \in 1..(Len(shipping) + 1)
               PROVE  deployed[f] = statics[f] /\ shipping'[i][f] = statics[f]
    BY <1>1, <1>3 DEF Carries
  <2>1. Bundle[f] = statics[f]
    BY DEF Bundle
  <2>2. deployed[f] = statics[f] /\ \A j \in 1..Len(shipping) : shipping[j][f] = statics[f]
    BY <1>1 DEF EditorInv, Carries
  <2> QED
    BY <1>3, <2>1, <2>2
<1>5. Bundle' = Bundle
  BY <1>1 DEF Bundle
<1> QED
  BY <1>1, <1>3, <1>4, <1>5 DEF EditorInv, EditorType, Untouched, InStep

(* A deploy ends, with or without its deployment.                           *)
LEMMA EndStep == ASSUME EditorInv, DeployEnds PROVE EditorInv'
<1>1. /\ shipping # <<>> /\ shipping' = Tail(shipping) /\ panel = "loaded"
      /\ deployed' = Head(shipping) \/ UNCHANGED deployed
      /\ UNCHANGED <<panel, draft, statics, selected, label, doc, reading, wanted>>
  BY DEF DeployEnds, EditorInv, EditorType, Untouched
<1>2. /\ shipping' \in Seq(FileMaps) /\ Len(shipping') = Len(shipping) - 1 /\ Len(shipping) \in Nat \ {0}
      /\ \A i \in 1..Len(shipping') : shipping'[i] = shipping[i + 1]
      /\ Head(shipping) = shipping[1] /\ shipping[1] \in FileMaps
  BY <1>1, HeadTailProperties, LenProperties, ElementOfSeq, EmptySeq DEF EditorInv, EditorType
<1>3. \A f \in Parts : Carries(f)'
  <2> SUFFICES ASSUME NEW f \in Parts, statics[f] # Absent, draft[f] = Absent
               PROVE  /\ deployed'[f] = statics[f]
                      /\ \A i \in 1..Len(shipping') : shipping'[i][f] = statics[f]
    BY <1>1 DEF Carries
  <2>1. deployed[f] = statics[f] /\ \A j \in 1..Len(shipping) : shipping[j][f] = statics[f]
    BY <1>1 DEF EditorInv, Carries
  <2> QED
    BY <1>1, <1>2, <2>1
<1>4. Bundle' = Bundle
  BY <1>1 DEF Bundle
<1> QED
  BY <1>1, <1>2, <1>3, <1>4 DEF EditorInv, EditorType, Untouched, InStep

LEMMA EditorNextInv == ASSUME Troubles = {}, EditorInv, [EditorNext]_editorVars PROVE EditorInv'
<1>1. CASE LoadFails
  BY <1>1 DEF LoadFails, panelVars, EditorInv, EditorType, Untouched, InStep
<1>2. CASE UNCHANGED editorVars
  BY <1>2 DEF editorVars, panelVars, EditorInv, EditorType, Untouched, InStep, Carries, Bundle
<1> QED
  BY <1>1, <1>2, LoadStep, OpenStep, TypeStep, CreateStep, RemoveStep, ReadStep, ClickStep, EndStep
  DEF EditorNext

(* A deploy ships exactly what the user last typed into, created, left      *)
(* alone or removed, for a user and a platform in step with the panel.      *)
THEOREM ShipsTheWantedAlways == ASSUME Troubles = {} PROVE EditorSpec => ShipsTheWanted
<1>1. EditorSpec => []EditorInv
  BY EditorInitInv, EditorNextInv, PTL DEF EditorSpec
<1>2. EditorInv => (ClickDeploy => Bundle = wanted)
  BY DEF EditorInv, ClickDeploy, Ready, Allows
<1> QED
  BY <1>1, <1>2, PTL DEF ShipsTheWanted, EditorSpec

-----------------------------------------------------------------------------
(* Deploy, by one client at a time.  The workspace of a client that has     *)
(* reset it is what was staged of the bundle so far.                        *)
OneClient == \A c, d \in Clients : c = d

Fitting == {b \in Bundles : Fits(b)}
Running == [does : {"reset", "upload", "wait", "failed", "release"}, bundle : Fitting,
            files : SUBSET Paths, packages : SUBSET Packages]
Content == Contents \cup {NoFile}
HopType ==
    {NoHop} \cup [at : {"file"}, path : Paths, content : Content]
    \cup [at : {"pkgfile"}, package : Packages]
    \cup [at : {"package"}, queue : Seq(Packages), done : SUBSET Packages, loads : SUBSET Packages]
    \cup [at : {"bundle"}, done : SUBSET Packages, given : {[p \in HandlerRows |-> ws[p]]}]
    \cup [at : {"stamped"},
          manifest : {[files |-> [p \in FilesOf(ws) |-> ws[p]],
                       bytecode |-> [p \in FilesOf(ws) \cap Handlers |-> ws[p]]]}]

DeployType ==
    /\ ws \in [Paths -> Content] /\ wspkg \in [Packages -> {"none", "source", "bytecode"}]
    /\ client \in [Clients -> {NoDeploy} \cup Running]
    /\ DOMAIN hop = Clients /\ \A c \in Clients : hop[c] \in HopType

(* What has been staged of the bundle.                                      *)
Staged(c, p) ==
    /\ p \notin client[c].files
    /\ hop[c].at = "file" => hop[c].path # p
AsStaged(c) ==
    \A p \in Paths : ws[p] = IF Staged(c, p) THEN client[c].bundle.files[p] ELSE NoFile

(* Where a client and its held call are.                                    *)
InStepWith(c) ==
    /\ client[c].does \in {"nothing", "reset", "failed", "release"} => hop[c].at = "none"
    /\ client[c].does = "upload" => hop[c].at \in {"none", "package", "bundle", "stamped"}
    /\ client[c].does = "wait" => hop[c].at \in {"file", "pkgfile"}
    /\ client[c].does \in {"upload", "wait"} => client[c].files \subseteq FilesOf(client[c].bundle.files)
    /\ hop[c].at = "file" => /\ hop[c].content = client[c].bundle.files[hop[c].path]
                             /\ hop[c].path \in FilesOf(client[c].bundle.files)
                             /\ hop[c].path \notin client[c].files
    /\ hop[c].at \in {"package", "bundle", "stamped"} =>
          client[c].files = {}
    /\ client[c].does = "reset" => client[c].files = FilesOf(client[c].bundle.files)
    /\ client[c].does \in {"upload", "wait"} => AsStaged(c)

(* A package is compiled after what it imports, which has bytecode or is    *)
(* ahead of it in the queue.                                                *)
InOrder(graph, queue, ready) ==
    \A i \in DOMAIN queue : \A q \in graph[queue[i]] :
        q \in ready \/ \E j \in 1 .. (i - 1) : queue[j] = q
CompilesInOrder(c) ==
    hop[c].at = "package" =>
        /\ hop[c].queue # <<>> /\ hop[c].loads = Loadable(hop[c].done)
        /\ InOrder(client[c].bundle.graph, hop[c].queue, hop[c].loads)

DeployInv ==
    /\ DeployType /\ Cardinality(FilesOf(ws)) <= PageLimit
    /\ \A c \in Clients : InStepWith(c) /\ CompilesInOrder(c)

(* A listing no longer than a page shows everything.                        *)
LEMMA ListsAll ==
  ASSUME NEW shown, IsFiniteSet(shown), Cardinality(shown) <= PageLimit
  PROVE  Listed(shown) = {shown}
<1>1. Cardinality(shown) \in Nat /\ PageLimit \in Nat
  BY FS_CardinalityType, DeployAssumption
<1>2. Min({PageLimit, Cardinality(shown)}) = Cardinality(shown)
  BY <1>1 DEF Min
<1>3. ASSUME NEW s \in SUBSET shown, Cardinality(s) = Cardinality(shown) PROVE s = shown
  BY <1>3, FS_Subset
<1> QED
  BY <1>2, <1>3 DEF Listed

LEMMA RowsAreFinite ==
  ASSUME NEW shown
  PROVE  IsFiniteSet(FilesOf(shown))
  BY FS_Subset, DeployAssumption DEF FilesOf

LEMMA DeployStart == DeployInit => DeployInv
<1> SUFFICES ASSUME DeployInit PROVE DeployInv
  OBVIOUS
<1>1. FilesOf(ws) = {}
  BY DEF DeployInit, FilesOf
<1>2. Cardinality(FilesOf(ws)) <= PageLimit
  BY <1>1, FS_EmptySet, DeployAssumption
<1>3. DeployType
  BY DEF DeployInit, DeployType, Content, HopType
<1>4. ASSUME NEW c \in Clients PROVE InStepWith(c) /\ CompilesInOrder(c)
  BY DEF DeployInit, InStepWith, CompilesInOrder, NoDeploy, NoHop
<1> QED
  BY <1>2, <1>3, <1>4 DEF DeployInv

(* What a call carries of the workspace stays what is there.                *)
LEMMA SameRows == ASSUME ws' = ws PROVE HopType' = HopType /\ FilesOf(ws)' = FilesOf(ws)
<1>1. FilesOf(ws)' = FilesOf(ws) /\ HandlerRows' = HandlerRows
  BY DEF FilesOf, HandlerRows
<1> QED
  BY <1>1 DEF HopType

LEMMA HopIs ==
  ASSUME DeployInv, NEW c \in Clients
  PROVE  /\ hop[c] = NoHop <=> hop[c].at = "none"
         /\ client[c] = NoDeploy <=> client[c].does = "nothing"
         /\ client[c] # NoDeploy => client[c] \in Running
         /\ client[c] \in Running =>
              /\ client[c].bundle \in Bundles /\ Fits(client[c].bundle)
              /\ client[c].bundle.files \in [Paths -> Content] /\ client[c].bundle.graph \in Graphs
              /\ client[c].files \subseteq Paths /\ client[c].packages \subseteq Packages
<1>1. hop[c] \in HopType /\ client[c] \in {NoDeploy} \cup Running
  BY DEF DeployInv, DeployType
<1>2. NoHop.at = "none" /\ NoDeploy.does = "nothing"
  BY DEF NoHop, NoDeploy
<1>3. hop[c] = NoHop <=> hop[c].at = "none"
  BY <1>1, <1>2 DEF HopType
<1>4. client[c] = NoDeploy <=> client[c].does = "nothing"
  BY <1>1, <1>2 DEF Running
<1>5. ASSUME client[c] \in Running
      PROVE  /\ client[c].bundle \in Bundles /\ Fits(client[c].bundle)
             /\ client[c].bundle.files \in [Paths -> Content] /\ client[c].bundle.graph \in Graphs
             /\ client[c].files \subseteq Paths /\ client[c].packages \subseteq Packages
  <2>1. client[c].bundle \in Fitting /\ client[c].files \subseteq Paths /\ client[c].packages \subseteq Packages
    BY <1>5 DEF Running
  <2>2. client[c].bundle \in Bundles /\ Fits(client[c].bundle)
    BY <2>1 DEF Fitting
  <2>3. client[c].bundle.files \in [Paths -> Content] /\ client[c].bundle.graph \in Graphs
    BY <2>2 DEF Bundles, Content
  <2> QED
    BY <2>1, <2>2, <2>3
<1> QED
  BY <1>1, <1>3, <1>4, <1>5

(* The only client's step, checked for it alone.                            *)
LEMMA StepOf ==
  ASSUME OneClient, NEW c \in Clients, DeployType', (Cardinality(FilesOf(ws)) <= PageLimit)',
         InStepWith(c)', CompilesInOrder(c)'
  PROVE  DeployInv'
<1>1. \A d \in Clients : d = c
  BY DEF OneClient
<1> QED
  BY <1>1 DEF DeployInv

(* What a client does moves on, and nothing else of it.                     *)
LEMMA GoesOn ==
  ASSUME DeployInv, NEW c \in Clients, client[c] \in Running,
         NEW does \in {"reset", "upload", "wait", "failed", "release"}, Goes(c, does)
  PROVE  /\ client' \in [Clients -> {NoDeploy} \cup Running]
         /\ client'[c].does = does /\ client'[c].bundle = client[c].bundle
         /\ client'[c].files = client[c].files /\ client'[c].packages = client[c].packages
         /\ \A d \in Clients : d # c => client'[d] = client[d]
<1>1. client \in [Clients -> {NoDeploy} \cup Running]
  BY DEF DeployInv, DeployType
<1>2. client' = [client EXCEPT ![c].does = does]
  BY DEF Goes
<1>3. [client[c] EXCEPT !.does = does] \in Running
  BY DEF Running
<1>4. client'[c] = [client[c] EXCEPT !.does = does]
  BY <1>1, <1>2
<1>5. client' \in [Clients -> {NoDeploy} \cup Running]
  BY <1>1, <1>2, <1>3
<1>6. client[c] = [does |-> client[c].does, bundle |-> client[c].bundle,
                   files |-> client[c].files, packages |-> client[c].packages]
  BY DEF Running
<1> QED
  BY <1>1, <1>2, <1>4, <1>5, <1>6

(* A step that moves the client and not the workspace, with the call done.  *)
LEMMA CallEnds ==
  ASSUME DeployInv, OneClient, NEW c \in Clients, client[c] \in Running,
         NEW does \in {"failed", "release"}, Goes(c, does),
         hop' = [hop EXCEPT ![c] = NoHop], UNCHANGED <<ws, wspkg>>
  PROVE  DeployInv'
<1>1. hop'[c] = NoHop /\ DOMAIN hop' = Clients /\ \A d \in Clients : d = c
  BY DEF DeployInv, DeployType, OneClient
<1>2. client'[c].does = does /\ client' \in [Clients -> {NoDeploy} \cup Running]
  BY GoesOn
<1>3. DeployType'
  BY <1>1, <1>2 DEF DeployInv, DeployType, HopType
<1>4. InStepWith(c)' /\ CompilesInOrder(c)'
  BY <1>1, <1>2 DEF InStepWith, CompilesInOrder, NoHop
<1>5. (Cardinality(FilesOf(ws)) <= PageLimit)'
  BY DEF DeployInv, FilesOf
<1> QED
  BY <1>3, <1>4, <1>5, StepOf

LEMMA Fails ==
  ASSUME DeployInv, OneClient, NEW c \in Clients, client[c] \in Running, Fail(c), UNCHANGED <<ws, wspkg>>
  PROVE  DeployInv'
  BY CallEnds DEF Fail

LEMMA StartStep ==
  ASSUME DeployInv, OneClient, NEW c \in Clients, NEW b \in Bundles, Start(c, b) PROVE DeployInv'
<1>1. client[c] = NoDeploy /\ hop[c] = NoHop
  BY HopIs DEF Start, DeployInv, InStepWith, NoDeploy
<1> DEFINE new == [does |-> "reset", bundle |-> b, files |-> FilesOf(b.files), packages |-> Packages]
<1>2. client' = [client EXCEPT ![c] = new] /\ UNCHANGED <<ws, wspkg, hop>>
  BY DEF Start
<1>3. new \in Running /\ new.does = "reset" /\ new.files = FilesOf(new.bundle.files)
  BY DEF Start, Running, Fitting, FilesOf
<1> HIDE DEF new
<1>4. client'[c] = new /\ client' \in [Clients -> {NoDeploy} \cup Running]
  BY <1>2, <1>3 DEF DeployInv, DeployType
<1>5. DeployType'
  BY <1>2, <1>4, SameRows DEF DeployInv, DeployType
<1>6. InStepWith(c)' /\ CompilesInOrder(c)'
  BY <1>1, <1>2, <1>3, <1>4 DEF InStepWith, CompilesInOrder, NoHop
<1>7. (Cardinality(FilesOf(ws)) <= PageLimit)'
  BY <1>2 DEF DeployInv, FilesOf
<1> QED
  BY <1>5, <1>6, <1>7, StepOf

LEMMA AbandonStep ==
  ASSUME DeployInv, OneClient, NEW c \in Clients, Abandon(c) PROVE DeployInv'
<1>1. client' = [client EXCEPT ![c] = NoDeploy] /\ UNCHANGED <<ws, wspkg, hop>> /\ hop[c] = NoHop
  BY DEF Abandon
<1>2. client'[c] = NoDeploy /\ client' \in [Clients -> {NoDeploy} \cup Running]
  BY <1>1 DEF DeployInv, DeployType
<1>3. DeployType'
  BY <1>1, <1>2, SameRows DEF DeployInv, DeployType
<1>4. InStepWith(c)' /\ CompilesInOrder(c)'
  BY <1>1, <1>2 DEF InStepWith, CompilesInOrder, NoHop, NoDeploy
<1>5. (Cardinality(FilesOf(ws)) <= PageLimit)'
  BY <1>1 DEF DeployInv, FilesOf
<1> QED
  BY <1>3, <1>4, <1>5, StepOf

(* A reset leaves nothing of the deploys before.                            *)
LEMMA ResetStep ==
  ASSUME DeployInv, OneClient, NEW c \in Clients, HandleWsReset(c) PROVE DeployInv'
<1>1. client[c] \in Running /\ hop[c] = NoHop /\ Goes(c, "upload") /\ UNCHANGED hop
  BY HopIs DEF HandleWsReset, Gate, DeployInv, InStepWith
<1>2. PICK packages : Cleared(FilesOf(ws), packages)
  <2>1. Listed(FilesOf(ws)) = {FilesOf(ws)}
    BY ListsAll, RowsAreFinite DEF DeployInv
  <2> QED
    BY <2>1 DEF HandleWsReset
<1>3. /\ client' \in [Clients -> {NoDeploy} \cup Running]
      /\ client'[c].does = "upload" /\ client'[c].bundle = client[c].bundle
      /\ client'[c].files = client[c].files /\ client'[c].packages = client[c].packages
  BY <1>1, GoesOn
<1>4. ws' = [p \in Paths |-> NoFile] /\ FilesOf(ws)' = {}
  BY <1>2 DEF Cleared, FilesOf, DeployInv, DeployType
<1>5. wspkg' \in [Packages -> {"none", "source", "bytecode"}]
  BY <1>2 DEF Cleared, DeployInv, DeployType
<1>6. hop'[c] = NoHop /\ \A d \in Clients : d = c
  BY <1>1 DEF OneClient
<1>7. DeployType'
  BY <1>1, <1>3, <1>4, <1>5, <1>6 DEF DeployInv, DeployType, Content, HopType
<1>8. (Cardinality(FilesOf(ws)) <= PageLimit)'
  BY <1>4, FS_EmptySet, DeployAssumption
<1>9. client[c].files = FilesOf(client[c].bundle.files) /\ client[c].bundle.files \in [Paths -> Content]
  BY HopIs DEF HandleWsReset, Gate, DeployInv, InStepWith
<1>10. hop'[c].at = "none"
  BY <1>6 DEF NoHop
<1>11. AsStaged(c)'
  BY <1>3, <1>4, <1>9, <1>10 DEF AsStaged, Staged, FilesOf
<1>12. InStepWith(c)' /\ CompilesInOrder(c)'
  BY <1>3, <1>9, <1>10, <1>11 DEF InStepWith, CompilesInOrder, FilesOf
<1> QED
  BY <1>7, <1>8, <1>12, StepOf

(* A file leaves for the store, and its row is written when it is there.    *)
LEMMA UploadStep ==
  ASSUME DeployInv, OneClient, NEW c \in Clients, NEW p \in Paths, Upload(c, p) PROVE DeployInv'
<1> DEFINE new == [at |-> "file", path |-> p, content |-> client[c].bundle.files[p]]
<1>1. /\ client[c] \in Running /\ client[c].does = "upload" /\ p \in client[c].files
      /\ hop' = [hop EXCEPT ![c] = new] /\ UNCHANGED <<ws, wspkg>>
      /\ client' = [client EXCEPT ![c].does = "wait", ![c].files = @ \ {p}]
  BY HopIs DEF Upload
<1>2. /\ client[c].bundle.files \in [Paths -> Content] /\ client[c].files \subseteq FilesOf(client[c].bundle.files)
      /\ AsStaged(c) /\ hop[c].at # "file"
  <2>1. hop[c].at \notin {"package", "bundle", "stamped"} /\ hop[c].at # "file"
    BY <1>1 DEF DeployInv, InStepWith
  <2> QED
    BY <1>1, <2>1, HopIs DEF DeployInv, InStepWith
<1>3. [client[c] EXCEPT !.does = "wait", !.files = @ \ {p}] \in Running
  BY <1>1 DEF Running
<1>4. client'[c] = [client[c] EXCEPT !.does = "wait", !.files = @ \ {p}]
  BY <1>1 DEF DeployInv, DeployType
<1>5. client' \in [Clients -> {NoDeploy} \cup Running]
  BY <1>1, <1>3 DEF DeployInv, DeployType
<1>6. client'[c].does = "wait" /\ client'[c].files = client[c].files \ {p} /\ client'[c].bundle = client[c].bundle
  BY <1>1, <1>4 DEF Running
<1>7. hop'[c] = new /\ DOMAIN hop' = Clients /\ new \in HopType /\ \A d \in Clients : d = c
  BY <1>1, <1>2 DEF DeployInv, DeployType, HopType, OneClient
<1>8. DeployType' /\ (Cardinality(FilesOf(ws)) <= PageLimit)'
  BY <1>1, <1>5, <1>7, SameRows DEF DeployInv, DeployType
<1>9. hop'[c].at = "file" /\ hop'[c].path = p /\ hop'[c].content = client[c].bundle.files[p]
  BY <1>7
<1>10. AsStaged(c)'
  BY <1>1, <1>2, <1>6, <1>9 DEF AsStaged, Staged
<1>11. InStepWith(c)' /\ CompilesInOrder(c)'
  BY <1>1, <1>2, <1>6, <1>9, <1>10 DEF InStepWith, CompilesInOrder
<1> QED
  BY <1>8, <1>11, StepOf

LEMMA FileStagedStep ==
  ASSUME DeployInv, OneClient, NEW c \in Clients, OnFileStaged(c) PROVE DeployInv'
<1>1. /\ hop[c].at = "file" /\ client[c].does = "wait" /\ client[c] \in Running /\ Goes(c, "upload")
      /\ hop' = [hop EXCEPT ![c] = NoHop] /\ UNCHANGED wspkg
      /\ ws' = [ws EXCEPT ![hop[c].path] = hop[c].content]
  BY HopIs DEF OnFileStaged, DeployInv, InStepWith, DeployType, Running, NoDeploy
<1>2. /\ hop[c].path \in Paths /\ hop[c].content = client[c].bundle.files[hop[c].path] /\ AsStaged(c)
      /\ hop[c].path \in FilesOf(client[c].bundle.files) /\ hop[c].path \notin client[c].files
      /\ client[c].bundle.files \in [Paths -> Content] /\ Fits(client[c].bundle)
      /\ client[c].files \subseteq FilesOf(client[c].bundle.files)
  BY <1>1, HopIs DEF DeployInv, InStepWith, FilesOf
<1>3. /\ client' \in [Clients -> {NoDeploy} \cup Running]
      /\ client'[c].does = "upload" /\ client'[c].bundle = client[c].bundle
      /\ client'[c].files = client[c].files
  BY <1>1, GoesOn
<1>4. hop'[c] = NoHop /\ hop'[c].at = "none" /\ DOMAIN hop' = Clients /\ \A d \in Clients : d = c
  BY <1>1 DEF DeployInv, DeployType, OneClient, NoHop
<1>5. ws' \in [Paths -> Content]
  BY <1>1, <1>2 DEF DeployInv, DeployType
<1>6. DeployType'
  BY <1>1, <1>3, <1>4, <1>5 DEF DeployInv, DeployType, HopType
<1>7. AsStaged(c)'
  BY <1>1, <1>2, <1>3, <1>4 DEF AsStaged, Staged, DeployInv, DeployType
<1>8. InStepWith(c)' /\ CompilesInOrder(c)'
  BY <1>2, <1>3, <1>4, <1>7 DEF InStepWith, CompilesInOrder, FilesOf
<1>9. (Cardinality(FilesOf(ws)) <= PageLimit)'
  <2>1. FilesOf(ws)' \subseteq FilesOf(client[c].bundle.files)
    BY <1>3, <1>4, <1>7 DEF AsStaged, FilesOf
  <2>2. /\ Cardinality(FilesOf(ws)') <= Cardinality(FilesOf(client[c].bundle.files))
        /\ Cardinality(FilesOf(ws)') \in Nat /\ Cardinality(FilesOf(client[c].bundle.files)) \in Nat
    BY <2>1, RowsAreFinite, FS_Subset, FS_CardinalityType
  <2> QED
    BY <1>2, <2>2, DeployAssumption DEF Fits
<1> QED
  BY <1>6, <1>8, <1>9, StepOf

LEMMA UploadPackageStep ==
  ASSUME DeployInv, OneClient, NEW c \in Clients, NEW p \in Packages, UploadPackage(c, p) PROVE DeployInv'
<1> DEFINE new == [at |-> "pkgfile", package |-> p]
<1>1. /\ client[c] \in Running /\ client[c].does = "upload" /\ client[c].files = {}
      /\ hop' = [hop EXCEPT ![c] = new] /\ UNCHANGED <<ws, wspkg>>
      /\ client' = [client EXCEPT ![c].does = "wait", ![c].packages = @ \ {p}]
  BY HopIs DEF UploadPackage, Gate
<1>2. AsStaged(c) /\ hop[c].at # "file"
  BY <1>1 DEF DeployInv, InStepWith
<1>3. [client[c] EXCEPT !.does = "wait", !.packages = @ \ {p}] \in Running
  BY <1>1 DEF Running
<1>4. client'[c] = [client[c] EXCEPT !.does = "wait", !.packages = @ \ {p}]
  BY <1>1 DEF DeployInv, DeployType
<1>5. client' \in [Clients -> {NoDeploy} \cup Running]
  BY <1>1, <1>3 DEF DeployInv, DeployType
<1>6. client'[c].does = "wait" /\ client'[c].files = {} /\ client'[c].bundle = client[c].bundle
  BY <1>1, <1>4 DEF Running
<1>7. hop'[c] = new /\ DOMAIN hop' = Clients /\ new \in HopType /\ \A d \in Clients : d = c
  BY <1>1 DEF DeployInv, DeployType, HopType, OneClient
<1>8. DeployType' /\ (Cardinality(FilesOf(ws)) <= PageLimit)'
  BY <1>1, <1>5, <1>7, SameRows DEF DeployInv, DeployType
<1>9. hop'[c].at = "pkgfile"
  BY <1>7
<1>10. AsStaged(c)'
  BY <1>1, <1>2, <1>6, <1>9 DEF AsStaged, Staged
<1>11. InStepWith(c)' /\ CompilesInOrder(c)'
  BY <1>6, <1>9, <1>10 DEF InStepWith, CompilesInOrder
<1> QED
  BY <1>8, <1>11, StepOf

LEMMA PackageStagedStep ==
  ASSUME DeployInv, OneClient, NEW c \in Clients, OnPkgTryCompiled(c) PROVE DeployInv'
<1>1. /\ hop[c].at = "pkgfile" /\ client[c].does = "wait" /\ client[c] \in Running /\ Goes(c, "upload")
      /\ hop' = [hop EXCEPT ![c] = NoHop] /\ UNCHANGED ws
  BY HopIs DEF OnPkgTryCompiled, DeployInv, InStepWith, DeployType, Running, NoDeploy
<1>2. wspkg' \in [Packages -> {"none", "source", "bytecode"}]
  BY DEF OnPkgTryCompiled, DeployInv, DeployType
<1>3. AsStaged(c) /\ client[c].files \subseteq FilesOf(client[c].bundle.files)
  BY <1>1 DEF DeployInv, InStepWith
<1>4. /\ client' \in [Clients -> {NoDeploy} \cup Running]
      /\ client'[c].does = "upload" /\ client'[c].bundle = client[c].bundle
      /\ client'[c].files = client[c].files
  BY <1>1, GoesOn
<1>5. hop'[c] = NoHop /\ hop'[c].at = "none" /\ DOMAIN hop' = Clients /\ \A d \in Clients : d = c
  BY <1>1 DEF DeployInv, DeployType, OneClient, NoHop
<1>6. DeployType' /\ (Cardinality(FilesOf(ws)) <= PageLimit)'
  BY <1>1, <1>2, <1>4, <1>5, SameRows DEF DeployInv, DeployType, HopType
<1>7. AsStaged(c)'
  BY <1>1, <1>3, <1>4, <1>5 DEF AsStaged, Staged
<1>8. InStepWith(c)' /\ CompilesInOrder(c)'
  BY <1>3, <1>4, <1>5, <1>7 DEF InStepWith, CompilesInOrder
<1> QED
  BY <1>6, <1>8, StepOf

-----------------------------------------------------------------------------
(* The order of packages.  A number of visits is a sequence of them.        *)
Walked(f, k, graph) == f = [n \in 0 .. k |-> IF n = 0 THEN Unvisited ELSE Visit(graph, f[n - 1])]

(* A set of numbers has a least one.                                        *)
LEMMA LeastOf ==
  ASSUME NEW S \in SUBSET Nat, S # {}
  PROVE  \E x \in S : \A y \in S : x <= y
<1> DEFINE below == OpToRel(<, Nat)
<1>1. PICK x \in S : \A y \in S : ~(<<y, x>> \in below)
  <2>1. IsWellFoundedOn(below, Nat)
    BY NatLessThanWellFounded
  <2> HIDE DEF below
  <2>2. IsWellFoundedOn(below, S)
    BY <2>1, IsWellFoundedOnSubset
  <2> QED
    BY <2>2, WFMin
<1>2. \A y \in S : x <= y
  <2> SUFFICES ASSUME NEW y \in S, ~(x <= y) PROVE FALSE
    OBVIOUS
  <2>1. y \in Nat /\ x \in Nat /\ y < x
    OBVIOUS
  <2>2. <<y, x>> \in below
    BY <2>1 DEF OpToRel
  <2> QED
    BY <1>1, <2>2
<1> QED
  BY <1>2

LEMMA SomeVisits == ASSUME NEW graph, NEW m \in Nat PROVE \E f : Walked(f, m, graph)
<1> DEFINE Bad == {n \in Nat : ~ \E f : Walked(f, n, graph)}
<1>1. SUFFICES ASSUME Bad # {} PROVE FALSE
  OBVIOUS
<1>2. PICK k \in Bad : \A n \in Bad : k <= n
  BY <1>1, LeastOf
<1>3. CASE k = 0
  <2> DEFINE f == [n \in 0 .. 0 |-> Unvisited]
  <2>1. f = [n \in 0 .. 0 |-> IF n = 0 THEN Unvisited ELSE Visit(graph, f[n - 1])]
    OBVIOUS
  <2> HIDE DEF f
  <2>2. Walked(f, 0, graph)
    BY <2>1 DEF Walked
  <2> QED
    BY <1>2, <1>3, <2>2
<1>4. CASE k # 0
  <2>1. k \in Nat /\ k - 1 \in Nat /\ k - 1 \notin Bad
    BY <1>2, <1>4
  <2> HIDE DEF Bad
  <2>2. PICK g : Walked(g, k - 1, graph)
    BY <2>1 DEF Bad
  <2> DEFINE f == [n \in 0 .. k |-> IF n = k THEN Visit(graph, g[k - 1]) ELSE g[n]]
  <2>3. \A n \in 0 .. (k - 1) : g[n] = IF n = 0 THEN Unvisited ELSE Visit(graph, g[n - 1])
    BY <2>2 DEF Walked
  <2>4. \A n \in 0 .. k : f[n] = IF n = 0 THEN Unvisited ELSE Visit(graph, f[n - 1])
    <3> SUFFICES ASSUME NEW n \in 0 .. k
                 PROVE  f[n] = IF n = 0 THEN Unvisited ELSE Visit(graph, f[n - 1])
      OBVIOUS
    <3>1. n # 0 => n - 1 \in 0 .. k /\ n - 1 # k
      BY <2>1
    <3>2. n # 0 => f[n - 1] = g[n - 1]
      BY <3>1
    <3>3. CASE n = k
      BY <1>4, <3>2, <3>3
    <3>4. CASE n # k
      <4>1. n \in 0 .. (k - 1)
        BY <2>1, <3>4
      <4>2. f[n] = g[n]
        BY <3>4
      <4> QED
        BY <2>3, <3>2, <4>1, <4>2
    <3> QED
      BY <3>3, <3>4
  <2>5. f = [n \in 0 .. k |-> f[n]]
    OBVIOUS
  <2> HIDE DEF f
  <2>6. f = [n \in 0 .. k |-> IF n = 0 THEN Unvisited ELSE Visit(graph, f[n - 1])]
    BY <2>4, <2>5
  <2>7. Walked(f, k, graph)
    BY <2>6 DEF Walked
  <2> QED
    BY <1>2, <2>7 DEF Bad
<1> QED
  BY <1>3, <1>4

LEMMA WalkIsVisits ==
  ASSUME NEW graph
  PROVE  /\ Visits \in Nat
         /\ \E f : /\ Walk(graph) = f[Visits] /\ f[0] = Unvisited
                   /\ \A n \in 0 .. Visits : n # 0 => f[n] = Visit(graph, f[n - 1])
<1> DEFINE f == CHOOSE f : Walked(f, Visits, graph)
<1>1. Visits \in Nat
  BY FS_CardinalityType, DeployAssumption DEF Visits
<1>2. Walked(f, Visits, graph)
  BY <1>1, SomeVisits
<1>3. Walk(graph) = f[Visits]
  BY DEF Walk, Walked
<1> HIDE DEF f
<1>4. f[0] = Unvisited /\ \A n \in 0 .. Visits : n # 0 => f[n] = Visit(graph, f[n - 1])
  BY <1>1, <1>2 DEF Walked
<1> QED
  BY <1>1, <1>3, <1>4

(* A walk has behind it what its packages import.                           *)
HasBytecode == {p \in Packages : wspkg[p] = "bytecode"}
WalkType == [visiting : Seq(Packages), done : SUBSET Packages, queue : Seq(Packages), cycle : BOOLEAN]
InTurn(graph, w) ==
    /\ w \in WalkType
    /\ \A p \in w.done : p \in HasBytecode \/ \E j \in DOMAIN w.queue : w.queue[j] = p
    /\ InOrder(graph, w.queue, HasBytecode)

LEMMA VisitInTurn ==
  ASSUME NEW graph \in [Packages -> SUBSET Packages], NEW w, InTurn(graph, w)
  PROVE  InTurn(graph, Visit(graph, w))
<1>1. w \in WalkType /\ w.visiting \in Seq(Packages) /\ w.done \subseteq Packages
      /\ w.queue \in Seq(Packages) /\ w.cycle \in BOOLEAN
  BY DEF InTurn, WalkType
<1>2. ASSUME NEW some \in SUBSET Packages, some # {} PROVE InTurn(graph, Enter(w, some))
  <2> DEFINE p == CHOOSE p \in some : TRUE
  <2>1. p \in Packages
    BY <1>2
  <2> HIDE DEF p
  <2>2. Append(w.visiting, p) \in Seq(Packages)
    BY <1>1, <2>1
  <2> DEFINE c == [w EXCEPT !.cycle = TRUE]
             v == [w EXCEPT !.visiting = Append(@, p)]
  <2>3. c \in WalkType /\ c.done = w.done /\ c.queue = w.queue
    BY <1>1 DEF WalkType
  <2>4. v \in WalkType /\ v.done = w.done /\ v.queue = w.queue
    BY <1>1, <2>2 DEF WalkType
  <2>5. Enter(w, some) = c \/ Enter(w, some) = v
    BY DEF Enter, p
  <2> HIDE DEF c, v
  <2> QED
    BY <2>3, <2>4, <2>5 DEF InTurn
<1>3. ASSUME w.visiting # <<>>, graph[Last(w.visiting)] \subseteq w.done PROVE InTurn(graph, Leave(w))
  <2> DEFINE p == Last(w.visiting)
             queue == IF wspkg[p] = "bytecode" THEN w.queue ELSE Append(w.queue, p)
             l == [w EXCEPT !.visiting = Front(@), !.done = @ \cup {p},
                            !.queue = IF wspkg[p] = "bytecode" THEN @ ELSE Append(@, p)]
  <2>1. p \in Packages
    BY <1>1, <1>3 DEF Last
  <2>2. Front(w.visiting) \in Seq(Packages)
    BY <1>1, <1>3 DEF Front
  <2>3. Leave(w) = l
    BY DEF Leave
  <2> HIDE DEF p
  <2>4. queue \in Seq(Packages)
    BY <1>1, <2>1
  <2>5. /\ l.visiting = Front(w.visiting) /\ l.done = w.done \cup {p} /\ l.queue = queue
        /\ l.cycle = w.cycle /\ l \in WalkType
    BY <1>1, <2>1, <2>2, <2>4 DEF WalkType
  <2> HIDE DEF l
  <2>6. CASE wspkg[p] = "bytecode"
    <3>1. queue = w.queue /\ p \in HasBytecode
      BY <2>1, <2>6 DEF HasBytecode
    <3> QED
      BY <2>3, <2>5, <3>1 DEF InTurn
  <2>7. CASE wspkg[p] # "bytecode"
    <3> DEFINE n == Len(w.queue) + 1
    <3>1. /\ queue = Append(w.queue, p) /\ queue[n] = p /\ DOMAIN queue = 1 .. n
          /\ n \in Nat /\ n - 1 \in Nat /\ n # 0 /\ DOMAIN w.queue = 1 .. (n - 1)
          /\ \A j \in 1 .. (n - 1) : queue[j] = w.queue[j]
      BY <1>1, <2>1, <2>7
    <3> HIDE DEF queue, n
    <3>2. ASSUME NEW q \in l.done PROVE q \in HasBytecode \/ \E j \in DOMAIN l.queue : l.queue[j] = q
      <4>1. CASE q = p
        <5>1. n \in DOMAIN queue
          BY <3>1
        <5> QED
          BY <2>5, <3>1, <4>1, <5>1
      <4>2. CASE q \in w.done
        <5>1. q \in HasBytecode \/ \E j \in 1 .. (n - 1) : w.queue[j] = q
          BY <3>1, <4>2 DEF InTurn
        <5>2. \A j \in 1 .. (n - 1) : j \in DOMAIN queue
          BY <3>1
        <5> QED
          BY <2>5, <3>1, <5>1, <5>2
      <4> QED
        BY <2>5, <4>1, <4>2
    <3>3. ASSUME NEW i \in DOMAIN queue, NEW q \in graph[queue[i]]
          PROVE  q \in HasBytecode \/ \E j \in 1 .. (i - 1) : queue[j] = q
      <4>1. CASE i = n
        <5>1. q \in w.done
          BY <1>3, <3>1, <4>1 DEF p
        <5>2. q \in HasBytecode \/ \E j \in 1 .. (n - 1) : w.queue[j] = q
          BY <3>1, <5>1 DEF InTurn
        <5> QED
          BY <3>1, <4>1, <5>2
      <4>2. CASE i # n
        <5>1. i \in 1 .. (n - 1) /\ \A j \in 1 .. (i - 1) : j \in 1 .. (n - 1)
          BY <3>1, <4>2
        <5>2. q \in HasBytecode \/ \E j \in 1 .. (i - 1) : w.queue[j] = q
          BY <3>1, <5>1 DEF InTurn, InOrder
        <5> QED
          BY <3>1, <5>1, <5>2
      <4> QED
        BY <4>1, <4>2
    <3> QED
      BY <2>3, <2>5, <3>2, <3>3 DEF InTurn, InOrder
  <2> QED
    BY <2>6, <2>7
<1>4. CASE w.cycle \/ w.done = Packages
  BY <1>4 DEF Visit
<1>5. CASE ~(w.cycle \/ w.done = Packages) /\ w.visiting = <<>>
  <2>1. Packages \ w.done \in SUBSET Packages /\ Packages \ w.done # {}
    BY <1>1, <1>5
  <2> QED
    BY <1>2, <1>5, <2>1 DEF Visit
<1>6. CASE ~(w.cycle \/ w.done = Packages) /\ w.visiting # <<>>
  <2>1. Last(w.visiting) \in Packages
    BY <1>1, <1>6 DEF Last
  <2>2. CASE graph[Last(w.visiting)] \subseteq w.done
    BY <1>3, <1>6, <2>2 DEF Visit
  <2>3. CASE ~(graph[Last(w.visiting)] \subseteq w.done)
    <3>1. /\ graph[Last(w.visiting)] \ w.done \in SUBSET Packages
          /\ graph[Last(w.visiting)] \ w.done # {}
      BY <2>1, <2>3
    <3> QED
      BY <1>2, <1>6, <2>3, <3>1 DEF Visit
  <2> QED
    BY <2>2, <2>3
<1> QED
  BY <1>4, <1>5, <1>6

(* What the queue of a cut leaves to each package's imports.                *)
LEMMA QueueInOrder ==
  ASSUME NEW graph \in [Packages -> SUBSET Packages]
  PROVE  Queue(graph) \in Seq(Packages) /\ InOrder(graph, Queue(graph), HasBytecode)
<1>1. PICK f : /\ Walk(graph) = f[Visits] /\ f[0] = Unvisited
               /\ \A n \in 0 .. Visits : n # 0 => f[n] = Visit(graph, f[n - 1])
  BY WalkIsVisits
<1>2. Visits \in Nat
  BY WalkIsVisits
<1>3. InTurn(graph, Unvisited)
  BY EmptySeq DEF InTurn, Unvisited, WalkType, InOrder
<1> DEFINE Bad == {n \in 0 .. Visits : ~InTurn(graph, f[n])}
<1>4. Bad = {}
  <2>1. SUFFICES ASSUME Bad # {} PROVE FALSE
    OBVIOUS
  <2>2. Bad \in SUBSET Nat
    BY <1>2
  <2> HIDE DEF Bad
  <2>3. PICK k \in Bad : \A n \in Bad : k <= n
    BY <2>1, <2>2, LeastOf
  <2>4. k \in 0 .. Visits /\ ~InTurn(graph, f[k]) /\ k # 0
    BY <1>1, <1>3, <2>3 DEF Bad
  <2>5. k - 1 \in 0 .. Visits /\ k - 1 \notin Bad
    BY <1>2, <2>2, <2>3, <2>4
  <2>6. InTurn(graph, f[k - 1]) /\ f[k] = Visit(graph, f[k - 1])
    BY <1>1, <2>4, <2>5 DEF Bad
  <2> QED
    BY <2>4, <2>6, VisitInTurn
<1>5. InTurn(graph, f[Visits])
  BY <1>2, <1>4
<1>6. f[Visits].queue \in Seq(Packages)
  BY <1>5 DEF InTurn, WalkType
<1> QED
  BY <1>1, <1>5, <1>6 DEF Queue, InTurn

-----------------------------------------------------------------------------
(* The cut.                                                                 *)
Cutting(c) ==
    /\ client[c] \in Running /\ client[c].does = "upload" /\ client[c].files = {}
    /\ hop[c].at # "file"

LEMMA CallGoesOn ==
  ASSUME DeployInv, OneClient, NEW c \in Clients, Cutting(c), NEW new \in HopType,
         new.at \in {"package", "bundle", "stamped"}, hop' = [hop EXCEPT ![c] = new],
         new.at = "package" => /\ new.queue # <<>> /\ new.loads = Loadable(new.done)
                               /\ InOrder(client[c].bundle.graph, new.queue, new.loads),
         UNCHANGED <<ws, wspkg, client>>
  PROVE  DeployInv'
<1>1. hop'[c] = new /\ DOMAIN hop' = Clients /\ \A d \in Clients : d = c
  BY DEF DeployInv, DeployType, OneClient
<1>2. DeployType' /\ (Cardinality(FilesOf(ws)) <= PageLimit)'
  BY <1>1, SameRows DEF DeployInv, DeployType
<1>3. AsStaged(c)'
  BY <1>1 DEF AsStaged, Staged, Cutting, DeployInv, InStepWith
<1>4. InStepWith(c)'
  BY <1>1, <1>3 DEF InStepWith, Cutting, DeployInv
<1>5. \A done : Loadable(done)' = Loadable(done)
  BY DEF Loadable
<1>6. CompilesInOrder(c)'
  BY <1>1, <1>5 DEF CompilesInOrder, InOrder
<1> QED
  BY <1>2, <1>4, <1>6, StepOf

LEMMA StampStep ==
  ASSUME DeployInv, OneClient, NEW c \in Clients, Cutting(c), NEW done, NEW bytecode,
         HandlerRows = {} \/ bytecode = [p \in HandlerRows |-> ws[p]],
         CutStamp(c, done, bytecode), UNCHANGED <<ws, wspkg>>
  PROVE  DeployInv'
<1>1. CASE Fail(c)
  BY <1>1, Fails DEF Cutting
<1>2. CASE ~Fail(c)
  <2>1. Listed(FilesOf(ws)) = {FilesOf(ws)}
    BY ListsAll, RowsAreFinite DEF DeployInv
  <2> DEFINE manifest == StampFrom(FilesOf(ws), bytecode)
             new == [at |-> "stamped", manifest |-> manifest]
  <2>2. hop' = [hop EXCEPT ![c] = new] /\ UNCHANGED client
    BY <1>2, <2>1 DEF CutStamp
  <2>3. ASSUME NEW p \in FilesOf(ws) \cap Handlers PROVE p \in HandlerRows
    BY DEF FilesOf, HandlerRows
  <2>4. [p \in FilesOf(ws) \cap Handlers |-> IF p \in DOMAIN bytecode THEN bytecode[p] ELSE NoFile]
          = [p \in FilesOf(ws) \cap Handlers |-> ws[p]]
    <3>1. CASE HandlerRows = {}
      BY <2>3, <3>1
    <3>2. CASE bytecode = [p \in HandlerRows |-> ws[p]]
      BY <2>3, <3>2
    <3> QED
      BY <3>1, <3>2
  <2>5. manifest = [files |-> [p \in FilesOf(ws) |-> ws[p]],
                    bytecode |-> [p \in FilesOf(ws) \cap Handlers |-> ws[p]]]
    BY <2>4 DEF StampFrom
  <2> HIDE DEF manifest
  <2>6. new \in HopType /\ new.at = "stamped"
    BY <2>5 DEF HopType
  <2> HIDE DEF new
  <2> QED
    BY <2>2, <2>6, CallGoesOn
<1> QED
  BY <1>1, <1>2

LEMMA HandlersStep ==
  ASSUME DeployInv, OneClient, NEW c \in Clients, Cutting(c), NEW done \in SUBSET Packages,
         CompileHandlers(c, done), UNCHANGED <<ws, wspkg>>
  PROVE  DeployInv'
<1>1. CASE HandlerRows = {}
  BY <1>1, StampStep DEF CompileHandlers
<1>2. CASE HandlerRows # {}
  <2> DEFINE new == [at |-> "bundle", done |-> done, given |-> [p \in HandlerRows |-> ws[p]]]
  <2>1. hop' = [hop EXCEPT ![c] = new] /\ UNCHANGED client
    BY <1>2 DEF CompileHandlers
  <2>2. new \in HopType /\ new.at = "bundle"
    BY DEF HopType
  <2> HIDE DEF new
  <2> QED
    BY <2>1, <2>2, CallGoesOn
<1> QED
  BY <1>1, <1>2

LEMMA CompileStep ==
  ASSUME DeployInv, OneClient, NEW c \in Clients, Cutting(c), NEW done \in SUBSET Packages,
         NEW queue \in Seq(Packages), InOrder(client[c].bundle.graph, queue, Loadable(done)),
         CompileNext(c, queue, done), UNCHANGED <<ws, wspkg>>
  PROVE  DeployInv'
<1>1. CASE queue = <<>>
  BY <1>1, HandlersStep DEF CompileNext
<1>2. CASE queue # <<>>
  <2> DEFINE new == [at |-> "package", queue |-> queue, done |-> done, loads |-> Loadable(done)]
  <2>1. hop' = [hop EXCEPT ![c] = new] /\ UNCHANGED client
    BY <1>2 DEF CompileNext
  <2>2. Loadable(done) \subseteq Packages
    BY DEF Loadable
  <2>3. new \in HopType
    BY <2>2 DEF HopType
  <2>4. new.at = "package" /\ new.queue = queue /\ new.done = done /\ new.loads = Loadable(done)
    OBVIOUS
  <2> HIDE DEF new
  <2> QED
    BY <1>2, <2>1, <2>3, <2>4, CallGoesOn
<1> QED
  BY <1>1, <1>2

LEMMA CutStep ==
  ASSUME DeployInv, OneClient, NEW c \in Clients, HandleWsCut(c) PROVE DeployInv'
<1> DEFINE graph == client[c].bundle.graph
<1>1. Cutting(c) /\ graph \in [Packages -> SUBSET Packages] /\ UNCHANGED <<ws, wspkg>>
  BY HopIs, DeployAssumption DEF HandleWsCut, Gate, Cutting
<1>2. CASE Fail(c)
  BY <1>1, <1>2, Fails DEF Cutting
<1>3. CASE CompileNext(c, Queue(graph), {})
  <2>1. Loadable({}) = HasBytecode
    BY DEF Loadable, HasBytecode
  <2>2. Queue(graph) \in Seq(Packages) /\ InOrder(graph, Queue(graph), Loadable({}))
    BY <1>1, <2>1, QueueInOrder
  <2> QED
    BY <1>1, <1>3, <2>2, CompileStep
<1> QED
  BY <1>2, <1>3 DEF HandleWsCut

LEMMA PackageStep ==
  ASSUME DeployInv, OneClient, NEW c \in Clients, OnPkgBatchCompiled(c) PROVE DeployInv'
<1> DEFINE graph == client[c].bundle.graph
           queue == hop[c].queue
           done == hop[c].done
<1>1. /\ client[c] \in Running /\ Cutting(c) /\ UNCHANGED <<ws, wspkg>>
      /\ hop[c].at = "package" /\ hop[c] \in HopType
  BY HopIs DEF OnPkgBatchCompiled, DeployInv, DeployType, InStepWith, Cutting, Running, NoDeploy
<1>2. /\ queue \in Seq(Packages) /\ queue # <<>> /\ done \in SUBSET Packages
      /\ hop[c].loads = Loadable(done) /\ InOrder(graph, queue, Loadable(done))
  BY <1>1 DEF HopType, NoHop, DeployInv, CompilesInOrder
<1>3. CASE Fail(c)
  BY <1>1, <1>3, Fails
<1>4. CASE CompileNext(c, Tail(queue), done \cup {Head(queue)})
  <2>1. /\ Head(queue) \in Packages /\ Head(queue) = queue[1] /\ Tail(queue) \in Seq(Packages)
        /\ Len(queue) \in Nat /\ DOMAIN Tail(queue) = 1 .. (Len(queue) - 1) /\ DOMAIN queue = 1 .. Len(queue)
        /\ \A i \in 1 .. (Len(queue) - 1) : Tail(queue)[i] = queue[i + 1]
    BY <1>2
  <2> DEFINE more == done \cup {Head(queue)}
  <2>2. Loadable(done) \subseteq Loadable(more) /\ Head(queue) \in Loadable(more)
    BY <2>1 DEF Loadable
  <2> HIDE DEF queue, done, more
  <2>3. ASSUME NEW i \in DOMAIN Tail(queue), NEW q \in graph[Tail(queue)[i]]
        PROVE  q \in Loadable(more) \/ \E j \in 1 .. (i - 1) : Tail(queue)[j] = q
    <3>1. i + 1 \in DOMAIN queue /\ q \in graph[queue[i + 1]] /\ i \in Nat
      BY <2>1
    <3>2. q \in Loadable(done) \/ \E j \in 1 .. ((i + 1) - 1) : queue[j] = q
      BY <1>2, <3>1 DEF InOrder
    <3>3. ASSUME NEW j \in 1 .. ((i + 1) - 1), queue[j] = q
          PROVE  q \in Loadable(more) \/ \E k \in 1 .. (i - 1) : Tail(queue)[k] = q
      <4>1. CASE j = 1
        BY <2>1, <2>2, <3>3, <4>1
      <4>2. CASE j # 1
        <5>1. j - 1 \in 1 .. (i - 1) /\ j - 1 \in 1 .. (Len(queue) - 1) /\ (j - 1) + 1 = j
          BY <2>1, <3>1, <4>2
        <5>2. Tail(queue)[j - 1] = q
          BY <2>1, <3>3, <5>1
        <5> QED
          BY <5>1, <5>2
      <4> QED
        BY <4>1, <4>2
    <3> QED
      BY <2>2, <3>2, <3>3
  <2>4. more \in SUBSET Packages /\ InOrder(graph, Tail(queue), Loadable(more))
    <3>1. more \in SUBSET Packages
      BY <1>2, <2>1 DEF more
    <3> QED
      BY <2>3, <3>1 DEF InOrder
  <2>5. CompileNext(c, Tail(queue), more)
    BY <1>4 DEF more
  <2> QED
    BY <1>1, <2>1, <2>4, <2>5, CompileStep
<1> QED
  BY <1>3, <1>4 DEF OnPkgBatchCompiled

LEMMA BundleStep ==
  ASSUME DeployInv, OneClient, NEW c \in Clients, OnBundleCompiled(c) PROVE DeployInv'
<1>1. /\ client[c] \in Running /\ Cutting(c) /\ UNCHANGED <<ws, wspkg>>
      /\ hop[c].at = "bundle" /\ hop[c] \in HopType
  BY HopIs DEF OnBundleCompiled, DeployInv, DeployType, InStepWith, Cutting, Running, NoDeploy
<1>2. hop[c].given = [p \in HandlerRows |-> ws[p]]
  BY <1>1 DEF HopType, NoHop
<1> QED
  BY <1>1, <1>2, StampStep DEF OnBundleCompiled

LEMMA CallEndStep ==
  ASSUME DeployInv, OneClient, NEW c \in Clients, Refused(c) \/ OnCut(c) PROVE DeployInv'
<1>1. client[c] \in Running
  BY HopIs DEF Refused, OnCut, DeployInv, DeployType, InStepWith, NoDeploy
<1>2. CASE Refused(c)
  BY <1>1, <1>2, Fails DEF Refused
<1>3. CASE OnCut(c)
  BY <1>1, <1>3, CallEnds DEF OnCut
<1> QED
  BY <1>2, <1>3

LEMMA DeployKeeps ==
  ASSUME OneClient, DeployInv, [DeployNext]_deployVars PROVE DeployInv'
<1>1. CASE UNCHANGED <<ws, wspkg, client, hop>>
  <2>1. DeployType' /\ (Cardinality(FilesOf(ws)) <= PageLimit)'
    BY <1>1, SameRows DEF DeployInv, DeployType
  <2>2. ASSUME NEW c \in Clients PROVE InStepWith(c)' /\ CompilesInOrder(c)'
    BY <1>1 DEF DeployInv, InStepWith, AsStaged, Staged, CompilesInOrder, Loadable, InOrder
  <2> QED
    BY <2>1, <2>2 DEF DeployInv
<1> QED
  BY <1>1, StartStep, AbandonStep, ResetStep, CutStep, UploadStep, UploadPackageStep, FileStagedStep,
     PackageStagedStep, PackageStep, BundleStep, CallEndStep
  DEF DeployNext, AccountCloses, deployVars

LEMMA DeployAlways == ASSUME OneClient PROVE DeploySpec => []DeployInv
<1>1. DeployInit => DeployInv
  BY DeployStart
<1>2. DeployInv /\ [DeployNext]_deployVars => DeployInv'
  BY DeployKeeps
<1> QED
  BY <1>1, <1>2, PTL DEF DeploySpec

(* What a cut stamps is the bundle its client asked for, whole, and its     *)
(* handlers compiled from it, for one client at a time, any bundles within  *)
(* a listing, and whatever was left by deploys abandoned anywhere.          *)
THEOREM CutsAreAlwaysTheBundle == ASSUME OneClient PROVE DeploySpec => []CutIsTheBundle
<1>1. DeployInv => CutIsTheBundle
  <2> SUFFICES ASSUME DeployInv, NEW c \in Clients, hop[c].at = "stamped"
               PROVE  LET cut == hop[c].manifest
                          ordered == client[c].bundle.files
                      IN /\ cut.files = [p \in FilesOf(ordered) |-> ordered[p]]
                         /\ cut.bytecode = [p \in FilesOf(ordered) \cap Handlers |-> ordered[p]]
    BY DEF CutIsTheBundle
  <2> DEFINE ordered == client[c].bundle.files
  <2>1. client[c] \in Running /\ hop[c] \in HopType /\ client[c].does = "upload" /\ client[c].files = {}
    BY HopIs DEF DeployInv, DeployType, InStepWith, Running, NoDeploy
  <2>2. /\ hop[c].manifest.files = [p \in FilesOf(ws) |-> ws[p]]
        /\ hop[c].manifest.bytecode = [p \in FilesOf(ws) \cap Handlers |-> ws[p]]
    BY <2>1 DEF HopType, NoHop
  <2>3. \A p \in Paths : ws[p] = ordered[p]
    BY <2>1 DEF DeployInv, InStepWith, AsStaged, Staged
  <2>4. FilesOf(ws) = FilesOf(ordered) /\ FilesOf(ws) \subseteq Paths
    BY <2>3 DEF FilesOf
  <2> HIDE DEF ordered
  <2>5. /\ [p \in FilesOf(ws) |-> ws[p]] = [p \in FilesOf(ordered) |-> ordered[p]]
        /\ [p \in FilesOf(ws) \cap Handlers |-> ws[p]] = [p \in FilesOf(ordered) \cap Handlers |-> ordered[p]]
    BY <2>3, <2>4
  <2> QED
    BY <2>2, <2>5 DEF ordered
<1> QED
  BY <1>1, DeployAlways, PTL

(* A package is compiled when everything it imports has its bytecode, for   *)
(* one client at a time and any graph of imports (pkgCompileQueue).         *)
THEOREM ImportsAreAlwaysReady == ASSUME OneClient PROVE DeploySpec => []ImportsAreReady
<1>1. DeployInv => ImportsAreReady
  <2> SUFFICES ASSUME DeployInv, NEW c \in Clients, hop[c].at = "package"
               PROVE  client[c].bundle.graph[Head(hop[c].queue)] \subseteq hop[c].loads
    BY DEF ImportsAreReady
  <2>1. hop[c] \in HopType
    BY DEF DeployInv, DeployType
  <2>2. hop[c].queue \in Seq(Packages)
    BY <2>1 DEF HopType, NoHop
  <2>3. 1 \in DOMAIN hop[c].queue /\ Head(hop[c].queue) = hop[c].queue[1] /\ 1 .. (1 - 1) = {}
    BY <2>2 DEF DeployInv, CompilesInOrder
  <2> QED
    BY <2>3 DEF DeployInv, CompilesInOrder, InOrder
<1> QED
  BY <1>1, DeployAlways, PTL

-----------------------------------------------------------------------------
(* Router.  The table of routes, row by row; first, the patterns that the  *)
(* source writes as a prefix and a rest.                                   *)
LEMMA PlusOne ==
  ASSUME NEW x, NEW y, NEW z, NEW a
  PROVE  <<x, y, z>> \o <<a>> = <<x, y, z, a>>
<1> DEFINE S == {x, y, z, a}
           p == <<x, y, z>>
           q == <<a>>
           t == <<x, y, z, a>>
<1>1. /\ p \in Seq(S) /\ Len(p) = 3 /\ q \in Seq(S) /\ Len(q) = 1
      /\ t \in Seq(S) /\ Len(t) = 4
  OBVIOUS
<1>2. ASSUME NEW i \in 1 .. 4 PROVE t[i] = IF i <= 3 THEN p[i] ELSE q[i - 3]
  <2>1. i = 1 \/ i = 2 \/ i = 3 \/ i = 4
    OBVIOUS
  <2> QED
    BY <2>1
<1> HIDE DEF p, q, t, S
<1>3. /\ p \o q \in Seq(S) /\ Len(p \o q) = Len(p) + Len(q)
      /\ \A i \in 1 .. Len(p) + Len(q) :
            (p \o q)[i] = IF i <= Len(p) THEN p[i] ELSE q[i - Len(p)]
  BY <1>1, ConcatProperties
<1>4. Len(p) + Len(q) = 4
  BY <1>1
<1>5. Len(p \o q) = Len(t) /\ \A i \in 1 .. Len(p \o q) : (p \o q)[i] = t[i]
  BY <1>1, <1>2, <1>3, <1>4
<1>6. p \o q = t
  BY <1>1, <1>3, <1>5, SeqEqual
<1> QED
  BY <1>6 DEF p, q, t

LEMMA PlusTwo ==
  ASSUME NEW x, NEW y, NEW z, NEW a, NEW b
  PROVE  <<x, y, z>> \o <<a, b>> = <<x, y, z, a, b>>
<1> DEFINE S == {x, y, z, a, b}
           p == <<x, y, z>>
           q == <<a, b>>
           t == <<x, y, z, a, b>>
<1>1. /\ p \in Seq(S) /\ Len(p) = 3 /\ q \in Seq(S) /\ Len(q) = 2
      /\ t \in Seq(S) /\ Len(t) = 5
  OBVIOUS
<1>2. ASSUME NEW i \in 1 .. 5 PROVE t[i] = IF i <= 3 THEN p[i] ELSE q[i - 3]
  <2>1. i = 1 \/ i = 2 \/ i = 3 \/ i = 4 \/ i = 5
    OBVIOUS
  <2> QED
    BY <2>1
<1> HIDE DEF p, q, t, S
<1>3. /\ p \o q \in Seq(S) /\ Len(p \o q) = Len(p) + Len(q)
      /\ \A i \in 1 .. Len(p) + Len(q) :
            (p \o q)[i] = IF i <= Len(p) THEN p[i] ELSE q[i - Len(p)]
  BY <1>1, ConcatProperties
<1>4. Len(p) + Len(q) = 5
  BY <1>1
<1>5. Len(p \o q) = Len(t) /\ \A i \in 1 .. Len(p \o q) : (p \o q)[i] = t[i]
  BY <1>1, <1>2, <1>3, <1>4
<1>6. p \o q = t
  BY <1>1, <1>3, <1>5, SeqEqual
<1> QED
  BY <1>6 DEF p, q, t

LEMMA PlusThree ==
  ASSUME NEW x, NEW y, NEW z, NEW a, NEW b, NEW c
  PROVE  <<x, y, z>> \o <<a, b, c>> = <<x, y, z, a, b, c>>
<1> DEFINE S == {x, y, z, a, b, c}
           p == <<x, y, z>>
           q == <<a, b, c>>
           t == <<x, y, z, a, b, c>>
<1>1. /\ p \in Seq(S) /\ Len(p) = 3 /\ q \in Seq(S) /\ Len(q) = 3
      /\ t \in Seq(S) /\ Len(t) = 6
  OBVIOUS
<1>2. ASSUME NEW i \in 1 .. 6 PROVE t[i] = IF i <= 3 THEN p[i] ELSE q[i - 3]
  <2>1. i = 1 \/ i = 2 \/ i = 3 \/ i = 4 \/ i = 5 \/ i = 6
    OBVIOUS
  <2> QED
    BY <2>1
<1> HIDE DEF p, q, t, S
<1>3. /\ p \o q \in Seq(S) /\ Len(p \o q) = Len(p) + Len(q)
      /\ \A i \in 1 .. Len(p) + Len(q) :
            (p \o q)[i] = IF i <= Len(p) THEN p[i] ELSE q[i - Len(p)]
  BY <1>1, ConcatProperties
<1>4. Len(p) + Len(q) = 6
  BY <1>1
<1>5. Len(p \o q) = Len(t) /\ \A i \in 1 .. Len(p \o q) : (p \o q)[i] = t[i]
  BY <1>1, <1>2, <1>3, <1>4
<1>6. p \o q = t
  BY <1>1, <1>3, <1>5, SeqEqual
<1> QED
  BY <1>6 DEF p, q, t

(* The patterns under an instance and under an account, written out.       *)
LEMMA UnderAnInstance ==
  /\ Instance = <<"v1", "instances", ":id">>
  /\ Instance \o <<"release">> = <<"v1", "instances", ":id", "release">>
  /\ Instance \o <<"export">> = <<"v1", "instances", ":id", "export">>
  /\ Instance \o <<"usage">> = <<"v1", "instances", ":id", "usage">>
  /\ Instance \o <<"kv">> = <<"v1", "instances", ":id", "kv">>
  /\ Instance \o <<"export", ":eid">> = <<"v1", "instances", ":id", "export", ":eid">>
  /\ Instance \o <<"export", ":eid", "links">>
       = <<"v1", "instances", ":id", "export", ":eid", "links">>
<1>1. /\ Instance \o <<"release">> = <<"v1", "instances", ":id", "release">>
      /\ Instance \o <<"export">> = <<"v1", "instances", ":id", "export">>
      /\ Instance \o <<"usage">> = <<"v1", "instances", ":id", "usage">>
      /\ Instance \o <<"kv">> = <<"v1", "instances", ":id", "kv">>
  BY PlusOne, Zenon DEF Instance
<1>2. Instance \o <<"export", ":eid">> = <<"v1", "instances", ":id", "export", ":eid">>
  BY PlusTwo, Zenon DEF Instance
<1>3. Instance \o <<"export", ":eid", "links">>
        = <<"v1", "instances", ":id", "export", ":eid", "links">>
  BY PlusThree DEF Instance
<1> QED
  BY <1>1, <1>2, <1>3 DEF Instance

LEMMA UnderAnAccount ==
  /\ Account = <<"v1", "accounts", ":aid">>
  /\ \A a : Account \o <<a>> = <<"v1", "accounts", ":aid", a>>
  /\ \A a, b : Account \o <<a, b>> = <<"v1", "accounts", ":aid", a, b>>
<1>1. ASSUME NEW a PROVE Account \o <<a>> = <<"v1", "accounts", ":aid", a>>
  BY PlusOne, PlusTwo, PlusThree, Zenon DEF Account
<1>2. ASSUME NEW a, NEW b PROVE Account \o <<a, b>> = <<"v1", "accounts", ":aid", a, b>>
  BY PlusOne, PlusTwo, PlusThree, Zenon DEF Account
<1> QED
  BY <1>1, <1>2 DEF Account

Row(r, method, pattern) == r.method = method /\ r.pattern = pattern

(* The rows by what their handlers touch.                                  *)
Handshake(r) ==
    \/ Row(r, "GET", <<"v1", "session">>) \/ Row(r, "POST", <<"v1", "logout">>)
    \/ Row(r, "POST", <<"v1", "cli", "exchange">>) \/ Row(r, "POST", <<"v1", "billing", "webhook">>)
    \/ \E p \in {"login", "callback", "poll", "logout"} : Row(r, "GET", <<"_rp", p>>)

Caller(r) ==
    \/ Row(r, "GET", <<"v1", "instances">>) \/ Row(r, "POST", <<"v1", "instances">>)
    \/ Row(r, "POST", <<"v1", "accounts">>) \/ Row(r, "POST", <<"v1", "accounts", ":aid", "leave">>)
    \/ Row(r, "POST", <<"v1", "account", "delete">>) \/ Row(r, "GET", <<"v1", "billing", "config">>)
    \/ Row(r, "POST", <<"v1", "invites", "accept">>)

Platform(r) ==
    \/ Row(r, "PUT", <<"v1", "instances", ":id">>) \/ Row(r, "GET", <<"v1", "domains">>)
    \/ Row(r, "PUT", <<"v1", "domains", ":host">>) \/ Row(r, "GET", <<"v1", "deletions">>)
    \/ Row(r, "POST", <<"v1", "deletions", ":aid", "retry">>)
    \/ Row(r, "POST", <<"v1", "ops", "incarnations", "bind">>)

Tenant(r) ==
    \/ Row(r, "GET", <<"v1", "instances", ":id">>) \/ Row(r, "DELETE", <<"v1", "instances", ":id">>)
    \/ Row(r, "POST", <<"v1", "instances", ":id", "release">>)
    \/ Row(r, "POST", <<"v1", "instances", ":id", "export">>)
    \/ Row(r, "GET", <<"v1", "instances", ":id", "export">>)
    \/ Row(r, "GET", <<"v1", "instances", ":id", "export", ":eid">>)
    \/ Row(r, "GET", <<"v1", "instances", ":id", "export", ":eid", "links">>)
    \/ Row(r, "GET", <<"v1", "instances", ":id", "usage">>)
    \/ \E m \in {"GET", "PUT", "DELETE"} : Row(r, m, <<"v1", "instances", ":id", "kv">>)

OfMembers(r) ==
    \E p \in {"members", "export", "billing"} : Row(r, "GET", <<"v1", "accounts", ":aid", p>>)

OfOwners(r) ==
    \/ Row(r, "POST", <<"v1", "accounts", ":aid", "invites">>)
    \/ Row(r, "DELETE", <<"v1", "accounts", ":aid", "invites", ":eh">>)
    \/ \E m \in {"PUT", "DELETE"} : Row(r, m, <<"v1", "accounts", ":aid", "members", ":h">>)
    \/ Row(r, "DELETE", <<"v1", "accounts", ":aid">>)
    \/ Row(r, "GET", <<"v1", "accounts", ":aid", "billing", "invoices">>)
    \/ \E p \in {"subscribe", "change", "cancel"} :
          Row(r, "POST", <<"v1", "accounts", ":aid", "billing", p>>)

DeployOp(r) ==
    \E p \in {"reset", "file", "pkgfile", "ref", "cut"} : Row(r, "POST", <<"v1", "deploy", p>>)

Door(r) ==
    \/ Row(r, "GET", <<"v1", "history", ":id">>) \/ Row(r, "GET", <<"v1", "logs", "*">>)
    \/ Row(r, "GET", <<"v1", "sources", "*">>) \/ Row(r, "GET", <<"v1", "source", ":id", ":dep">>)

CpOp(r) == \E m \in {"GET", "POST"} : Row(r, m, <<"v1", "cp", ":op">>)

Is(r, cls, touches) ==
    r = [method |-> r.method, pattern |-> r.pattern, cls |-> cls, touches |-> touches]

(* Every route is one of these rows, with its class.                       *)
LEMMA Table ==
  ASSUME NEW r \in Routes
  PROVE  \/ Handshake(r) /\ Is(r, "open", "handshake")
         \/ Caller(r) /\ Is(r, "authed", "caller")
         \/ Platform(r) /\ Is(r, "root", "platform")
         \/ Tenant(r) /\ Is(r, "tenant", "tenant")
         \/ OfMembers(r) /\ Is(r, "accountMember", "account")
         \/ OfOwners(r) /\ Is(r, "accountOwner", "ownership")
         \/ DeployOp(r) /\ Is(r, "open", "deploy")
         \/ Door(r) /\ Is(r, "self", "door")
         \/ CpOp(r) /\ Is(r, "self", "platform")
<1> USE DEF GET, POST, PUT, DELETE, Is, Row
<1>1. ASSUME r \in Rows("open", "handshake",
        {GET(<<"v1", "session">>), POST(<<"v1", "logout">>), POST(<<"v1", "cli", "exchange">>),
         POST(<<"v1", "billing", "webhook">>)}
        \cup {GET(<<"_rp", p>>) : p \in {"login", "callback", "poll", "logout"}})
      PROVE  Handshake(r) /\ Is(r, "open", "handshake")
  BY <1>1 DEF Rows, Handshake
<1>2. ASSUME r \in Rows("authed", "caller",
        {GET(<<"v1", "instances">>), POST(<<"v1", "instances">>), POST(<<"v1", "accounts">>),
         POST(Account \o <<"leave">>), POST(<<"v1", "account", "delete">>),
         GET(<<"v1", "billing", "config">>), POST(<<"v1", "invites", "accept">>)})
      PROVE  Caller(r) /\ Is(r, "authed", "caller")
  BY <1>2, UnderAnAccount DEF Rows, Caller
<1>3. ASSUME r \in Rows("root", "platform",
        {PUT(Instance), GET(<<"v1", "domains">>), PUT(<<"v1", "domains", ":host">>),
         GET(<<"v1", "deletions">>), POST(<<"v1", "deletions", ":aid", "retry">>),
         POST(<<"v1", "ops", "incarnations", "bind">>)})
      PROVE  Platform(r) /\ Is(r, "root", "platform")
  BY <1>3, UnderAnInstance DEF Rows, Platform
<1>4. ASSUME r \in Rows("tenant", "tenant",
        {GET(Instance), DELETE(Instance), POST(Instance \o <<"release">>),
         POST(Instance \o <<"export">>), GET(Instance \o <<"export">>),
         GET(Instance \o <<"export", ":eid">>), GET(Instance \o <<"export", ":eid", "links">>),
         GET(Instance \o <<"usage">>), GET(Instance \o <<"kv">>), PUT(Instance \o <<"kv">>),
         DELETE(Instance \o <<"kv">>)})
      PROVE  Tenant(r) /\ Is(r, "tenant", "tenant")
  BY <1>4, UnderAnInstance DEF Rows, Tenant
<1>5. ASSUME r \in Rows("accountMember", "account",
        {GET(Account \o <<"members">>), GET(Account \o <<"export">>), GET(Account \o <<"billing">>)})
      PROVE  OfMembers(r) /\ Is(r, "accountMember", "account")
  BY <1>5, UnderAnAccount DEF Rows, OfMembers
<1>6. ASSUME r \in Rows("accountOwner", "ownership",
        {POST(Account \o <<"invites">>), DELETE(Account \o <<"invites", ":eh">>),
         PUT(Account \o <<"members", ":h">>), DELETE(Account \o <<"members", ":h">>),
         DELETE(Account), GET(Account \o <<"billing", "invoices">>)}
        \cup {POST(Account \o <<"billing", p>>) : p \in {"subscribe", "change", "cancel"}})
      PROVE  OfOwners(r) /\ Is(r, "accountOwner", "ownership")
  BY <1>6, UnderAnAccount DEF Rows, OfOwners
<1>7. ASSUME r \in Rows("open", "deploy",
        {POST(<<"v1", "deploy", p>>) : p \in {"reset", "file", "pkgfile", "ref", "cut"}})
      PROVE  DeployOp(r) /\ Is(r, "open", "deploy")
  BY <1>7 DEF Rows, DeployOp
<1>8. ASSUME r \in Rows("self", "door",
        {GET(<<"v1", "history", ":id">>), GET(<<"v1", "logs", "*">>), GET(<<"v1", "sources", "*">>),
         GET(<<"v1", "source", ":id", ":dep">>)})
      PROVE  Door(r) /\ Is(r, "self", "door")
  BY <1>8 DEF Rows, Door
<1>9. ASSUME r \in Rows("self", "platform", {POST(<<"v1", "cp", ":op">>), GET(<<"v1", "cp", ":op">>)})
      PROVE  CpOp(r) /\ Is(r, "self", "platform")
  BY <1>9 DEF Rows, CpOp
<1> QED
  BY <1>1, <1>2, <1>3, <1>4, <1>5, <1>6, <1>7, <1>8, <1>9, Zenon DEF Routes

-----------------------------------------------------------------------------
(* What a request has in common with the pattern it fits.                  *)
LEMMA Fits2 ==
  ASSUME NEW r, NEW request, RouteFits(r, request),
         NEW a, NEW b, r.pattern = <<a, b>>, b # "*"
  PROVE  /\ request.method = r.method /\ Len(request.path) = 2
         /\ a \in Parameters \/ request.path[1] = a
         /\ b \in Parameters \/ request.path[2] = b
  BY DEF RouteFits

LEMMA Fits3 ==
  ASSUME NEW r, NEW request, RouteFits(r, request),
         NEW a, NEW b, NEW c, r.pattern = <<a, b, c>>, c # "*"
  PROVE  /\ request.method = r.method /\ Len(request.path) = 3
         /\ a \in Parameters \/ request.path[1] = a
         /\ b \in Parameters \/ request.path[2] = b
         /\ c \in Parameters \/ request.path[3] = c
  BY DEF RouteFits

LEMMA Fits4 ==
  ASSUME NEW r, NEW request, RouteFits(r, request),
         NEW a, NEW b, NEW c, NEW d, r.pattern = <<a, b, c, d>>, d # "*"
  PROVE  /\ request.method = r.method /\ Len(request.path) = 4
         /\ a \in Parameters \/ request.path[1] = a
         /\ b \in Parameters \/ request.path[2] = b
         /\ c \in Parameters \/ request.path[3] = c
         /\ d \in Parameters \/ request.path[4] = d
  BY DEF RouteFits

LEMMA Fits5 ==
  ASSUME NEW r, NEW request, RouteFits(r, request),
         NEW a, NEW b, NEW c, NEW d, NEW e, r.pattern = <<a, b, c, d, e>>, e # "*"
  PROVE  /\ request.method = r.method /\ Len(request.path) = 5
         /\ a \in Parameters \/ request.path[1] = a
         /\ b \in Parameters \/ request.path[2] = b
         /\ c \in Parameters \/ request.path[3] = c
         /\ d \in Parameters \/ request.path[4] = d
         /\ e \in Parameters \/ request.path[5] = e
  BY DEF RouteFits

LEMMA Fits6 ==
  ASSUME NEW r, NEW request, RouteFits(r, request),
         NEW a, NEW b, NEW c, NEW d, NEW e, NEW f, r.pattern = <<a, b, c, d, e, f>>, f # "*"
  PROVE  /\ request.method = r.method /\ Len(request.path) = 6
         /\ a \in Parameters \/ request.path[1] = a
         /\ b \in Parameters \/ request.path[2] = b
         /\ c \in Parameters \/ request.path[3] = c
         /\ d \in Parameters \/ request.path[4] = d
         /\ e \in Parameters \/ request.path[5] = e
         /\ f \in Parameters \/ request.path[6] = f
  BY DEF RouteFits

LEMMA FitsRest ==
  ASSUME NEW r, NEW request, RouteFits(r, request), NEW a, NEW b, r.pattern = <<a, b, "*">>
  PROVE  /\ request.method = r.method /\ Len(request.path) >= 2
         /\ a \in Parameters \/ request.path[1] = a
         /\ b \in Parameters \/ request.path[2] = b
  BY DEF RouteFits

(* The method, the length and the words of a request that fits a pattern.  *)
Asks(request, method, n, second, i, word) ==
    /\ request.method = method /\ Len(request.path) = n
    /\ request.path[2] = second /\ request.path[i] = word

AsksHandshake(r, request) ==
    \/ Row(r, "GET", <<"v1", "session">>)
       /\ Asks(request, "GET", 2, "session", 1, "v1")
    \/ Row(r, "POST", <<"v1", "logout">>)
       /\ Asks(request, "POST", 2, "logout", 1, "v1")
    \/ Row(r, "POST", <<"v1", "cli", "exchange">>)
       /\ Asks(request, "POST", 3, "cli", 3, "exchange")
    \/ Row(r, "POST", <<"v1", "billing", "webhook">>)
       /\ Asks(request, "POST", 3, "billing", 3, "webhook")
    \/ Row(r, "GET", <<"_rp", "login">>)
       /\ Asks(request, "GET", 2, "login", 1, "_rp")
    \/ Row(r, "GET", <<"_rp", "callback">>)
       /\ Asks(request, "GET", 2, "callback", 1, "_rp")
    \/ Row(r, "GET", <<"_rp", "poll">>)
       /\ Asks(request, "GET", 2, "poll", 1, "_rp")
    \/ Row(r, "GET", <<"_rp", "logout">>)
       /\ Asks(request, "GET", 2, "logout", 1, "_rp")

AsksCaller(r, request) ==
    \/ Row(r, "GET", <<"v1", "instances">>)
       /\ Asks(request, "GET", 2, "instances", 1, "v1")
    \/ Row(r, "POST", <<"v1", "instances">>)
       /\ Asks(request, "POST", 2, "instances", 1, "v1")
    \/ Row(r, "POST", <<"v1", "accounts">>)
       /\ Asks(request, "POST", 2, "accounts", 1, "v1")
    \/ Row(r, "POST", <<"v1", "accounts", ":aid", "leave">>)
       /\ Asks(request, "POST", 4, "accounts", 4, "leave")
    \/ Row(r, "POST", <<"v1", "account", "delete">>)
       /\ Asks(request, "POST", 3, "account", 3, "delete")
    \/ Row(r, "GET", <<"v1", "billing", "config">>)
       /\ Asks(request, "GET", 3, "billing", 3, "config")
    \/ Row(r, "POST", <<"v1", "invites", "accept">>)
       /\ Asks(request, "POST", 3, "invites", 3, "accept")

AsksPlatform(r, request) ==
    \/ Row(r, "PUT", <<"v1", "instances", ":id">>)
       /\ Asks(request, "PUT", 3, "instances", 1, "v1")
    \/ Row(r, "GET", <<"v1", "domains">>)
       /\ Asks(request, "GET", 2, "domains", 1, "v1")
    \/ Row(r, "PUT", <<"v1", "domains", ":host">>)
       /\ Asks(request, "PUT", 3, "domains", 1, "v1")
    \/ Row(r, "GET", <<"v1", "deletions">>)
       /\ Asks(request, "GET", 2, "deletions", 1, "v1")
    \/ Row(r, "POST", <<"v1", "deletions", ":aid", "retry">>)
       /\ Asks(request, "POST", 4, "deletions", 4, "retry")
    \/ Row(r, "POST", <<"v1", "ops", "incarnations", "bind">>)
       /\ Asks(request, "POST", 4, "ops", 4, "bind")

AsksTenant(r, request) ==
    \/ Row(r, "GET", <<"v1", "instances", ":id">>)
       /\ Asks(request, "GET", 3, "instances", 1, "v1")
    \/ Row(r, "DELETE", <<"v1", "instances", ":id">>)
       /\ Asks(request, "DELETE", 3, "instances", 1, "v1")
    \/ Row(r, "POST", <<"v1", "instances", ":id", "release">>)
       /\ Asks(request, "POST", 4, "instances", 4, "release")
    \/ Row(r, "POST", <<"v1", "instances", ":id", "export">>)
       /\ Asks(request, "POST", 4, "instances", 4, "export")
    \/ Row(r, "GET", <<"v1", "instances", ":id", "export">>)
       /\ Asks(request, "GET", 4, "instances", 4, "export")
    \/ Row(r, "GET", <<"v1", "instances", ":id", "export", ":eid">>)
       /\ Asks(request, "GET", 5, "instances", 4, "export")
    \/ Row(r, "GET", <<"v1", "instances", ":id", "export", ":eid", "links">>)
       /\ Asks(request, "GET", 6, "instances", 4, "export")
    \/ Row(r, "GET", <<"v1", "instances", ":id", "usage">>)
       /\ Asks(request, "GET", 4, "instances", 4, "usage")
    \/ Row(r, "GET", <<"v1", "instances", ":id", "kv">>)
       /\ Asks(request, "GET", 4, "instances", 4, "kv")
    \/ Row(r, "PUT", <<"v1", "instances", ":id", "kv">>)
       /\ Asks(request, "PUT", 4, "instances", 4, "kv")
    \/ Row(r, "DELETE", <<"v1", "instances", ":id", "kv">>)
       /\ Asks(request, "DELETE", 4, "instances", 4, "kv")

AsksOfMembers(r, request) ==
    \/ Row(r, "GET", <<"v1", "accounts", ":aid", "members">>)
       /\ Asks(request, "GET", 4, "accounts", 4, "members")
    \/ Row(r, "GET", <<"v1", "accounts", ":aid", "export">>)
       /\ Asks(request, "GET", 4, "accounts", 4, "export")
    \/ Row(r, "GET", <<"v1", "accounts", ":aid", "billing">>)
       /\ Asks(request, "GET", 4, "accounts", 4, "billing")

AsksOfOwners(r, request) ==
    \/ Row(r, "POST", <<"v1", "accounts", ":aid", "invites">>)
       /\ Asks(request, "POST", 4, "accounts", 4, "invites")
    \/ Row(r, "DELETE", <<"v1", "accounts", ":aid", "invites", ":eh">>)
       /\ Asks(request, "DELETE", 5, "accounts", 4, "invites")
    \/ Row(r, "PUT", <<"v1", "accounts", ":aid", "members", ":h">>)
       /\ Asks(request, "PUT", 5, "accounts", 4, "members")
    \/ Row(r, "DELETE", <<"v1", "accounts", ":aid", "members", ":h">>)
       /\ Asks(request, "DELETE", 5, "accounts", 4, "members")
    \/ Row(r, "DELETE", <<"v1", "accounts", ":aid">>)
       /\ Asks(request, "DELETE", 3, "accounts", 1, "v1")
    \/ Row(r, "GET", <<"v1", "accounts", ":aid", "billing", "invoices">>)
       /\ Asks(request, "GET", 5, "accounts", 5, "invoices")
    \/ Row(r, "POST", <<"v1", "accounts", ":aid", "billing", "subscribe">>)
       /\ Asks(request, "POST", 5, "accounts", 5, "subscribe")
    \/ Row(r, "POST", <<"v1", "accounts", ":aid", "billing", "change">>)
       /\ Asks(request, "POST", 5, "accounts", 5, "change")
    \/ Row(r, "POST", <<"v1", "accounts", ":aid", "billing", "cancel">>)
       /\ Asks(request, "POST", 5, "accounts", 5, "cancel")

AsksDeployOp(r, request) ==
    \/ Row(r, "POST", <<"v1", "deploy", "reset">>)
       /\ Asks(request, "POST", 3, "deploy", 3, "reset")
    \/ Row(r, "POST", <<"v1", "deploy", "file">>)
       /\ Asks(request, "POST", 3, "deploy", 3, "file")
    \/ Row(r, "POST", <<"v1", "deploy", "pkgfile">>)
       /\ Asks(request, "POST", 3, "deploy", 3, "pkgfile")
    \/ Row(r, "POST", <<"v1", "deploy", "ref">>)
       /\ Asks(request, "POST", 3, "deploy", 3, "ref")
    \/ Row(r, "POST", <<"v1", "deploy", "cut">>)
       /\ Asks(request, "POST", 3, "deploy", 3, "cut")

AsksDoor(r, request) ==
    \/ Row(r, "GET", <<"v1", "history", ":id">>)
       /\ Asks(request, "GET", 3, "history", 1, "v1")
    \/ Row(r, "GET", <<"v1", "logs", "*">>) /\ request.method = "GET"
       /\ request.path[1] = "v1" /\ request.path[2] = "logs"
    \/ Row(r, "GET", <<"v1", "sources", "*">>) /\ request.method = "GET"
       /\ request.path[1] = "v1" /\ request.path[2] = "sources"
    \/ Row(r, "GET", <<"v1", "source", ":id", ":dep">>)
       /\ Asks(request, "GET", 4, "source", 1, "v1")

AsksCpOp(r, request) ==
    \/ Row(r, "GET", <<"v1", "cp", ":op">>)
       /\ Asks(request, "GET", 3, "cp", 1, "v1")
    \/ Row(r, "POST", <<"v1", "cp", ":op">>)
       /\ Asks(request, "POST", 3, "cp", 1, "v1")

(* Class by class: a request that fits a row asks for it.                  *)
LEMMA HandshakeFits ==
  ASSUME NEW r, NEW request, RouteFits(r, request), Handshake(r)
  PROVE  AsksHandshake(r, request)
  BY Fits2, Fits3 DEF Handshake, AsksHandshake, Asks, Row, Parameters

LEMMA CallerFits ==
  ASSUME NEW r, NEW request, RouteFits(r, request), Caller(r)
  PROVE  AsksCaller(r, request)
  BY Fits2, Fits3, Fits4 DEF Caller, AsksCaller, Asks, Row, Parameters

LEMMA PlatformFits ==
  ASSUME NEW r, NEW request, RouteFits(r, request), Platform(r)
  PROVE  AsksPlatform(r, request)
  BY Fits2, Fits3, Fits4 DEF Platform, AsksPlatform, Asks, Row, Parameters

LEMMA TenantFits ==
  ASSUME NEW r, NEW request, RouteFits(r, request), Tenant(r)
  PROVE  AsksTenant(r, request)
  BY Fits3, Fits4, Fits5, Fits6 DEF Tenant, AsksTenant, Asks, Row, Parameters

LEMMA OfMembersFits ==
  ASSUME NEW r, NEW request, RouteFits(r, request), OfMembers(r)
  PROVE  AsksOfMembers(r, request)
  BY Fits4 DEF OfMembers, AsksOfMembers, Asks, Row, Parameters

LEMMA OfOwnersFits ==
  ASSUME NEW r, NEW request, RouteFits(r, request), OfOwners(r)
  PROVE  AsksOfOwners(r, request)
  BY Fits3, Fits4, Fits5 DEF OfOwners, AsksOfOwners, Asks, Row, Parameters

LEMMA DeployOpFits ==
  ASSUME NEW r, NEW request, RouteFits(r, request), DeployOp(r)
  PROVE  AsksDeployOp(r, request)
  BY Fits3 DEF DeployOp, AsksDeployOp, Asks, Row, Parameters

LEMMA DoorFits ==
  ASSUME NEW r, NEW request, RouteFits(r, request), Door(r)
  PROVE  AsksDoor(r, request)
  BY Fits3, Fits4, FitsRest DEF Door, AsksDoor, Asks, Row, Parameters

LEMMA CpOpFits ==
  ASSUME NEW r, NEW request, RouteFits(r, request), CpOp(r)
  PROVE  AsksCpOp(r, request)
  BY Fits3 DEF CpOp, AsksCpOp, Asks, Row, Parameters

-----------------------------------------------------------------------------
(* A route that fits, with the row it is and the words it fits by.         *)
FitsAs(r, request) ==
    \/ AsksHandshake(r, request) /\ Is(r, "open", "handshake")
    \/ AsksCaller(r, request) /\ Is(r, "authed", "caller")
    \/ AsksPlatform(r, request) /\ Is(r, "root", "platform")
    \/ AsksTenant(r, request) /\ Is(r, "tenant", "tenant")
    \/ AsksOfMembers(r, request) /\ Is(r, "accountMember", "account")
    \/ AsksOfOwners(r, request) /\ Is(r, "accountOwner", "ownership")
    \/ AsksDeployOp(r, request) /\ Is(r, "open", "deploy")
    \/ AsksDoor(r, request) /\ Is(r, "self", "door")
    \/ AsksCpOp(r, request) /\ Is(r, "self", "platform")

LEMMA FitsAsARow ==
  ASSUME NEW r \in Routes, NEW request, RouteFits(r, request)
  PROVE  FitsAs(r, request)
  BY Table, HandshakeFits, CallerFits, PlatformFits, TenantFits, OfMembersFits, OfOwnersFits, DeployOpFits, DoorFits, CpOpFits DEF FitsAs

(* No row shadows another: a request fits one at most.                     *)
LEMMA OneRowFits ==
  ASSUME NEW r \in Routes, NEW s \in Routes, NEW request,
         RouteFits(r, request), RouteFits(s, request)
  PROVE  r = s
<1>1. FitsAs(r, request) /\ FitsAs(s, request)
  BY FitsAsARow
<1> USE DEF FitsAs, Is, Row, Asks, AsksHandshake, AsksCaller, AsksPlatform, AsksTenant,
            AsksOfMembers, AsksOfOwners, AsksDeployOp, AsksDoor, AsksCpOp
<1>2. ASSUME AsksHandshake(r, request), Is(r, "open", "handshake")
      PROVE  r = s
  BY <1>1, <1>2, SMTT(40)
<1>3. ASSUME AsksCaller(r, request), Is(r, "authed", "caller")
      PROVE  r = s
  BY <1>1, <1>3, SMTT(40)
<1>4. ASSUME AsksPlatform(r, request), Is(r, "root", "platform")
      PROVE  r = s
  BY <1>1, <1>4, SMTT(40)
<1>5. ASSUME AsksTenant(r, request), Is(r, "tenant", "tenant")
      PROVE  r = s
  BY <1>1, <1>5, SMTT(40)
<1>6. ASSUME AsksOfMembers(r, request), Is(r, "accountMember", "account")
      PROVE  r = s
  BY <1>1, <1>6, SMTT(40)
<1>7. ASSUME AsksOfOwners(r, request), Is(r, "accountOwner", "ownership")
      PROVE  r = s
  BY <1>1, <1>7, SMTT(40)
<1>8. ASSUME AsksDeployOp(r, request), Is(r, "open", "deploy")
      PROVE  r = s
  BY <1>1, <1>8, SMTT(40)
<1>9. ASSUME AsksDoor(r, request), Is(r, "self", "door")
      PROVE  r = s
  BY <1>1, <1>9, SMTT(40)
<1>10. ASSUME AsksCpOp(r, request), Is(r, "self", "platform")
      PROVE  r = s
  BY <1>1, <1>10, SMTT(40)
<1> QED
  BY <1>1, <1>2, <1>3, <1>4, <1>5, <1>6, <1>7, <1>8, <1>9, <1>10 DEF FitsAs

-----------------------------------------------------------------------------
(* Whom _middlewares lets pass, and as whom.                               *)
Admitted(request) ==
    \/ PreAuth(request.path)
    \/ request.who = "root token" /\ IsM2M(request.path)
    \/ request.who \notin {"root token", "anonymous"}

AuthOf(request) ==
    IF PreAuth(request.path) THEN NoAuth
    ELSE IF request.who = "root token" THEN [sub |-> "none", is_root |-> TRUE]
    ELSE Session(request.who)

Verdict(route, name) == RouteAuthz(route, name) /\ OwnGate(route, name)

(* The paths without a session are those of the handshakes and the upload. *)
LEMMA PreAuthPaths ==
  ASSUME NEW path, PreAuth(path)
  PROVE  \/ path[2] \in {"login", "callback", "poll", "logout", "cli", "upload"}
         \/ path[2] = "billing" /\ Len(path) = 3 /\ path[3] = "webhook"
  BY DEF PreAuth

(* A path of two or three segments is their tuple.                         *)
LEMMA PathIs ==
  ASSUME NEW S, NEW path \in Seq(S)
  PROVE  /\ Len(path) = 2 => path = <<path[1], path[2]>>
         /\ Len(path) = 3 => path = <<path[1], path[2], path[3]>>
<1>1. ASSUME Len(path) = 2 PROVE path = <<path[1], path[2]>>
  <2>1. path[1] \in S /\ path[2] \in S
    BY <1>1
  <2> QED
    BY <1>1, <2>1, SeqEqual
<1>2. ASSUME Len(path) = 3 PROVE path = <<path[1], path[2], path[3]>>
  <2>1. \A i \in 1 .. Len(path) : path[i] \in S
    OBVIOUS
  <2>2. path[1] \in S /\ path[2] \in S /\ path[3] \in S
    BY <1>2, <2>1
  <2>3. /\ <<path[1], path[2], path[3]>> \in Seq(S)
        /\ Len(<<path[1], path[2], path[3]>>) = 3
    BY <2>2
  <2>4. \A i \in 1 .. 3 : path[i] = <<path[1], path[2], path[3]>>[i]
    <3>1. \A i \in 1 .. 3 : i = 1 \/ i = 2 \/ i = 3
      OBVIOUS
    <3> QED
      BY <3>1
  <2> QED
    BY <1>2, <2>3, <2>4, SeqEqual
<1> QED
  BY <1>1, <1>2

(* A handshake needs no session, but for the one that shows it.            *)
LEMMA HandshakesPass ==
  ASSUME NEW r, NEW request, NEW S, request.path \in Seq(S), Handshake(r), RouteFits(r, request)
  PROVE  PreAuth(request.path) \/ request.path = <<"v1", "session">>
<1> DEFINE path == request.path
<1>1. /\ Len(path) = 2 => path = <<path[1], path[2]>>
      /\ Len(path) = 3 => path = <<path[1], path[2], path[3]>>
  BY PathIs
<1> HIDE DEF path
<1>2. CASE Len(path) = 2
  <2>1. \/ path[1] = "v1" /\ path[2] \in {"session", "logout"}
        \/ path[1] = "_rp" /\ path[2] \in {"login", "callback", "poll", "logout"}
    BY <1>2, Fits2, Fits3 DEF Handshake, Row, Parameters, path
  <2> QED
    BY <1>1, <1>2, <2>1 DEF PreAuth, path
<1>3. CASE Len(path) = 3
  <2>1. /\ path[1] = "v1"
        /\ \/ path[2] = "cli" /\ path[3] = "exchange"
           \/ path[2] = "billing" /\ path[3] = "webhook"
    BY <1>3, Fits2, Fits3 DEF Handshake, Row, Parameters, path
  <2> QED
    BY <1>1, <1>3, <2>1 DEF PreAuth, path
<1>4. Len(path) \in {2, 3}
  BY Fits2, Fits3 DEF Handshake, Row, path
<1> QED
  BY <1>2, <1>3, <1>4

(* What the gates of a fitting route decide is what its caller may do.     *)
GateDecides(r, request, name) ==
    /\ Verdict(r, name) => Entitled(request.who, r.touches, name)
    /\ ~Verdict(r, name) => ~Entitled(request.who, r.touches, name) \/ request.who = "root token"

LEMMA GatesDecide ==
  ASSUME NEW r \in Routes, NEW request, RouteFits(r, request), request.who \in Callers,
         Admitted(request), auth = AuthOf(request), NEW name
  PROVE  GateDecides(r, request, name)
<1> DEFINE path == request.path
<1>1. FitsAs(r, request)
  BY FitsAsARow
<1>2. PreAuth(path) =>
        \/ path[2] \in {"login", "callback", "poll", "logout", "cli", "upload"}
        \/ path[2] = "billing" /\ Len(path) = 3 /\ path[3] = "webhook"
  BY PreAuthPaths
<1>3. ASSUME ~PreAuth(path)
      PROVE  /\ auth.is_root <=> request.who \in {"root token", "operator"}
             /\ auth.sub = IF request.who = "root token" THEN "none" ELSE request.who
             /\ request.who # "anonymous"
             /\ request.who = "root token" => IsM2M(path)
  BY <1>3 DEF Admitted, AuthOf, Session
<1> HIDE DEF path
<1>4. ASSUME AsksHandshake(r, request), Is(r, "open", "handshake") PROVE GateDecides(r, request, name)
  <2>1. r.cls = "open" /\ r.touches = "handshake"
    BY <1>4 DEF Is
  <2>2. r.pattern[2] # "history" /\ ~(Len(r.pattern) = 4 /\ r.pattern[4] = "release")
    BY <1>4 DEF AsksHandshake, Row
  <2> QED
    BY <2>1, <2>2 DEF GateDecides, Verdict, Entitled, RouteAuthz, OwnGate
<1>5. ASSUME AsksCaller(r, request), Is(r, "authed", "caller") PROVE GateDecides(r, request, name)
  <2>1. r.cls = "authed" /\ r.touches = "caller"
    BY <1>5 DEF Is
  <2>2. r.pattern[2] # "history" /\ ~(Len(r.pattern) = 4 /\ r.pattern[4] = "release")
    BY <1>5 DEF AsksCaller, Row
  <2>3. ~PreAuth(path)
    BY <1>2, <1>5 DEF AsksCaller, Asks, path
  <2> QED
    BY <2>1, <2>2, <2>3, <1>3 DEF GateDecides, Verdict, Entitled, RouteAuthz, OwnGate, Callers
<1>6. ASSUME AsksPlatform(r, request), Is(r, "root", "platform") PROVE GateDecides(r, request, name)
  <2>1. r.cls = "root" /\ r.touches = "platform"
    BY <1>6 DEF Is
  <2>2. r.pattern[2] # "history" /\ ~(Len(r.pattern) = 4 /\ r.pattern[4] = "release")
    BY <1>6 DEF AsksPlatform, Row
  <2>3. ~PreAuth(path)
    BY <1>2, <1>6 DEF AsksPlatform, Asks, path
  <2> QED
    BY <2>1, <2>2, <2>3, <1>3 DEF GateDecides, Verdict, Entitled, RouteAuthz, OwnGate, Callers
<1>7. ASSUME AsksTenant(r, request), Is(r, "tenant", "tenant") PROVE GateDecides(r, request, name)
  <2>1. r.cls = "tenant" /\ r.touches = "tenant"
    BY <1>7 DEF Is
  <2>3. ~PreAuth(path)
    BY <1>2, <1>7 DEF AsksTenant, Asks, path
  <2> QED
    BY <2>1, <2>3, <1>3 DEF GateDecides, Verdict, Entitled, RouteAuthz, OwnGate, Callers, HasAccess, Admits, RoleIn
<1>8. ASSUME AsksOfMembers(r, request), Is(r, "accountMember", "account") PROVE GateDecides(r, request, name)
  <2>1. r.cls = "accountMember" /\ r.touches = "account"
    BY <1>8 DEF Is
  <2>2. r.pattern[2] # "history" /\ ~(Len(r.pattern) = 4 /\ r.pattern[4] = "release")
    BY <1>8 DEF AsksOfMembers, Row
  <2>3. ~PreAuth(path)
    BY <1>2, <1>8 DEF AsksOfMembers, Asks, path
  <2>4. ~IsM2M(path)
    BY <1>8 DEF AsksOfMembers, Asks, IsM2M, path
  <2> QED
    BY <2>1, <2>2, <2>3, <1>3, <2>4 DEF GateDecides, Verdict, Entitled, RouteAuthz, OwnGate, Callers, Admits, RoleIn
<1>9. ASSUME AsksOfOwners(r, request), Is(r, "accountOwner", "ownership") PROVE GateDecides(r, request, name)
  <2>1. r.cls = "accountOwner" /\ r.touches = "ownership"
    BY <1>9 DEF Is
  <2>2. r.pattern[2] # "history" /\ ~(Len(r.pattern) = 4 /\ r.pattern[4] = "release")
    BY <1>9 DEF AsksOfOwners, Row
  <2>3. ~PreAuth(path)
    BY <1>2, <1>9 DEF AsksOfOwners, Asks, path
  <2>4. ~IsM2M(path)
    BY <1>9 DEF AsksOfOwners, Asks, IsM2M, path
  <2> QED
    BY <2>1, <2>2, <2>3, <1>3, <2>4 DEF GateDecides, Verdict, Entitled, RouteAuthz, OwnGate, Callers, IsOwner, RoleIn
<1>10. ASSUME AsksDeployOp(r, request), Is(r, "open", "deploy") PROVE GateDecides(r, request, name)
  <2>1. r.cls = "open" /\ r.touches = "deploy"
    BY <1>10 DEF Is
  <2>2. r.pattern[2] # "history" /\ ~(Len(r.pattern) = 4 /\ r.pattern[4] = "release")
    BY <1>10 DEF AsksDeployOp, Row
  <2>3. ~PreAuth(path)
    BY <1>2, <1>10 DEF AsksDeployOp, Asks, path
  <2> QED
    BY <2>1, <2>2, <2>3, <1>3 DEF GateDecides, Verdict, Entitled, RouteAuthz, OwnGate, Callers, HasAccess, Admits, RoleIn
<1>11. ASSUME AsksDoor(r, request), Is(r, "self", "door") PROVE GateDecides(r, request, name)
  <2>1. r.cls = "self" /\ r.touches = "door"
    BY <1>11 DEF Is
  <2>3. ~PreAuth(path)
    BY <1>2, <1>11 DEF AsksDoor, Asks, path
  <2> QED
    BY <2>1, <2>3, <1>3 DEF GateDecides, Verdict, Entitled, RouteAuthz, OwnGate, Callers, HasAccess, Admits, RoleIn
<1>12. ASSUME AsksCpOp(r, request), Is(r, "self", "platform") PROVE GateDecides(r, request, name)
  <2>1. r.cls = "self" /\ r.touches = "platform"
    BY <1>12 DEF Is
  <2>2. r.pattern[2] # "history" /\ ~(Len(r.pattern) = 4 /\ r.pattern[4] = "release")
    BY <1>12 DEF AsksCpOp, Row
  <2>3. ~PreAuth(path)
    BY <1>2, <1>12 DEF AsksCpOp, Asks, path
  <2> QED
    BY <2>1, <2>2, <2>3, <1>3 DEF GateDecides, Verdict, Entitled, RouteAuthz, OwnGate, Callers
<1> QED
  BY <1>1, <1>4, <1>5, <1>6, <1>7, <1>8, <1>9, <1>10, <1>11, <1>12, Zenon DEF FitsAs

(* Who is not admitted asked for something that needs a session, or holds  *)
(* the root token where it has no business.                                *)
LEMMA TurnedAway ==
  ASSUME NEW r \in Routes, NEW request, RouteFits(r, request), NEW S, request.path \in Seq(S),
         request.who \in Callers, ~Admitted(request), NEW name
  PROVE  \/ ~Entitled(request.who, r.touches, name) \/ request.who = "root token"
         \/ request.path = <<"v1", "session">>
<1>1. request.who \in {"anonymous", "root token"} /\ ~PreAuth(request.path)
  BY DEF Admitted, Callers
<1>2. CASE Handshake(r)
  BY <1>1, <1>2, HandshakesPass
<1>3. CASE ~Handshake(r)
  <2>1. r.touches \in {"caller", "platform", "tenant", "account", "ownership", "deploy", "door"}
    BY <1>3, Table DEF Is
  <2> QED
    BY <1>1, <2>1 DEF Entitled
<1> QED
  BY <1>2, <1>3

(* A request on its way through the gates.                                 *)
RouterInv ==
    /\ asked \in Requests
    /\ outcome = "401" => ~Admitted(asked)
    /\ outcome \notin {"", "401"} => Admitted(asked) /\ auth = AuthOf(asked)
    /\ outcome = "404" => MatchRoute(asked) = {}
    /\ outcome \in {"handled", "refused"} =>
         \/ asked.path = <<"v1", "upload">>
         \/ \E r \in MatchRoute(asked) : outcome = "handled" <=> Verdict(r, Named(r, asked))
    /\ outcome \in {"", "401", "passed", "404", "handled", "refused"}

(* A request has a caller and a path.                                      *)
LEMMA RequestsAre ==
  ASSUME NEW request \in Requests
  PROVE  request.who \in Callers /\ \E S : request.path \in Seq(S)
<1>1. request.who \in Callers
  BY DEF Requests
<1>2. \/ request.path = <<"v1", "upload">>
      \/ \E s \in Routes : request.path \in Filled(s.pattern)
  BY DEF Requests
<1>3. <<"v1", "upload">> \in Seq({"v1", "upload"})
  OBVIOUS
<1>4. ASSUME NEW s \in Routes, request.path \in Filled(s.pattern)
      PROVE  \E S : request.path \in Seq(S)
  <2> DEFINE S == Fillers \cup {s.pattern[i] : i \in 1 .. Len(s.pattern)}
             n == Len(s.pattern)
  <2>1. request.path \in [1 .. n -> S]
    BY <1>4 DEF Filled
  <2>2. n \in Nat
    BY Table DEF Row, Handshake, Caller, Platform, Tenant, OfMembers, OfOwners, DeployOp, Door, CpOp
  <2> HIDE DEF S, n
  <2>3. request.path \in Seq(S)
    BY <2>1, <2>2
  <2> QED
    BY <2>3
<1> QED
  BY <1>1, <1>2, <1>3, <1>4

(* Each step through the gates keeps what they decided.                    *)
LEMMA RouterKeeps == RouterInv /\ [RouterNext]_routerVars => RouterInv'
<1> SUFFICES ASSUME RouterInv, [RouterNext]_routerVars PROVE RouterInv'
  OBVIOUS
<1>1. CASE Before
  <2>1. UNCHANGED asked /\ outcome = ""
    BY <1>1 DEF Before
  <2>2. asked.who \in Callers
    BY RequestsAre DEF RouterInv
  <2>3. \/ outcome' = "passed" /\ Admitted(asked) /\ auth' = AuthOf(asked)
        \/ outcome' = "401" /\ ~Admitted(asked)
    BY <1>1, <2>2 DEF Before, Admitted, AuthOf, Callers
  <2> QED
    BY <2>1, <2>3 DEF RouterInv, Admitted, AuthOf
<1>2. CASE Dispatched
  <2>1. UNCHANGED <<asked, auth>> /\ outcome = "passed"
    BY <1>2 DEF Dispatched
  <2>2. \/ outcome' = "404" /\ MatchRoute(asked) = {}
        \/ /\ outcome' \in {"handled", "refused"}
           /\ \E r \in MatchRoute(asked) : outcome' = "handled" <=> Verdict(r, Named(r, asked))
    BY <1>2 DEF Dispatched, Verdict
  <2>3. \A r, name : Verdict(r, name)' <=> Verdict(r, name)
    BY <2>1 DEF Verdict, RouteAuthz, OwnGate
  <2>4. MatchRoute(asked)' = MatchRoute(asked) /\ \A r : Named(r, asked)' = Named(r, asked)
    BY <2>1
  <2>5. Admitted(asked)' <=> Admitted(asked)
    BY <2>1
  <2>6. AuthOf(asked)' = AuthOf(asked)
    BY <2>1
  <2> QED
    BY <2>1, <2>2, <2>3, <2>4, <2>5, <2>6 DEF RouterInv
<1>3. CASE StreamedUpload
  <2>1. /\ UNCHANGED <<asked, auth>> /\ outcome = "passed" /\ asked.path = <<"v1", "upload">>
        /\ outcome' \in {"handled", "refused"}
    BY <1>3 DEF StreamedUpload
  <2> QED
    BY <2>1 DEF RouterInv
<1>4. CASE UNCHANGED routerVars
  BY <1>4 DEF RouterInv, routerVars, Verdict, RouteAuthz, OwnGate
<1> QED
  BY <1>1, <1>2, <1>3, <1>4 DEF RouterNext

(* A request is handled if and only if it fits one route and its caller    *)
(* may do what the handler touches, whatever it carries for a parameter.   *)
THEOREM EveryRouteIsAlwaysGated == RouterSpec => []EveryRouteIsGated
<1>1. RouterInit => RouterInv
  BY DEF RouterInit, RouterInv
<1>2. RouterInv => EveryRouteIsGated
  <2> SUFFICES ASSUME RouterInv PROVE EveryRouteIsGated
    OBVIOUS
  <2>1. \A r, s \in MatchRoute(asked) : r = s
    BY OneRowFits DEF MatchRoute
  <2>2. Cardinality(MatchRoute(asked)) <= 1
    <3>1. CASE MatchRoute(asked) = {}
      BY <3>1, FS_EmptySet
    <3>2. CASE MatchRoute(asked) # {}
      <4>1. PICK r \in MatchRoute(asked) : TRUE
        BY <3>2
      <4>2. MatchRoute(asked) = {r}
        BY <2>1, <4>1
      <4> QED
        BY <4>2, FS_Singleton
    <3> QED
      BY <3>1, <3>2
  <2>3. ASSUME NEW r \in MatchRoute(asked)
        PROVE  /\ outcome = "handled" => Entitled(asked.who, r.touches, Named(r, asked))
               /\ outcome \in {"401", "refused", "404"} =>
                    \/ ~Entitled(asked.who, r.touches, Named(r, asked))
                    \/ asked.who = "root token" \/ asked.path = <<"v1", "session">>
    <3>1. r \in Routes /\ RouteFits(r, asked)
      BY DEF MatchRoute
    <3>2. asked.who \in Callers /\ \E S : asked.path \in Seq(S)
      BY RequestsAre DEF RouterInv
    <3>3. asked.path # <<"v1", "upload">>
      <4>1. FitsAs(r, asked)
        BY <3>1, FitsAsARow
      <4>2. asked.path[2] # "upload"
        BY <4>1 DEF FitsAs, Asks, AsksHandshake, AsksCaller, AsksPlatform, AsksTenant,
                    AsksOfMembers, AsksOfOwners, AsksDeployOp, AsksDoor, AsksCpOp
      <4> QED
        BY <4>2
    <3>4. CASE outcome \in {"handled", "refused"}
      <4>1. /\ Admitted(asked) /\ auth = AuthOf(asked)
            /\ outcome = "handled" <=> Verdict(r, Named(r, asked))
        BY <2>1, <3>3, <3>4 DEF RouterInv
      <4>2. GateDecides(r, asked, Named(r, asked))
        BY <3>1, <3>2, <4>1, GatesDecide
      <4> QED
        BY <3>4, <4>1, <4>2 DEF GateDecides
    <3>5. CASE outcome = "401"
      <4>1. ~Admitted(asked)
        BY <3>5 DEF RouterInv
      <4>2. \/ ~Entitled(asked.who, r.touches, Named(r, asked)) \/ asked.who = "root token"
            \/ asked.path = <<"v1", "session">>
        BY <3>1, <3>2, <4>1, TurnedAway
      <4> QED
        BY <3>5, <4>2
    <3>6. outcome # "404"
      BY DEF RouterInv
    <3> QED
      BY <3>4, <3>5, <3>6
  <2> QED
    BY <2>2, <2>3 DEF EveryRouteIsGated
<1> QED
  BY <1>1, <1>2, RouterKeeps, PTL DEF RouterSpec

=============================================================================
