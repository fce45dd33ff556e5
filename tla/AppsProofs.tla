----------------------------- MODULE AppsProofs -----------------------------
(***************************************************************************)
(* What four of the applications promise for every value of the            *)
(* constants: a login link signs in its own address, once and in time      *)
(* (Login), what the package registry has published never changes          *)
(* (Registry), a channel listens for what it has handlers for (Channel),   *)
(* and a page clicks nothing destructive without the user (Agent).         *)
(***************************************************************************)
EXTENDS Login, Registry, Channel, Agent, FiniteSetTheorems, SequenceTheorems,
    WellFoundedInduction, NaturalsInduction, TLAPS

USE LoginAssumption

-----------------------------------------------------------------------------
(* Login.  Links are numbered as they are handed out; one that can still   *)
(* be followed was never followed, and expires Ttl after it was minted.    *)
(* The cooldown of an address is the time of its last mail.                *)

LoginTyped ==
    /\ clock \in Nat /\ IsFiniteSet(handedOut)
    /\ cooldown = [a \in Addresses |-> cooldown[a]]
    /\ session = [d \in Devices |-> session[d]]

LinksKnown ==
    /\ \A h \in handedOut : h.link \in 1 .. Minted /\ h.at \in Nat
    /\ \A l \in DOMAIN links : \E h \in handedOut :
         h.link = l /\ h.addr = links[l].addr /\ links[l].exp = h.at + Ttl
    /\ \A x \in logins : x.link \in 1 .. Minted /\ x.link \notin DOMAIN links

MailsKnown ==
    /\ \A m \in mails : m[1] \in Addresses /\ m[2] \in Nat /\ m[2] <= cooldown[m[1]]
    /\ \A a \in Addresses : cooldown[a] \in Nat \cup {-1} /\ cooldown[a] <= clock

LoginInv == LoginTyped /\ LinksKnown /\ MailsKnown /\ LoginIsSound

LEMMA LoginStart == LoginInit => LoginInv
  BY FS_EmptySet DEF LoginInit, LoginInv, LoginTyped, LinksKnown, MailsKnown, LoginIsSound,
                     OncePerLink, OwnAndFresh, MailSpaced

(* A new link has the next number, so no link and no login has it yet.     *)
LEMMA MintStep ==
  ASSUME LoginInv, NEW addr \in Addresses, NEW back \in Places, StartLogin(addr, back)
  PROVE  LoginInv'
<1> DEFINE mail == Minted + 1
           row == [addr |-> addr, back |-> SafeReturnTo(back), exp |-> clock + Ttl]
           h == [link |-> mail, addr |-> addr, at |-> clock]
<1>1. /\ ~Cooling(addr)
      /\ links' = [l \in DOMAIN links \cup {mail} |-> IF l = mail THEN row ELSE links[l]]
      /\ handedOut' = handedOut \cup {h}
      /\ UNCHANGED <<clock, registry, mailing, session, logins>>
      /\ IF mailing THEN /\ cooldown' = [cooldown EXCEPT ![addr] = clock]
                         /\ mails' = mails \cup {<<addr, clock>>}
                    ELSE UNCHANGED <<cooldown, mails>>
  BY DEF StartLogin
<1>2. Minted \in Nat
  BY FS_CardinalityType DEF LoginInv, LoginTyped, Minted
<1>3. h \notin handedOut
  BY <1>2 DEF LoginInv, LinksKnown
<1>4. IsFiniteSet(handedOut') /\ Minted' = Minted + 1
  BY <1>1, <1>3, FS_AddElement DEF LoginInv, LoginTyped, Minted
<1>5. LoginTyped'
  BY <1>1, <1>4 DEF LoginInv, LoginTyped
<1>6. LinksKnown'
  <2>1. \A x \in handedOut' : x.link \in 1 .. Minted' /\ x.at \in Nat
    BY <1>1, <1>2, <1>4 DEF LoginInv, LinksKnown, LoginTyped
  <2>2. \A x \in logins' : x.link \in 1 .. Minted' /\ x.link \notin DOMAIN links'
    BY <1>1, <1>2, <1>4 DEF LoginInv, LinksKnown
  <2>3. ASSUME NEW l \in DOMAIN links'
        PROVE  \E x \in handedOut' :
                 x.link = l /\ x.addr = links'[l].addr /\ links'[l].exp = x.at + Ttl
    <3>1. CASE l = mail
      <4>1. links'[l] = row /\ h \in handedOut'
        BY <1>1, <3>1
      <4> QED
        BY <3>1, <4>1
    <3>2. CASE l # mail
      <4>1. l \in DOMAIN links /\ links'[l] = links[l]
        BY <1>1, <3>2
      <4> QED
        BY <1>1, <4>1 DEF LoginInv, LinksKnown
    <3> QED
      BY <3>1, <3>2
  <2> QED
    BY <2>1, <2>2, <2>3 DEF LinksKnown
<1>7. MailsKnown'
  BY <1>1 DEF LoginInv, MailsKnown, LoginTyped
<1>8. MailSpaced'
  <2> SUFFICES ASSUME NEW x \in mails', NEW y \in mails', x[1] = y[1], x[2] < y[2]
               PROVE  y[2] - x[2] >= Cooldown
    BY DEF MailSpaced
  <2>1. CASE mails' = mails
    BY <2>1 DEF LoginInv, LoginIsSound, MailSpaced
  <2>2. CASE mailing
    <3>1. mails' = mails \cup {<<addr, clock>>} /\ cooldown[addr] \in Nat \cup {-1}
          /\ cooldown[addr] <= clock /\ clock \in Nat
      BY <1>1, <2>2 DEF LoginInv, MailsKnown, LoginTyped
    <3>2. cooldown[addr] >= 0 => clock - cooldown[addr] >= Cooldown
      BY <1>1, <2>2, <3>1 DEF Cooling
    <3>3. \A m \in mails : m[1] = addr => m[2] \in Nat /\ m[2] <= cooldown[addr]
      BY DEF LoginInv, MailsKnown
    <3>4. CASE x \in mails /\ y \in mails
      BY <3>4 DEF LoginInv, LoginIsSound, MailSpaced
    <3>5. CASE x \in mails /\ y = <<addr, clock>>
      BY <3>1, <3>2, <3>3, <3>5
    <3>6. CASE x = <<addr, clock>>
      BY <3>1, <3>3, <3>6
    <3> QED
      BY <3>1, <3>4, <3>5, <3>6
  <2> QED
    BY <1>1, <2>1, <2>2
<1>9. OncePerLink' /\ OwnAndFresh'
  BY <1>1 DEF LoginInv, LoginIsSound, OncePerLink, OwnAndFresh
<1> QED
  BY <1>5, <1>6, <1>7, <1>8, <1>9 DEF LoginInv, LoginIsSound

(* A link that is followed, in time or not, is gone.                       *)
LEMMA ConsumeKeeps ==
  ASSUME LoginInv, NEW mail, Consume(mail)
  PROVE  /\ LoginTyped /\ IsFiniteSet(handedOut')
         /\ MailsKnown' /\ MailSpaced'
         /\ Minted' = Minted
         /\ \A h \in handedOut' : h.link \in 1 .. Minted' /\ h.at \in Nat
         /\ mail \notin DOMAIN links'
         /\ \A l \in DOMAIN links' : /\ l \in DOMAIN links
                                     /\ \E h \in handedOut' :
                                          /\ h.link = l /\ h.addr = links'[l].addr
                                          /\ links'[l].exp = h.at + Ttl
<1>1. /\ links' = [l \in DOMAIN links \ {mail} |-> links[l]]
      /\ UNCHANGED <<clock, cooldown, handedOut, mails>>
  BY DEF Consume, Consumed
<1>2. \A l \in DOMAIN links' : l \in DOMAIN links /\ links'[l] = links[l]
  BY <1>1
<1> QED
  BY <1>1, <1>2 DEF LoginInv, LoginTyped, LinksKnown, MailsKnown, LoginIsSound, MailSpaced, Minted

LEMMA VerifyStep ==
  ASSUME LoginInv, NEW d \in Devices, NEW mail \in DOMAIN links, VerifyLogin(d, mail)
  PROVE  LoginInv'
<1> DEFINE x == [link |-> mail, device |-> d, sub |-> links[mail].addr, at |-> clock,
                 landed |-> SafeReturnTo(links[mail].back), clients |-> registry]
<1>1. /\ Consume(mail) /\ ~Expired(links[mail])
      /\ session' = [session EXCEPT ![d] = links[mail].addr]
      /\ logins' = logins \cup {x}
      /\ UNCHANGED <<clock, cooldown, handedOut>>
  BY DEF VerifyLogin, Consume
<1>2. PICK h \in handedOut : h.link = mail /\ h.addr = links[mail].addr
                            /\ links[mail].exp = h.at + Ttl
  BY DEF LoginInv, LinksKnown
<1>3. h.at \in Nat /\ mail \in 1 .. Minted /\ clock \in Nat
  BY <1>2 DEF LoginInv, LinksKnown, LoginTyped
<1>4. clock - h.at <= Ttl
  BY <1>1, <1>2, <1>3 DEF Expired
<1>5. LoginTyped'
  BY <1>1 DEF LoginInv, LoginTyped
<1>6. LinksKnown'
  <2>1. \A y \in logins' : y.link \in 1 .. Minted /\ y.link \notin DOMAIN links'
    BY <1>1, <1>3, ConsumeKeeps DEF LoginInv, LinksKnown
  <2> QED
    BY <1>1, <2>1, ConsumeKeeps DEF LinksKnown
<1>7. OncePerLink'
  <2>1. \A y \in logins : y.link # mail
    BY DEF LoginInv, LinksKnown
  <2> QED
    BY <1>1, <2>1 DEF LoginInv, LoginIsSound, OncePerLink
<1>8. OwnAndFresh'
  <2>1. ASSUME NEW y \in logins'
        PROVE  /\ \E k \in handedOut' : k.link = y.link /\ k.addr = y.sub /\ y.at - k.at <= Ttl
               /\ y.landed \in y.clients \cup {Issuer, Root}
    <3>1. CASE y = x
      <4>1. /\ y.link = mail /\ y.sub = links[mail].addr /\ y.at = clock
            /\ y.landed = SafeReturnTo(links[mail].back) /\ y.clients = registry
        BY <3>1
      <4>2. y.landed \in y.clients \cup {Issuer, Root}
        BY <4>1 DEF SafeReturnTo
      <4> QED
        BY <1>1, <1>2, <1>4, <4>1, <4>2
    <3>2. CASE y \in logins
      BY <1>1, <3>2 DEF LoginInv, LoginIsSound, OwnAndFresh
    <3> QED
      BY <1>1, <3>1, <3>2
  <2>2. ASSUME NEW e \in Devices, session'[e] # NoOne
        PROVE  \E y \in logins' : y.device = e /\ y.sub = session'[e]
    <3>1. CASE e = d
      <4>1. session'[e] = links[mail].addr /\ x.device = e /\ x.sub = links[mail].addr
        BY <1>1, <3>1 DEF LoginInv, LoginTyped
      <4> HIDE DEF x
      <4> QED
        BY <1>1, <4>1
    <3>2. CASE e # d
      <4>1. session'[e] = session[e]
        BY <1>1, <3>2 DEF LoginInv, LoginTyped
      <4> QED
        BY <1>1, <2>2, <4>1 DEF LoginInv, LoginIsSound, OwnAndFresh
    <3> QED
      BY <3>1, <3>2
  <2> QED
    BY <2>1, <2>2 DEF OwnAndFresh
<1> QED
  BY <1>1, <1>5, <1>6, <1>7, <1>8, ConsumeKeeps DEF LoginInv, LoginIsSound

LEMMA ExpiredStep ==
  ASSUME LoginInv, NEW mail \in DOMAIN links, VerifyRefused(mail)
  PROVE  LoginInv'
<1>1. Consume(mail) /\ UNCHANGED <<session, logins, clock, cooldown, handedOut>>
  BY DEF VerifyRefused, Consume
<1>2. LinksKnown'
  BY <1>1, ConsumeKeeps DEF LoginInv, LinksKnown
<1> QED
  BY <1>1, <1>2, ConsumeKeeps DEF LoginInv, LoginTyped, LoginIsSound, OncePerLink, OwnAndFresh

LEMMA LoginKeeps == LoginInv /\ [LoginNext]_loginVars => LoginInv'
<1> SUFFICES ASSUME LoginInv, [LoginNext]_loginVars PROVE LoginInv'
  OBVIOUS
<1>1. CASE \E a \in Addresses, back \in Places : StartLogin(a, back)
  BY <1>1, MintStep
<1>2. CASE \E d \in Devices, l \in DOMAIN links : VerifyLogin(d, l)
  BY <1>2, VerifyStep
<1>3. CASE \E l \in DOMAIN links : VerifyRefused(l)
  BY <1>3, ExpiredStep
<1>4. CASE (\E o \in Origins : Register(o)) \/ SetKey \/ ClockTick
  <2>1. /\ UNCHANGED <<links, cooldown, session, handedOut, logins, mails>>
        /\ clock' \in {clock, clock + 1}
    BY <1>4 DEF Register, SetKey, ClockTick
  <2> QED
    BY <2>1 DEF LoginInv, LoginTyped, LinksKnown, MailsKnown, LoginIsSound, OncePerLink,
                OwnAndFresh, MailSpaced, Minted
<1>5. CASE (\E a \in Addresses : Suppressed(a)) \/ UNCHANGED loginVars
  <2>1. UNCHANGED loginVars
    BY <1>5 DEF Suppressed
  <2> QED
    BY <2>1 DEF loginVars, LoginInv, LoginTyped, LinksKnown, MailsKnown, LoginIsSound,
                OncePerLink, OwnAndFresh, MailSpaced, Minted
<1> QED
  BY <1>1, <1>2, <1>3, <1>4, <1>5 DEF LoginNext

(* A device is signed in only by a link of that address, in time and never *)
(* followed before; it lands only where a client was registered; and no    *)
(* address is mailed twice in the cooldown.                                *)
THEOREM LoginIsAlwaysSound == LoginSpec => []LoginIsSound
<1>1. LoginInv => LoginIsSound
  BY DEF LoginInv
<1> QED
  BY <1>1, LoginStart, LoginKeeps, PTL DEF LoginSpec

HIDE LoginAssumption

-----------------------------------------------------------------------------
(* Registry.  A content that is stored has a canonical label.              *)

IsSequence(x) == \E S : x \in Seq(S)

Labelled ==
    /\ DOMAIN content \subseteq DOMAIN lbl
    /\ \A h \in DOMAIN lbl : IsSequence(lbl[h]) /\ lbl[h] # <<>>
    /\ idx = [s \in Specs |-> idx[s]]
    /\ \A s \in Specs : IsSequence(idx[s])

LEMMA Grown ==
  ASSUME NEW s, IsSequence(s), NEW e
  PROVE  /\ IsSequence(Append(s, e)) /\ Append(s, e) # <<>>
         /\ s # <<>> => Append(s, e)[1] = s[1]
         /\ IsPrefix(s, Append(s, e)) /\ IsPrefix(s, s)
<1>1. PICK S : s \in Seq(S)
  BY DEF IsSequence
<1>2. s \in Seq(S \cup {e}) /\ e \in S \cup {e}
  BY <1>1
<1>3. Append(s, e) \in Seq(S \cup {e}) /\ Append(s, e) # <<>>
  BY <1>2, AppendProperties
<1>4. s # <<>> => Append(s, e)[1] = s[1]
  BY <1>2
<1>5. IsPrefix(s, Append(s, e)) /\ IsPrefix(s, s)
  BY <1>2 DEF IsPrefix
<1> QED
  BY <1>3, <1>4, <1>5 DEF IsSequence

LEMMA PutKeeps ==
  ASSUME NEW f, NEW k, NEW x
  PROVE  /\ DOMAIN Put(f, k, x) = DOMAIN f \cup {k} /\ Put(f, k, x)[k] = x
         /\ \A y \in DOMAIN f : y # k => Put(f, k, x)[y] = f[y]
         /\ k \notin DOMAIN f => Frozen(f, Put(f, k, x))
<1>1. DOMAIN Put(f, k, x) = DOMAIN f \cup {k} /\ Put(f, k, x)[k] = x
  BY DEF Put
<1>2. \A y \in DOMAIN f : y # k => Put(f, k, x)[y] = f[y]
  BY DEF Put
<1> QED
  BY <1>1, <1>2 DEF Frozen

LEMMA LabelledStart == RegistryInit => Labelled
<1>1. <<>> \in Seq({}) /\ DOMAIN <<>> = {}
  OBVIOUS
<1>2. IsSequence(<<>>)
  BY <1>1 DEF IsSequence
<1> QED
  BY <1>1, <1>2 DEF RegistryInit, Labelled

LEMMA PublishStep ==
  ASSUME Labelled, NEW who, NEW spec \in Specs, NEW v, NEW files, NEW deps,
         Publish(who, spec, v, files, deps)
  PROVE  Labelled' /\ FrozenStep
<1> DEFINE hash == [files |-> files, imports |-> Pins(deps)]
           labels == IF hash \in DOMAIN lbl THEN lbl[hash] ELSE <<>>
           caps == Capabilities(files, Pins(deps))
           new == <<spec, v>>
           row == IF \E i \in DOMAIN idx[spec] : idx[spec][i][1] = v THEN idx[spec]
                  ELSE Append(idx[spec], <<v, hash>>)
<1>1. /\ ~Taken(spec, v)
      /\ ver' = Put(ver, new, hash)
      /\ content' = IF labels = <<>> THEN Put(content, hash, caps) ELSE content
      /\ lbl' = IF new \in Range(labels) THEN lbl ELSE Put(lbl, hash, Append(labels, new))
      /\ idx' = [idx EXCEPT ![spec] = row]
  BY DEF Publish
<1>2. IsSequence(labels) /\ (labels = <<>> <=> hash \notin DOMAIN lbl)
  <2>1. <<>> \in Seq({})
    OBVIOUS
  <2> QED
    BY <2>1 DEF Labelled, IsSequence
<1>3. labels = <<>> => new \notin Range(labels)
  BY DEF Range
<1> HIDE DEF hash, labels, caps, new
<1>4. Frozen(ver, ver')
  BY <1>1, PutKeeps DEF Taken, new
<1>5. Frozen(content, content') /\ DOMAIN content' \subseteq DOMAIN lbl'
  <2>1. DOMAIN lbl \subseteq DOMAIN lbl' /\ (labels = <<>> => hash \in DOMAIN lbl')
    <3>1. lbl' = lbl \/ lbl' = Put(lbl, hash, Append(labels, new))
      BY <1>1
    <3>2. DOMAIN Put(lbl, hash, Append(labels, new)) = DOMAIN lbl \cup {hash}
      BY PutKeeps
    <3>3. labels = <<>> => lbl' = Put(lbl, hash, Append(labels, new))
      BY <1>1, <1>3
    <3> QED
      BY <3>1, <3>2, <3>3
  <2>2. CASE labels = <<>>
    <3>1. content' = Put(content, hash, caps) /\ hash \notin DOMAIN content
      BY <1>1, <1>2, <2>2 DEF Labelled
    <3>2. /\ DOMAIN Put(content, hash, caps) = DOMAIN content \cup {hash}
          /\ hash \notin DOMAIN content => Frozen(content, Put(content, hash, caps))
      BY PutKeeps
    <3> QED
      BY <2>1, <2>2, <3>1, <3>2 DEF Labelled
  <2>3. CASE labels # <<>>
    <3>1. content' = content
      BY <1>1, <2>3
    <3> QED
      BY <2>1, <3>1 DEF Labelled, Frozen
  <2> QED
    BY <2>2, <2>3
<1>6. \A h \in DOMAIN lbl : h \in DOMAIN lbl' /\ lbl'[h][1] = lbl[h][1]
  <2>1. CASE new \in Range(labels)
    BY <1>1, <2>1
  <2>2. CASE new \notin Range(labels)
    <3>1. lbl' = Put(lbl, hash, Append(labels, new))
      BY <1>1, <2>2
    <3>2. hash \in DOMAIN lbl => Append(labels, new)[1] = lbl[hash][1]
      BY <1>2, Grown DEF labels
    <3>3. ASSUME NEW h \in DOMAIN lbl
          PROVE  h \in DOMAIN lbl' /\ lbl'[h][1] = lbl[h][1]
      <4> DEFINE put == Put(lbl, hash, Append(labels, new))
      <4>0. /\ DOMAIN put = DOMAIN lbl \cup {hash} /\ put[hash] = Append(labels, new)
            /\ \A y \in DOMAIN lbl : y # hash => put[y] = lbl[y]
        BY DEF Put
      <4>1. h \in DOMAIN lbl' /\ (h # hash => lbl'[h] = lbl[h])
        BY <3>1, <3>3, <4>0
      <4>2. lbl'[hash] = Append(labels, new)
        BY <3>1, <4>0
      <4> QED
        BY <3>2, <3>3, <4>1, <4>2
    <3> QED
      BY <3>3
  <2> QED
    BY <2>1, <2>2
<1>7. \A h \in DOMAIN lbl' : IsSequence(lbl'[h]) /\ lbl'[h] # <<>>
  <2>1. IsSequence(Append(labels, new)) /\ Append(labels, new) # <<>>
    BY <1>2, Grown
  <2>2. CASE lbl' = lbl
    BY <2>2 DEF Labelled
  <2>3. CASE lbl' = Put(lbl, hash, Append(labels, new))
    <3> SUFFICES ASSUME NEW h \in DOMAIN lbl'
                 PROVE  IsSequence(lbl'[h]) /\ lbl'[h] # <<>>
      OBVIOUS
    <3> DEFINE put == Put(lbl, hash, Append(labels, new))
    <3>0. /\ DOMAIN put = DOMAIN lbl \cup {hash} /\ put[hash] = Append(labels, new)
          /\ \A y \in DOMAIN lbl : y # hash => put[y] = lbl[y]
      BY DEF Put
    <3>1. h \in DOMAIN lbl \cup {hash} /\ (h # hash => lbl'[h] = lbl[h])
      BY <2>3, <3>0
    <3>2. lbl'[hash] = Append(labels, new)
      BY <2>3, <3>0
    <3> QED
      BY <2>1, <3>1, <3>2 DEF Labelled
  <2> QED
    BY <1>1, <2>2, <2>3
<1>8. IsSequence(row) /\ IsPrefix(idx[spec], row)
  BY Grown DEF Labelled
<1> HIDE DEF row
<1>9. /\ idx' = [s \in Specs |-> idx'[s]]
      /\ \A s \in Specs : IsSequence(idx'[s]) /\ IsPrefix(idx[s], idx'[s])
  <2>1. \A s \in Specs : IsPrefix(idx[s], idx[s])
    BY Grown DEF Labelled
  <2> QED
    BY <1>1, <1>8, <2>1 DEF Labelled
<1> QED
  BY <1>4, <1>5, <1>6, <1>7, <1>9 DEF Labelled, FrozenStep, IsSequence

LEMMA RegistryKeeps == Labelled /\ [RegistryNext]_registryVars => Labelled' /\ [FrozenStep]_registryVars
<1> SUFFICES ASSUME Labelled, [RegistryNext]_registryVars
             PROVE  Labelled' /\ [FrozenStep]_registryVars
  OBVIOUS
<1>1. CASE \E who \in Publishers, s \in Specs, v \in Versions, fs \in SUBSET Files, d \in Deps :
             Publish(who, s, v, fs, d)
  BY <1>1, PublishStep
<1>2. CASE SeedToken
  <2>1. \A s \in Specs : IsPrefix(idx[s], idx[s])
    BY Grown DEF Labelled
  <2> QED
    BY <1>2, <2>1 DEF SeedToken, Labelled, FrozenStep, Frozen, IsSequence
<1>3. CASE UNCHANGED registryVars
  BY <1>3 DEF registryVars, Labelled, IsSequence
<1> QED
  BY <1>1, <1>2, <1>3 DEF RegistryNext

(* No publish changes what is published: neither what a label names, nor   *)
(* what a content may do, nor its canonical label, nor an index row.       *)
THEOREM PublishedIsAlwaysFrozen == RegistrySpec => PublishedIsFrozen
  BY LabelledStart, RegistryKeeps, PTL DEF RegistrySpec, PublishedIsFrozen
-----------------------------------------------------------------------------
(* Locks.  The window of a range is what the range means, the version      *)
(* picked is the highest in it, and the closure is closed because imports  *)
(* lead to contents of earlier labels.                                     *)

(* A caret range names a part above zero or all three parts.               *)
CaretsAreNamed ==
    \A r \in Ranges : r.op = "^" =>
        Len(r.parts) = 3 \/ \E i \in DOMAIN r.parts : r.parts[i] > 0

Triples == [1 .. 3 -> Nat]

LEMMA BeforeIs ==
  ASSUME NEW a, NEW b
  PROVE  Before3(a, b) <=> \/ a[1] < b[1]
                           \/ a[1] = b[1] /\ a[2] < b[2]
                           \/ a[1] = b[1] /\ a[2] = b[2] /\ a[3] < b[3]
<1>1. \A i \in 1 .. 3 : i = 1 \/ i = 2 \/ i = 3
  OBVIOUS
<1>2. 1 .. (1 - 1) = {} /\ 1 .. (2 - 1) = {1} /\ 1 .. (3 - 1) = {1, 2}
  OBVIOUS
<1>3. 1 \in 1 .. 3 /\ 2 \in 1 .. 3 /\ 3 \in 1 .. 3
  OBVIOUS
<1> QED
  BY <1>1, <1>2, <1>3 DEF Before3

LEMMA BeforeIsTotal ==
  ASSUME NEW a \in Triples, NEW b \in Triples, NEW c \in Triples
  PROVE  /\ ~Before3(a, a)
         /\ Before3(a, b) => ~Before3(b, a)
         /\ ~Before3(b, a) /\ ~Before3(c, b) => ~Before3(c, a)
<1>1. /\ a[1] \in Nat /\ a[2] \in Nat /\ a[3] \in Nat
      /\ b[1] \in Nat /\ b[2] \in Nat /\ b[3] \in Nat
      /\ c[1] \in Nat /\ c[2] \in Nat /\ c[3] \in Nat
  BY DEF Triples
<1> QED
  BY <1>1, BeforeIs

(* What a range of one, two or three parts means.                          *)
LEMMA WindowIsRange ==
  ASSUME NEW r \in Ranges, NEW v \in Versions, CaretsAreNamed
  PROVE  Satisfies(v, r) <=> InRange(v, r)
<1>1. /\ v.n[1] \in Nat /\ v.n[2] \in Nat /\ v.n[3] \in Nat
      /\ r.parts \in Seq(Nat)
      /\ r.op # "*" => Len(r.parts) \in 1 .. 3
  <2>1. v.n \in [1 .. 3 -> Nat]
    BY RegistryAssumption
  <2>2. /\ r.parts \in Seq(Nat)
        /\ r.op # "*" => Len(r.parts) \in 1 .. 3
    BY RegistryAssumption
  <2> QED
    BY <2>1, <2>2
<1>2. CASE r.op = "*"
  BY <1>2 DEF Satisfies, InRange
<1> SUFFICES ASSUME r.op # "*" PROVE Satisfies(v, r) <=> InRange(v, r)
  BY <1>2
<1> DEFINE p == Part(r, 1)  q == Part(r, 2)  t == Part(r, 3)
<1>3. Len(r.parts) = 1 \/ Len(r.parts) = 2 \/ Len(r.parts) = 3
  BY <1>1
<1>4. /\ p \in Nat /\ q \in Nat /\ t \in Nat
      /\ Len(r.parts) = 1 => q = 0 /\ t = 0
      /\ Len(r.parts) = 2 => t = 0
  <2>1. \A i \in 1 .. Len(r.parts) : r.parts[i] \in Nat
    BY <1>1
  <2> QED
    BY <1>3, <2>1 DEF Part
<1>5. Lower(r)[1] = p /\ Lower(r)[2] = q /\ Lower(r)[3] = t
  BY DEF Lower
<1>6. r.op = "^" => Len(r.parts) = 3 \/ p > 0 \/ q > 0
  <2> SUFFICES ASSUME r.op = "^", Len(r.parts) # 3 PROVE p > 0 \/ q > 0
    OBVIOUS
  <2>1. PICK i \in DOMAIN r.parts : r.parts[i] > 0
    BY DEF CaretsAreNamed
  <2>2. (i = 1 \/ i = 2) /\ i <= Len(r.parts)
    BY <1>1, <1>3, <2>1
  <2> QED
    BY <1>1, <2>1, <2>2 DEF Part
<1> DEFINE fixes(n) == \A i \in 1 .. n : v.n[i] = Lower(r)[i]
<1>7. /\ fixes(1) <=> v.n[1] = p
      /\ fixes(2) <=> v.n[1] = p /\ v.n[2] = q
      /\ fixes(3) <=> v.n[1] = p /\ v.n[2] = q /\ v.n[3] = t
  <2>1. 1 .. 1 = {1} /\ 1 .. 2 = {1, 2} /\ 1 .. 3 = {1, 2, 3}
    OBVIOUS
  <2> QED
    BY <1>5, <2>1
<1>8. Before3(v.n, Lower(r)) <=> \/ v.n[1] < p
                                 \/ v.n[1] = p /\ v.n[2] < q
                                 \/ v.n[1] = p /\ v.n[2] = q /\ v.n[3] < t
  BY <1>5, BeforeIs
<1> DEFINE above(x, y, z) == \/ v.n[1] < x
                             \/ v.n[1] = x /\ v.n[2] < y
                             \/ v.n[1] = x /\ v.n[2] = y /\ v.n[3] < z
<1>9. \A x, y, z \in Nat : Before3(v.n, <<x, y, z>>) <=> above(x, y, z)
  BY BeforeIs
<1>10. CASE r.op = "^" /\ p > 0
  <2>1. Upper(r) = <<p + 1, 0, 0>>
    BY <1>10 DEF Upper
  <2>2. Fixed(r) = 1
    <3>1. 1 \in 1 .. 3 /\ Lower(r)[1] > 0 /\ \A j \in 1 .. (1 - 1) : Lower(r)[j] = 0
      BY <1>5, <1>10
    <3>2. \A i \in 1 .. 3 : (\A j \in 1 .. (i - 1) : Lower(r)[j] = 0) => i = 1
      <4>1. \A i \in 1 .. 3 : i # 1 => 1 \in 1 .. (i - 1)
        OBVIOUS
      <4> QED
        BY <1>4, <1>5, <1>10, <4>1
    <3> QED
      BY <1>10, <3>1, <3>2 DEF Fixed
  <2> QED
    BY <1>1, <1>4, <1>7, <1>8, <1>9, <1>10, <2>1, <2>2 DEF Satisfies, InRange
<1>11. CASE r.op = "^" /\ p = 0 /\ q > 0
  <2>1. Upper(r) = <<0, q + 1, 0>>
    BY <1>4, <1>11 DEF Upper
  <2>2. Fixed(r) = 2
    <3>1. 2 \in 1 .. 3 /\ Lower(r)[2] > 0 /\ \A j \in 1 .. (2 - 1) : Lower(r)[j] = 0
      BY <1>5, <1>11
    <3>2. \A i \in 1 .. 3 : Lower(r)[i] > 0 /\ (\A j \in 1 .. (i - 1) : Lower(r)[j] = 0) => i = 2
      <4>1. \A i \in 1 .. 3 : i = 1 \/ i = 2 \/ (i = 3 /\ 2 \in 1 .. (i - 1))
        OBVIOUS
      <4> QED
        BY <1>4, <1>5, <1>11, <4>1
    <3> QED
      BY <1>11, <3>1, <3>2 DEF Fixed
  <2> QED
    BY <1>1, <1>4, <1>7, <1>8, <1>9, <1>11, <2>1, <2>2 DEF Satisfies, InRange
<1>12. CASE r.op = "^" /\ p = 0 /\ q = 0
  <2>1. Upper(r) = <<0, 0, t + 1>> /\ Len(r.parts) = 3
    BY <1>4, <1>6, <1>12 DEF Upper
  <2>2. Fixed(r) = 3
    <3>1. \A i \in 1 .. 3 : i = 1 \/ i = 2 \/ i = 3
      OBVIOUS
    <3>2. CASE t > 0
      <4>1. 3 \in 1 .. 3 /\ Lower(r)[3] > 0 /\ \A j \in 1 .. (3 - 1) : Lower(r)[j] = 0
        BY <1>5, <1>12, <3>2
      <4>2. \A i \in 1 .. 3 : Lower(r)[i] > 0 => i = 3
        BY <1>4, <1>5, <1>12, <3>1
      <4> QED
        BY <1>12, <4>1, <4>2 DEF Fixed
    <3>3. CASE ~(t > 0)
      <4>1. ~\E i \in 1 .. 3 : Lower(r)[i] > 0
        BY <1>4, <1>5, <1>12, <3>1, <3>3
      <4> QED
        BY <1>12, <2>1, <4>1 DEF Fixed
    <3> QED
      BY <3>2, <3>3
  <2> QED
    BY <1>1, <1>4, <1>7, <1>8, <1>9, <1>12, <2>1, <2>2 DEF Satisfies, InRange
<1>13. CASE r.op # "^" /\ Len(r.parts) = 1
  <2>1. Upper(r) = <<p + 1, 0, 0>> /\ Fixed(r) = 1
    BY <1>13 DEF Upper, Fixed
  <2> QED
    BY <1>1, <1>4, <1>7, <1>8, <1>9, <1>13, <2>1 DEF Satisfies, InRange
<1>14. CASE r.op # "^" /\ Len(r.parts) # 1 /\ (r.op = "~" \/ Len(r.parts) = 2)
  <2>1. Upper(r) = <<p, q + 1, 0>> /\ Fixed(r) = 2
    BY <1>1, <1>14 DEF Upper, Fixed
  <2> QED
    BY <1>1, <1>4, <1>7, <1>8, <1>9, <1>14, <2>1 DEF Satisfies, InRange
<1>15. CASE r.op # "^" /\ r.op # "~" /\ Len(r.parts) = 3
  <2>1. Upper(r) = <<p, q, t + 1>> /\ Fixed(r) = 3
    BY <1>15 DEF Upper, Fixed
  <2> QED
    BY <1>1, <1>4, <1>7, <1>8, <1>9, <1>15, <2>1 DEF Satisfies, InRange
<1> QED
  BY <1>1, <1>3, <1>4, <1>10, <1>11, <1>12, <1>13, <1>14, <1>15

LEMMA LeastOf ==
  ASSUME NEW S \in SUBSET Nat, S # {}
  PROVE  \E x \in S : \A y \in S : x <= y
<1> DEFINE below == OpToRel(<, Nat)
<1>1. PICK x \in S : \A y \in S : ~(<<y, x>> \in below)
  <2>1. IsWellFoundedOn(below, Nat)
    BY NatLessThanWellFounded
  <2> HIDE DEF below
  <2>2. IsWellFoundedOn(below, S)
    BY <2>1, IsWellFoundedOnSubset
  <2> QED
    BY <2>2, WFMin
<1>2. \A y \in S : x <= y
  <2> SUFFICES ASSUME NEW y \in S, ~(x <= y) PROVE FALSE
    OBVIOUS
  <2>1. y \in Nat /\ x \in Nat /\ y < x
    OBVIOUS
  <2>2. <<y, x>> \in below
    BY <2>1 DEF OpToRel
  <2> QED
    BY <1>1, <2>2
<1> QED
  BY <1>2

(* Among finitely many versions one has none above it.                     *)
LEMMA HighestOf ==
  ASSUME NEW n \in Nat, NEW fits \in SUBSET (1 .. n), fits # {}, NEW num,
         \A i \in fits : num[i] \in Triples
  PROVE  \E i \in fits : \A j \in fits : ~Before3(num[i], num[j])
<1> DEFINE Top(m, i) == i \in fits /\ i <= m /\ \A j \in fits : j <= m => ~Before3(num[i], num[j])
           Bad == {m \in 0 .. n : (\E i \in fits : i <= m) /\ ~\E i \in fits : Top(m, i)}
<1>1. SUFFICES Bad = {}
  <2>1. n \notin Bad /\ n \in 0 .. n /\ \A i \in fits : i <= n
    <3>1. n \in 0 .. n /\ \A i \in fits : i <= n
      OBVIOUS
    <3> HIDE DEF Bad
    <3> QED
      BY <1>1, <3>1
  <2>2. \E i \in fits : i <= n
    BY <2>1
  <2>3. PICK i \in fits : Top(n, i)
    BY <2>1, <2>2
  <2> QED
    BY <2>1, <2>3
<1>2. SUFFICES ASSUME Bad # {} PROVE FALSE
  OBVIOUS
<1>3. PICK m \in Bad : \A k \in Bad : m <= k
  <2>1. Bad \in SUBSET Nat
    OBVIOUS
  <2> HIDE DEF Bad
  <2> QED
    BY <1>2, <2>1, LeastOf
<1>4. m # 0 /\ m - 1 \in 0 .. n /\ m - 1 \notin Bad
  <2>1. PICK i \in fits : i <= m
    OBVIOUS
  <2>2. m # 0 /\ m - 1 \in 0 .. n /\ ~(m <= m - 1)
    BY <2>1
  <2> QED
    BY <1>3, <2>2
<1>5. \A i \in fits : i <= m <=> i = m \/ i <= m - 1
  BY <1>4
<1>6. CASE ~\E i \in fits : i <= m - 1
  <2>1. m \in fits /\ \A j \in fits : j <= m => j = m
    BY <1>5, <1>6
  <2>2. ~Before3(num[m], num[m])
    BY <2>1, BeforeIsTotal
  <2>3. Top(m, m)
    BY <2>1, <2>2
  <2> QED
    BY <2>1, <2>3
<1>7. CASE \E i \in fits : i <= m - 1
  <2>1. PICK i \in fits : Top(m - 1, i)
    BY <1>4, <1>7
  <2>2. CASE m \notin fits \/ ~Before3(num[i], num[m])
    <3>1. \A j \in fits : j <= m => ~Before3(num[i], num[j])
      BY <1>5, <2>1, <2>2
    <3>2. i <= m
      BY <1>5, <2>1
    <3>3. Top(m, i)
      BY <3>1, <3>2
    <3> QED
      BY <3>3
  <2>3. CASE m \in fits /\ Before3(num[i], num[m])
    <3>1. ~Before3(num[m], num[i])
      BY <2>3, BeforeIsTotal
    <3>2. \A j \in fits : j <= m - 1 => ~Before3(num[m], num[j])
      <4> SUFFICES ASSUME NEW j \in fits, j <= m - 1 PROVE ~Before3(num[m], num[j])
        OBVIOUS
      <4>1. ~Before3(num[i], num[j])
        BY <2>1
      <4> QED
        BY <2>3, <3>1, <4>1, BeforeIsTotal
    <3>3. ~Before3(num[m], num[m])
      BY <2>3, BeforeIsTotal
    <3>4. Top(m, m)
      BY <1>5, <2>3, <3>2, <3>3
    <3> QED
      BY <2>3, <3>4
  <2> QED
    BY <2>2, <2>3
<1> QED
  BY <1>6, <1>7

(* pickVersion: nothing if no version of the row fits, else one of the     *)
(* row that fits and that no other is above.                               *)
Fits(row, r) == {i \in DOMAIN row : Satisfies(row[i][1], r)}

LEMMA PickIs ==
  ASSUME NEW X, NEW row \in Seq(Versions \X X), NEW r
  PROVE  /\ Fits(row, r) = {} => PickVersion(row, r) = <<>>
         /\ Fits(row, r) # {} =>
              \E i \in Fits(row, r) :
                /\ PickVersion(row, r) = row[i] /\ row[i] # <<>>
                /\ \A j \in Fits(row, r) : ~Before3(row[i][1].n, row[j][1].n)
<1> DEFINE fits == Fits(row, r)
           best == {i \in fits : \A j \in fits : ~Before3(row[i][1].n, row[j][1].n)}
<1>1. DOMAIN row = 1 .. Len(row) /\ Len(row) \in Nat /\ \A i \in 1 .. Len(row) : row[i] \in Versions \X X
  OBVIOUS
<1>2. fits \in SUBSET (1 .. Len(row))
  BY <1>1 DEF Fits
<1>3. \A i \in fits : row[i][1].n \in Triples /\ row[i] # <<>>
  <2> SUFFICES ASSUME NEW i \in fits PROVE row[i][1].n \in Triples /\ row[i] # <<>>
    OBVIOUS
  <2>1. PICK v \in Versions, x \in X : row[i] = <<v, x>>
    BY <1>1, <1>2
  <2> QED
    BY <2>1, RegistryAssumption DEF Triples
<1>4. fits = {} => PickVersion(row, r) = <<>>
  BY DEF PickVersion, Fits
<1>5. ASSUME fits # {}
      PROVE  \E i \in best : PickVersion(row, r) = row[i]
  <2> DEFINE num == [i \in fits |-> row[i][1].n]
  <2>1. \A i \in fits : num[i] \in Triples /\ num[i] = row[i][1].n
    BY <1>3
  <2> HIDE DEF num
  <2>2. \E i \in fits : \A j \in fits : ~Before3(num[i], num[j])
    <3> HIDE DEF fits
    <3> QED
      BY <1>1, <1>2, <1>5, <2>1, HighestOf
  <2>3. best # {} /\ best \in SUBSET Nat
    BY <1>2, <2>1, <2>2
  <2>4. \E i \in best : \A j \in best : i <= j
    <3> HIDE DEF best
    <3> QED
      BY <2>3, LeastOf
  <2>5. PickVersion(row, r) = row[CHOOSE i \in best : \A j \in best : i <= j]
    BY <1>5 DEF PickVersion, Fits
  <2> HIDE DEF best
  <2> QED
    BY <2>4, <2>5
<1> QED
  BY <1>3, <1>4, <1>5

-----------------------------------------------------------------------------
(* The closure, step by step.                                              *)
Stepped(S) == S \cup UNION {Range(h.imports) : h \in S}
Walks(f, m, roots) == f = [n \in 0 .. m |-> IF n = 0 THEN roots ELSE Stepped(f[n - 1])]

LEMMA SomeWalk == ASSUME NEW roots, NEW m \in Nat PROVE \E f : Walks(f, m, roots)
<1> DEFINE Bad == {k \in Nat : ~\E f : Walks(f, k, roots)}
<1>1. SUFFICES ASSUME Bad # {} PROVE FALSE
  OBVIOUS
<1>2. PICK k \in Bad : \A j \in Bad : k <= j
  <2>1. Bad \in SUBSET Nat
    OBVIOUS
  <2> HIDE DEF Bad
  <2> QED
    BY <1>1, <2>1, LeastOf
<1>3. CASE k = 0
  <2> DEFINE f == [n \in 0 .. 0 |-> roots]
  <2>1. f = [n \in 0 .. 0 |-> IF n = 0 THEN roots ELSE Stepped(f[n - 1])]
    <3>1. \A n \in 0 .. 0 : n = 0
      OBVIOUS
    <3> HIDE DEF Stepped
    <3> QED
      BY <3>1
  <2>2. Walks(f, k, roots)
    BY <1>3, <2>1 DEF Walks
  <2> QED
    BY <2>2
<1>4. CASE k # 0
  <2>1. k - 1 \in Nat /\ k - 1 \notin Bad
    <3>1. k - 1 \in Nat /\ ~(k <= k - 1)
      BY <1>4
    <3> HIDE DEF Bad
    <3> QED
      BY <1>2, <3>1
  <2>2. PICK g : Walks(g, k - 1, roots)
    BY <2>1
  <2> DEFINE f == [n \in 0 .. k |-> IF n = k THEN Stepped(g[k - 1]) ELSE g[n]]
  <2>3. \A n \in 0 .. (k - 1) : g[n] = IF n = 0 THEN roots ELSE Stepped(g[n - 1])
    BY <2>2 DEF Walks
  <2>4. \A n \in 0 .. k : f[n] = IF n = 0 THEN roots ELSE Stepped(f[n - 1])
    <3> SUFFICES ASSUME NEW n \in 0 .. k PROVE f[n] = IF n = 0 THEN roots ELSE Stepped(f[n - 1])
      OBVIOUS
    <3>1. n # 0 => n - 1 \in 0 .. k /\ n - 1 # k
      BY <1>4
    <3>2. n # 0 => f[n - 1] = g[n - 1]
      BY <3>1
    <3>3. CASE n = k
      BY <1>4, <3>2, <3>3
    <3>4. CASE n # k
      <4>1. n \in 0 .. (k - 1)
        BY <3>4
      <4>2. f[n] = g[n]
        BY <3>4
      <4> QED
        BY <2>3, <3>2, <4>1, <4>2
    <3> QED
      BY <3>3, <3>4
  <2>5. f = [n \in 0 .. k |-> f[n]]
    OBVIOUS
  <2> HIDE DEF f
  <2>6. f = [n \in 0 .. k |-> IF n = 0 THEN roots ELSE Stepped(f[n - 1])]
    BY <2>4, <2>5
  <2>7. Walks(f, k, roots)
    BY <2>6 DEF Walks
  <2> QED
    BY <2>7
<1> QED
  BY <1>3, <1>4

LEMMA ClosureWalks ==
  ASSUME NEW roots
  PROVE  \E f : /\ Closure(roots) = f[MaxPublished]
                /\ f[0] = roots
                /\ \A n \in 0 .. MaxPublished : n # 0 => f[n] = Stepped(f[n - 1])
<1> DEFINE f == CHOOSE f : Walks(f, MaxPublished, roots)
<1>1. Walks(f, MaxPublished, roots)
  BY SomeWalk, RegistryAssumption
<1>2. Closure(roots) = f[MaxPublished]
  BY DEF Closure, Walks, Stepped
<1> HIDE DEF f
<1>3. f[0] = roots /\ \A n \in 0 .. MaxPublished : n # 0 => f[n] = Stepped(f[n - 1])
  BY <1>1, RegistryAssumption DEF Walks
<1> QED
  BY <1>2, <1>3

-----------------------------------------------------------------------------
(* The rows agree: the index of a package lists the versions that have a   *)
(* label, with what the label names.                                       *)
Indexed ==
    /\ \A s \in Specs : idx[s] \in Seq(Versions \X DOMAIN content)
    /\ \A s \in Specs : \A i \in DOMAIN idx[s] :
         <<s, idx[s][i][1]>> \in DOMAIN ver /\ ver[<<s, idx[s][i][1]>>] = idx[s][i][2]
    /\ \A s \in Specs, v \in Versions :
         <<s, v>> \in DOMAIN ver => \E i \in DOMAIN idx[s] : idx[s][i][1] = v

(* A content has a canonical label, and what it imports is stored, counted *)
(* in its capabilities and of a lower rank: ranks are numbers of labels.   *)
Named ==
    /\ DOMAIN lbl = DOMAIN content
    /\ \A h \in DOMAIN lbl : lbl[h][1] \in DOMAIN ver /\ ver[lbl[h][1]] = h
Counted ==
    \A h \in DOMAIN content : \A g \in Range(h.imports) :
        g \in DOMAIN content /\ content[g] \subseteq content[h]
Ranks(rank) ==
    /\ \A h \in DOMAIN content : rank[h] \in Nat /\ rank[h] < Cardinality(DOMAIN ver)
    /\ \A h \in DOMAIN content : \A g \in Range(h.imports) : rank[g] < rank[h]
Bounded == IsFiniteSet(DOMAIN ver) /\ Cardinality(DOMAIN ver) <= MaxPublished

RowsInv ==
    Labelled /\ Indexed /\ Named /\ Counted /\ Bounded /\ \E rank : Ranks(rank)

LEMMA RowsStart == RegistryInit => RowsInv
<1> SUFFICES ASSUME RegistryInit PROVE RowsInv
  OBVIOUS
<1>1. ver = <<>> /\ content = <<>> /\ lbl = <<>> /\ idx = [s \in Specs |-> <<>>]
  BY DEF RegistryInit
<1>2. DOMAIN ver = {} /\ DOMAIN content = {} /\ DOMAIN lbl = {}
  BY <1>1
<1>3. \A s \in Specs : idx[s] \in Seq(Versions \X DOMAIN content) /\ DOMAIN idx[s] = {}
  BY <1>1
<1>4. Indexed /\ Named /\ Counted
  BY <1>2, <1>3 DEF Indexed, Named, Counted
<1>5. Bounded
  BY <1>2, FS_EmptySet, RegistryAssumption DEF Bounded
<1>6. Ranks(<<>>)
  BY <1>2 DEF Ranks
<1> QED
  BY <1>4, <1>5, <1>6, LabelledStart DEF RowsInv

(* What a package may depend on is stored.                                 *)
LEMMA PinsAreStored ==
  ASSUME Indexed, NEW deps, DOMAIN deps \subseteq Specs, Resolvable(deps)
  PROVE  Range(Pins(deps)) \subseteq DOMAIN content
<1> SUFFICES ASSUME NEW s \in DOMAIN deps PROVE Pins(deps)[s] \in DOMAIN content
  BY DEF Range, Pins
<1>1. idx[s] \in Seq(Versions \X DOMAIN content) /\ PickVersion(idx[s], deps[s]) # <<>>
  BY DEF Indexed, Resolvable
<1>2. PICK i \in DOMAIN idx[s] : PickVersion(idx[s], deps[s]) = idx[s][i]
  BY <1>1, PickIs DEF Fits
<1>3. idx[s][i] \in Versions \X DOMAIN content
  BY <1>1
<1>4. idx[s][i][2] \in DOMAIN content
  BY <1>3
<1> QED
  BY <1>2, <1>4 DEF Pins

LEMMA CountsImports ==
  ASSUME NEW files, NEW imports
  PROVE  \A g \in Range(imports) : content[g] \subseteq Capabilities(files, imports)
<1> SUFFICES ASSUME NEW g \in Range(imports), NEW x \in content[g]
             PROVE  x \in Capabilities(files, imports)
  OBVIOUS
<1>1. x \in UNION {content[h] : h \in Range(imports)}
  OBVIOUS
<1> QED
  BY <1>1 DEF Capabilities

LEMMA PublishRows ==
  ASSUME RowsInv, Cardinality(DOMAIN ver) < MaxPublished,
         NEW who, NEW spec \in Specs, NEW v \in Versions, NEW files, NEW deps \in Deps,
         Publish(who, spec, v, files, deps)
  PROVE  RowsInv'
<1> DEFINE hash == [files |-> files, imports |-> Pins(deps)]
           labels == IF hash \in DOMAIN lbl THEN lbl[hash] ELSE <<>>
           caps == Capabilities(files, Pins(deps))
           new == <<spec, v>>
           row == IF \E i \in DOMAIN idx[spec] : idx[spec][i][1] = v THEN idx[spec]
                  ELSE Append(idx[spec], <<v, hash>>)
<1>1. /\ new \notin DOMAIN ver
      /\ ver' = Put(ver, new, hash)
      /\ content' = IF labels = <<>> THEN Put(content, hash, caps) ELSE content
      /\ lbl' = IF new \in Range(labels) THEN lbl ELSE Put(lbl, hash, Append(labels, new))
      /\ idx' = [idx EXCEPT ![spec] = row]
  BY DEF Publish, Taken
<1>2. Labelled' /\ FrozenStep
  BY PublishStep DEF RowsInv
<1>3. Range(hash.imports) \subseteq DOMAIN content
  <2>1. DOMAIN deps \subseteq Specs
    <3>1. DOMAIN <<>> = {}
      OBVIOUS
    <3> QED
      BY <3>1 DEF Deps
  <2>2. Resolvable(deps)
    BY DEF Publish
  <2> QED
    BY <2>1, <2>2, PinsAreStored DEF RowsInv
<1>4. \A g \in Range(hash.imports) : content[g] \subseteq caps
  <2>1. hash.imports = Pins(deps)
    OBVIOUS
  <2>2. \A g \in Range(Pins(deps)) : content[g] \subseteq caps
    BY CountsImports
  <2> HIDE DEF hash
  <2> QED
    BY <2>1, <2>2
<1>5. labels = <<>> <=> hash \notin DOMAIN content
  <2>1. hash \in DOMAIN lbl => lbl[hash] # <<>>
    BY DEF RowsInv, Labelled
  <2> QED
    BY <2>1 DEF RowsInv, Named
<1>6. row = Append(idx[spec], <<v, hash>>)
  BY <1>1 DEF RowsInv, Indexed
<1> HIDE DEF hash, labels, caps, row, new
<1>7. /\ DOMAIN ver' = DOMAIN ver \cup {new} /\ ver'[new] = hash
      /\ \A k \in DOMAIN ver : ver'[k] = ver[k]
  <2>1. /\ DOMAIN Put(ver, new, hash) = DOMAIN ver \cup {new} /\ Put(ver, new, hash)[new] = hash
        /\ \A y \in DOMAIN ver : y # new => Put(ver, new, hash)[y] = ver[y]
    BY DEF Put
  <2> QED
    BY <1>1, <2>1
<1>8. /\ DOMAIN content' = DOMAIN content \cup {hash}
      /\ \A k \in DOMAIN content : content'[k] = content[k]
      /\ hash \notin DOMAIN content => content'[hash] = caps
  <2>1. /\ DOMAIN Put(content, hash, caps) = DOMAIN content \cup {hash}
        /\ Put(content, hash, caps)[hash] = caps
        /\ \A y \in DOMAIN content : y # hash => Put(content, hash, caps)[y] = content[y]
    BY DEF Put
  <2> QED
    BY <1>1, <1>5, <2>1
<1>9. Counted'
  BY <1>3, <1>4, <1>8 DEF RowsInv, Counted
<1>10. Bounded' /\ Cardinality(DOMAIN ver') = Cardinality(DOMAIN ver) + 1
       /\ Cardinality(DOMAIN ver) \in Nat
  <2>1. IsFiniteSet(DOMAIN ver) /\ Cardinality(DOMAIN ver) \in Nat
    BY FS_CardinalityType DEF RowsInv, Bounded
  <2>2. IsFiniteSet(DOMAIN ver') /\ Cardinality(DOMAIN ver') = Cardinality(DOMAIN ver) + 1
    BY <1>1, <1>7, <2>1, FS_AddElement
  <2> QED
    BY <2>1, <2>2, RegistryAssumption DEF Bounded
<1>11. Named'
  <2>1. DOMAIN lbl' = DOMAIN lbl \cup {hash}
    <3>1. DOMAIN Put(lbl, hash, Append(labels, new)) = DOMAIN lbl \cup {hash}
      BY PutKeeps
    <3>2. new \in Range(labels) => hash \in DOMAIN lbl
      BY DEF labels, Range
    <3> QED
      BY <1>1, <3>1, <3>2
  <2>2. \A h \in DOMAIN lbl : lbl'[h][1] \in DOMAIN ver' /\ ver'[lbl'[h][1]] = h
    BY <1>2, <1>7 DEF RowsInv, Named, FrozenStep
  <2>3. hash \notin DOMAIN lbl => lbl'[hash][1] = new
    <3> SUFFICES ASSUME hash \notin DOMAIN lbl PROVE lbl'[hash][1] = new
      OBVIOUS
    <3>1. labels = <<>> /\ new \notin Range(labels)
      BY DEF labels, Range
    <3>2. lbl' = Put(lbl, hash, Append(labels, new))
      BY <1>1, <3>1
    <3>3. Put(lbl, hash, Append(labels, new))[hash] = Append(labels, new)
      BY DEF Put
    <3>4. Append(<<>>, new)[1] = new
      OBVIOUS
    <3> QED
      BY <3>1, <3>2, <3>3, <3>4
  <2> QED
    BY <1>7, <1>8, <2>1, <2>2, <2>3 DEF RowsInv, Named
<1>12. Indexed'
  <2>1. <<v, hash>> \in Versions \X DOMAIN content'
    BY <1>8
  <2>2. ASSUME NEW s \in Specs
        PROVE  /\ idx[s] \in Seq(Versions \X DOMAIN content')
               /\ idx[s] \in Seq(Versions \X DOMAIN content)
    <3>1. idx[s] \in Seq(Versions \X DOMAIN content)
      BY DEF RowsInv, Indexed
    <3>2. Versions \X DOMAIN content \subseteq Versions \X DOMAIN content'
      BY <1>8
    <3> QED
      BY <3>1, <3>2
  <2>3. /\ row \in Seq(Versions \X DOMAIN content') /\ Len(row) = Len(idx[spec]) + 1
        /\ \A i \in DOMAIN idx[spec] : row[i] = idx[spec][i] /\ i \in DOMAIN row
        /\ row[Len(row)] = <<v, hash>> /\ Len(row) \in DOMAIN row
        /\ \A i \in DOMAIN row : i \in DOMAIN idx[spec] \/ i = Len(row)
    <3> DEFINE e == <<v, hash>>  T == Versions \X DOMAIN content'
    <3>1. e \in T /\ idx[spec] \in Seq(T) /\ row = Append(idx[spec], e)
      BY <1>6, <2>1, <2>2
    <3> HIDE DEF e, T
    <3>2. /\ row \in Seq(T) /\ Len(row) = Len(idx[spec]) + 1
          /\ \A i \in DOMAIN idx[spec] : row[i] = idx[spec][i] /\ i \in DOMAIN row
          /\ row[Len(row)] = e /\ Len(row) \in DOMAIN row
          /\ \A i \in DOMAIN row : i \in DOMAIN idx[spec] \/ i = Len(row)
      BY <3>1
    <3> QED
      BY <3>2 DEF e, T
  <2>4. /\ idx'[spec] = row /\ \A s \in Specs : s # spec => idx'[s] = idx[s]
    BY <1>1 DEF RowsInv, Labelled
  <2>5. \A s \in Specs : idx'[s] \in Seq(Versions \X DOMAIN content')
    BY <2>2, <2>3, <2>4
  <2>6. ASSUME NEW s \in Specs, NEW i \in DOMAIN idx'[s]
        PROVE  <<s, idx'[s][i][1]>> \in DOMAIN ver' /\ ver'[<<s, idx'[s][i][1]>>] = idx'[s][i][2]
    <3>1. CASE i \in DOMAIN idx[s] /\ idx'[s][i] = idx[s][i]
      <4> DEFINE k == <<s, idx[s][i][1]>>
      <4>1. k \in DOMAIN ver /\ ver[k] = idx[s][i][2]
        BY <3>1 DEF RowsInv, Indexed
      <4>2. k = <<s, idx'[s][i][1]>>
        BY <3>1
      <4> HIDE DEF k
      <4>3. k \in DOMAIN ver' /\ ver'[k] = idx[s][i][2]
        BY <1>7, <4>1
      <4> QED
        BY <3>1, <4>2, <4>3
    <3>2. CASE s = spec /\ idx'[s][i] = <<v, hash>>
      BY <1>7, <3>2 DEF new
    <3> QED
      BY <2>3, <2>4, <2>6, <3>1, <3>2
  <2>7. ASSUME NEW s \in Specs, NEW w \in Versions, <<s, w>> \in DOMAIN ver'
        PROVE  \E i \in DOMAIN idx'[s] : idx'[s][i][1] = w
    <3>1. CASE <<s, w>> \in DOMAIN ver
      <4>1. PICK i \in DOMAIN idx[s] : idx[s][i][1] = w
        BY <3>1 DEF RowsInv, Indexed
      <4> QED
        BY <2>3, <2>4, <4>1
    <3>2. CASE <<s, w>> = new
      BY <2>3, <2>4, <3>2 DEF new
    <3> QED
      BY <1>7, <2>7, <3>1, <3>2
  <2> QED
    BY <2>5, <2>6, <2>7 DEF Indexed
<1>13. \E rank : Ranks(rank)'
  <2>1. PICK old : Ranks(old)
    BY DEF RowsInv
  <2>2. CASE hash \in DOMAIN content
    BY <1>8, <1>10, <2>1, <2>2 DEF Ranks
  <2>3. CASE hash \notin DOMAIN content
    <3> DEFINE top == [h \in DOMAIN content \cup {hash} |->
                         IF h = hash THEN Cardinality(DOMAIN ver) ELSE old[h]]
    <3>1. top[hash] = Cardinality(DOMAIN ver) /\ \A h \in DOMAIN content : top[h] = old[h]
      BY <2>3
    <3> HIDE DEF top
    <3>2. \A h \in DOMAIN content' : top[h] \in Nat /\ top[h] < Cardinality(DOMAIN ver')
      BY <1>8, <1>10, <2>1, <3>1 DEF Ranks
    <3>3. \A h \in DOMAIN content' : \A g \in Range(h.imports) : top[g] < top[h]
      BY <1>3, <1>8, <2>1, <3>1 DEF Ranks, RowsInv, Counted
    <3>4. \E rank :
            /\ \A h \in DOMAIN content' : rank[h] \in Nat /\ rank[h] < Cardinality(DOMAIN ver')
            /\ \A h \in DOMAIN content' : \A g \in Range(h.imports) : rank[g] < rank[h]
      BY <3>2, <3>3
    <3> QED
      BY <3>4 DEF Ranks
  <2> QED
    BY <2>2, <2>3
<1> QED
  BY <1>2, <1>9, <1>10, <1>11, <1>12, <1>13 DEF RowsInv

LEMMA RowsKeep == RowsInv /\ [RegistryNext]_registryVars => RowsInv'
<1> SUFFICES ASSUME RowsInv, [RegistryNext]_registryVars PROVE RowsInv'
  OBVIOUS
<1>1. CASE SeedToken \/ UNCHANGED registryVars
  <2>1. UNCHANGED <<ver, content, lbl, idx>>
    BY <1>1 DEF SeedToken, registryVars
  <2>2. Labelled'
    BY RegistryKeeps DEF RowsInv
  <2>3. Indexed' /\ Named' /\ Counted' /\ Bounded'
    BY <2>1 DEF RowsInv, Indexed, Named, Counted, Bounded
  <2>4. \E rank : Ranks(rank)'
    BY <2>1 DEF RowsInv, Ranks
  <2> QED
    BY <2>2, <2>3, <2>4 DEF RowsInv
<1> QED
  BY <1>1, PublishRows DEF RegistryNext

(* The closure of stored roots holds them and is closed: a content whose   *)
(* imports are not yet in after n steps is of a rank n below the labels.   *)
LEMMA ClosureIsClosed ==
  ASSUME RowsInv, NEW roots \in SUBSET DOMAIN content
  PROVE  /\ roots \subseteq Closure(roots) /\ Closure(roots) \subseteq DOMAIN content
         /\ \A h \in Closure(roots) : Range(h.imports) \subseteq Closure(roots)
<1> DEFINE M == MaxPublished
<1>1. PICK f : /\ Closure(roots) = f[M] /\ f[0] = roots
               /\ \A n \in 0 .. M : n # 0 => f[n] = Stepped(f[n - 1])
  BY ClosureWalks
<1>2. PICK rank : Ranks(rank)
  BY DEF RowsInv
<1>3. M \in Nat /\ Cardinality(DOMAIN ver) <= M /\ Cardinality(DOMAIN ver) \in Nat
  BY RegistryAssumption, FS_CardinalityType DEF RowsInv, Bounded
<1> DEFINE Open(n, h) == rank[h] + n < M
           Good(n) == /\ roots \subseteq f[n] /\ f[n] \subseteq DOMAIN content
                      /\ \A h \in f[n] : Range(h.imports) \subseteq f[n] \/ Open(n, h)
           Bad == {n \in 0 .. M : ~Good(n)}
<1>4. Good(0)
  BY <1>1, <1>2, <1>3 DEF Ranks
<1>5. ASSUME NEW n \in 0 .. M, n # 0, Good(n - 1) PROVE Good(n)
  <2>1. f[n] = Stepped(f[n - 1])
    BY <1>1, <1>5
  <2>2. roots \subseteq f[n] /\ f[n - 1] \subseteq f[n]
    BY <1>5, <2>1 DEF Stepped
  <2>3. ASSUME NEW h \in f[n - 1]
        PROVE  /\ Range(h.imports) \subseteq f[n] /\ h \in DOMAIN content
               /\ \A g \in Range(h.imports) : g \in DOMAIN content /\ rank[g] < rank[h]
    <3>1. Range(h.imports) \subseteq UNION {Range(k.imports) : k \in f[n - 1]}
      OBVIOUS
    <3>2. h \in DOMAIN content
      BY <1>5
    <3> QED
      BY <1>2, <2>1, <3>1, <3>2 DEF Stepped, Ranks, RowsInv, Counted
  <2>4. ASSUME NEW h \in f[n]
        PROVE  h \in DOMAIN content /\ (Range(h.imports) \subseteq f[n] \/ Open(n, h))
    <3>1. CASE h \in f[n - 1]
      BY <2>3, <3>1
    <3>2. CASE h \notin f[n - 1]
      <4>1. PICK g \in f[n - 1] : h \in Range(g.imports)
        BY <2>1, <3>2 DEF Stepped
      <4>2. ~(Range(g.imports) \subseteq f[n - 1])
        BY <3>2, <4>1
      <4>3. Open(n - 1, g) /\ rank[h] < rank[g] /\ h \in DOMAIN content /\ g \in DOMAIN content
        BY <1>5, <2>3, <4>1, <4>2
      <4>4. rank[g] \in Nat /\ rank[h] \in Nat
        BY <1>2, <4>3 DEF Ranks
      <4>5. Open(n, h)
        BY <1>3, <4>3, <4>4
      <4> QED
        BY <4>3, <4>5
    <3> QED
      BY <3>1, <3>2
  <2> QED
    BY <2>2, <2>4
<1>6. Bad = {}
  <2> SUFFICES ASSUME Bad # {} PROVE FALSE
    OBVIOUS
  <2>1. Bad \in SUBSET Nat
    OBVIOUS
  <2>2. PICK n \in Bad : \A k \in Bad : n <= k
    <3> HIDE DEF Bad
    <3> QED
      BY <2>1, LeastOf
  <2> HIDE DEF Good
  <2>3. n # 0 /\ n \in 0 .. M /\ ~Good(n)
    BY <1>4
  <2>4. n - 1 \in 0 .. M /\ n - 1 \notin Bad
    BY <1>3, <2>2, <2>3
  <2> QED
    BY <1>5, <2>3, <2>4
<1>7. Good(M)
  <2> HIDE DEF Good
  <2> QED
    BY <1>3, <1>6
<1>8. \A h \in f[M] : ~Open(M, h)
  <2> SUFFICES ASSUME NEW h \in f[M] PROVE ~Open(M, h)
    OBVIOUS
  <2>1. rank[h] \in Nat
    BY <1>2, <1>7 DEF Ranks
  <2> QED
    BY <1>3, <2>1
<1> QED
  BY <1>1, <1>7, <1>8

(* The versions of a package that fit a range, by label and by index.      *)
Fitting(s, r) == {v \in Versions : <<s, v>> \in DOMAIN ver /\ InRange(v, r)}

LEMMA PickIsRight ==
  ASSUME RowsInv, CaretsAreNamed, NEW s \in Specs, NEW r \in Ranges
  PROVE  /\ Fitting(s, r) = {} => PickVersion(idx[s], r) = <<>>
         /\ Fitting(s, r) # {} =>
              /\ PickVersion(idx[s], r) # <<>>
              /\ PickVersion(idx[s], r)[2] \in DOMAIN content
              /\ \E v \in Fitting(s, r) :
                   /\ ver[<<s, v>>] = PickVersion(idx[s], r)[2]
                   /\ \A w \in Fitting(s, r) : ~Before3(v.n, w.n)
<1>1. idx[s] \in Seq(Versions \X DOMAIN content)
  BY DEF RowsInv, Indexed
<1>2. ASSUME NEW i \in DOMAIN idx[s]
      PROVE  /\ idx[s][i][1] \in Versions /\ idx[s][i][2] \in DOMAIN content
             /\ <<s, idx[s][i][1]>> \in DOMAIN ver /\ ver[<<s, idx[s][i][1]>>] = idx[s][i][2]
             /\ Satisfies(idx[s][i][1], r) <=> InRange(idx[s][i][1], r)
  <2>1. idx[s][i] \in Versions \X DOMAIN content
    BY <1>1
  <2>2. idx[s][i][1] \in Versions /\ idx[s][i][2] \in DOMAIN content
    BY <2>1
  <2>3. <<s, idx[s][i][1]>> \in DOMAIN ver /\ ver[<<s, idx[s][i][1]>>] = idx[s][i][2]
    BY DEF RowsInv, Indexed
  <2> QED
    BY <2>2, <2>3, WindowIsRange
<1>3. \A i \in Fits(idx[s], r) : idx[s][i][1] \in Fitting(s, r)
  BY <1>2 DEF Fits, Fitting
<1>4. \A v \in Fitting(s, r) : \E i \in Fits(idx[s], r) : idx[s][i][1] = v
  <2> SUFFICES ASSUME NEW v \in Fitting(s, r) PROVE \E i \in Fits(idx[s], r) : idx[s][i][1] = v
    OBVIOUS
  <2>1. PICK i \in DOMAIN idx[s] : idx[s][i][1] = v
    BY DEF RowsInv, Indexed, Fitting
  <2> QED
    BY <1>2, <2>1 DEF Fits, Fitting
<1>5. Fitting(s, r) = {} => PickVersion(idx[s], r) = <<>>
  <2>1. Fitting(s, r) = {} => Fits(idx[s], r) = {}
    BY <1>3
  <2> QED
    BY <1>1, <2>1, PickIs
<1>6. ASSUME Fitting(s, r) # {}
      PROVE  /\ PickVersion(idx[s], r) # <<>>
             /\ PickVersion(idx[s], r)[2] \in DOMAIN content
             /\ \E v \in Fitting(s, r) :
                  /\ ver[<<s, v>>] = PickVersion(idx[s], r)[2]
                  /\ \A w \in Fitting(s, r) : ~Before3(v.n, w.n)
  <2>1. Fits(idx[s], r) # {}
    BY <1>4, <1>6
  <2>2. PICK i \in Fits(idx[s], r) :
           /\ PickVersion(idx[s], r) = idx[s][i] /\ idx[s][i] # <<>>
           /\ \A j \in Fits(idx[s], r) : ~Before3(idx[s][i][1].n, idx[s][j][1].n)
    BY <1>1, <2>1, PickIs
  <2>3. i \in DOMAIN idx[s]
    BY DEF Fits
  <2>4. idx[s][i][1] \in Fitting(s, r)
    BY <1>3
  <2>5. \A w \in Fitting(s, r) : ~Before3(idx[s][i][1].n, w.n)
    BY <1>4, <2>2
  <2> QED
    BY <1>2, <2>2, <2>3, <2>4, <2>5
<1> QED
  BY <1>5, <1>6

LEMMA LocksConclude == ASSUME RowsInv, CaretsAreNamed PROVE LocksAreRight
<1> SUFFICES ASSUME NEW S \in SUBSET Specs, NEW deps \in [S -> Ranges] PROVE LockIsRight(deps)
  BY DEF LocksAreRight
<1> DEFINE pick(s) == PickVersion(idx[s], deps[s])
           chosen == [s \in DOMAIN deps |-> pick(s)]
           app == [s \in DOMAIN deps |-> chosen[s][2]]
           packages == {[label |-> lbl[h][1], hash |-> h, private |-> h \notin Range(app)] :
                          h \in Closure(Range(app))}
           lock == ResolveGraph(deps, [s \in DOMAIN deps |-> <<>>])
           whole == [error |-> "", app_imports |-> app, packages |-> packages]
<1>1. DOMAIN deps = S /\ \A s \in S : s \in Specs /\ deps[s] \in Ranges
  OBVIOUS
<1>2. \A s \in S : chosen[s] = pick(s) /\ app[s] = pick(s)[2]
  BY <1>1
<1>3. lock = IF \E s \in DOMAIN deps : chosen[s] = <<>> THEN [error |-> "unresolved"]
             ELSE IF Closure(Range(app)) \subseteq DOMAIN content THEN whole
             ELSE [error |-> "missing"]
  <2>1. [s \in DOMAIN deps |-> Chosen(idx[s], deps[s], [t \in DOMAIN deps |-> <<>>][s])] = chosen
    BY DEF Chosen
  <2> QED
    BY <2>1 DEF ResolveGraph
<1> HIDE DEF chosen, lock
<1>4. CASE \E s \in S : Fitting(s, deps[s]) = {}
  <2>1. PICK s \in S : Fitting(s, deps[s]) = {}
    BY <1>4
  <2>2. chosen[s] = <<>>
    BY <1>1, <1>2, <2>1, PickIsRight
  <2>3. lock = [error |-> "unresolved"]
    BY <1>1, <1>3, <2>2
  <2>4. lock.error = "unresolved" /\ lock.error # "" /\ lock.error # "missing"
    BY <2>3
  <2> QED
    BY <1>1, <2>1, <2>4 DEF LockIsRight, Fitting, lock
<1>5. CASE \A s \in S : Fitting(s, deps[s]) # {}
  <2>1. \A s \in S : /\ chosen[s] # <<>> /\ app[s] \in DOMAIN content
                     /\ \E v \in Fitting(s, deps[s]) :
                          /\ ver[<<s, v>>] = app[s]
                          /\ \A w \in Fitting(s, deps[s]) : ~Before3(v.n, w.n)
    <3>1. SUFFICES ASSUME NEW s \in S
          PROVE  /\ chosen[s] # <<>> /\ app[s] \in DOMAIN content
                 /\ \E v \in Fitting(s, deps[s]) :
                      /\ ver[<<s, v>>] = app[s]
                      /\ \A w \in Fitting(s, deps[s]) : ~Before3(v.n, w.n)
      OBVIOUS
    <3>2. s \in Specs /\ deps[s] \in Ranges /\ Fitting(s, deps[s]) # {}
      BY <1>1, <1>5
    <3>3. chosen[s] = PickVersion(idx[s], deps[s]) /\ app[s] = chosen[s][2]
      BY <1>2
    <3> QED
      BY <3>2, <3>3, PickIsRight
  <2> HIDE DEF app
  <2>2. Range(app) \subseteq DOMAIN content /\ DOMAIN app = S
    BY <1>1, <2>1 DEF Range, app
  <2>3. /\ Closure(Range(app)) \subseteq DOMAIN content
        /\ \A h \in Closure(Range(app)) : Range(h.imports) \subseteq Closure(Range(app))
    BY <2>2, ClosureIsClosed
  <2>4. lock = whole
    BY <1>1, <1>3, <2>1, <2>3
  <2>5. lock.error = "" /\ lock.app_imports = app /\ lock.packages = packages
    BY <2>4
  <2>6. ASSUME NEW p \in packages
        PROVE  /\ \A h \in Range(p.hash.imports) :
                    /\ \E q \in packages : q.hash = h
                    /\ content[h] \subseteq content[p.hash]
               /\ p.private \/ \E s \in S : ver[p.label] = app[s]
    <3>1. PICK k \in Closure(Range(app)) :
             p = [label |-> lbl[k][1], hash |-> k, private |-> k \notin Range(app)]
      OBVIOUS
    <3>2. p.hash = k /\ p.label = lbl[k][1] /\ (p.private <=> k \notin Range(app))
      BY <3>1
    <3>3. k \in DOMAIN content /\ Range(k.imports) \subseteq Closure(Range(app))
      BY <2>3
    <3>4. \A h \in Range(k.imports) : content[h] \subseteq content[k]
      BY <3>3 DEF RowsInv, Counted
    <3>5. ASSUME NEW h \in Closure(Range(app)) PROVE \E q \in packages : q.hash = h
      <4> DEFINE q == [label |-> lbl[h][1], hash |-> h, private |-> h \notin Range(app)]
      <4>1. q \in packages /\ q.hash = h
        OBVIOUS
      <4> QED
        BY <4>1
    <3>6. k \in Range(app) => \E s \in S : ver[p.label] = app[s]
      <4>1. ver[lbl[k][1]] = k
        BY <3>3 DEF RowsInv, Named
      <4> QED
        BY <2>2, <3>2, <4>1 DEF Range
    <3> HIDE DEF packages
    <3> QED
      BY <3>2, <3>3, <3>4, <3>5, <3>6
  <2> HIDE DEF packages, whole
  <2>7. lock.error # "unresolved" /\ lock.error # "missing"
    BY <2>5
  <2>8. \A s \in DOMAIN deps : \E v \in Fitting(s, deps[s]) :
           /\ ver[<<s, v>>] = lock.app_imports[s]
           /\ \A w \in Fitting(s, deps[s]) : ~Before3(v.n, w.n)
    BY <1>1, <2>1, <2>5
  <2>9. \A p \in lock.packages :
           /\ \A h \in Range(p.hash.imports) :
                /\ \E q \in lock.packages : q.hash = h
                /\ content[h] \subseteq content[p.hash]
           /\ p.private \/ \E s \in DOMAIN deps : ver[p.label] = lock.app_imports[s]
    BY <1>1, <2>5, <2>6
  <2> QED
    BY <1>1, <1>5, <2>7, <2>8, <2>9 DEF LockIsRight, Fitting, lock
<1> QED
  BY <1>4, <1>5

(* A lock resolved for any dependencies is whole and right, whatever was   *)
(* published and in which order, if every caret range names a part above   *)
(* zero or all three (pickVersion, satisfies, resolveGraph, publish).      *)
THEOREM LocksAreAlwaysRight ==
  ASSUME CaretsAreNamed PROVE RegistrySpec => []LocksAreRight
<1>1. RegistryInit => RowsInv
  BY RowsStart
<1>2. RowsInv /\ [RegistryNext]_registryVars => RowsInv'
  BY RowsKeep
<1>3. RowsInv => LocksAreRight
  BY LocksConclude
<1> QED
  BY <1>1, <1>2, <1>3, PTL DEF RegistrySpec

-----------------------------------------------------------------------------
(* Channel.  Sources are numbered as they were opened, and each counts its *)
(* listeners by type; the one in use is among them.                        *)

States == {"connecting", "open", "closed"}
Source == [state : States, wired : [AllTypes -> Nat], retry : BOOLEAN]

SourcesKnown ==
    /\ \E n \in Nat : sources \in [1 .. n -> Source]
    /\ current # 0 => current \in DOMAIN sources
    /\ handlers \subseteq AllTypes

ChannelInv == SourcesKnown /\ HandlersHear

LEMMA ChannelStart == ChannelInit => ChannelInv
  BY DEF ChannelInit, ChannelInv, SourcesKnown, HandlersHear

(* _connect wires the new source for every handler and for the sentinel.   *)
LEMMA MintWires ==
  ASSUME ChannelInv, NEW who \in {"first", "again"}, TokenMint(who)
  PROVE  ChannelInv'
<1>1. PICK n \in Nat : sources \in [1 .. n -> Source]
  BY DEF ChannelInv, SourcesKnown
<1>2. Count = n
  BY <1>1, FS_Interval DEF Count
<1>3. \A t \in AllTypes : Wired(t) \in Nat /\ (t \in handlers \cup {Resync} => Wired(t) > 0)
  <2>1. IsFiniteSet(handlers \cap {Resync}) /\ Cardinality(handlers \cap {Resync}) \in Nat
    BY FS_Singleton, FS_Intersection, FS_CardinalityType
  <2> HIDE DEF Resync
  <2> QED
    BY <2>1 DEF Wired, Wiring
<1> DEFINE opened == [state |-> "connecting", wired |-> [t \in AllTypes |-> Wired(t)],
                      retry |-> who = "again"]
<1>4. opened \in Source
  BY <1>3 DEF Source, States
<1>5. /\ sources' = [id \in 1 .. n + 1 |-> IF id \in 1 .. n THEN sources[id] ELSE opened]
      /\ current' = n + 1 /\ handlers' = handlers
  BY <1>1, <1>2 DEF TokenMint
<1>6. \A t \in AllTypes : opened.wired[t] = Wired(t)
  OBVIOUS
<1>7. sources'[n + 1] = opened
  BY <1>5
<1> HIDE DEF opened
<1>8. SourcesKnown'
  BY <1>1, <1>4, <1>5 DEF ChannelInv, SourcesKnown
<1>9. \A t \in handlers \cup {Resync} : t \in AllTypes
  BY DEF ChannelInv, SourcesKnown, AllTypes
<1> QED
  BY <1>3, <1>5, <1>6, <1>7, <1>8, <1>9 DEF ChannelInv, HandlersHear

(* A change of state of one source takes no listener away.                 *)
LEMMA SameListeners ==
  ASSUME ChannelInv, NEW id \in DOMAIN sources, NEW s \in States, NEW r \in BOOLEAN,
         \/ sources' = [sources EXCEPT ![id].state = s]
         \/ sources' = [sources EXCEPT ![id].state = s, ![id].retry = r],
         current' \in {current, 0}, handlers' = handlers
  PROVE  ChannelInv'
<1>1. PICK n \in Nat : sources \in [1 .. n -> Source]
  BY DEF ChannelInv, SourcesKnown
<1> DEFINE src == sources[id]
<1>2. src \in Source /\ id \in 1 .. n
  BY <1>1
<1>3. PICK changed \in Source : changed.wired = src.wired /\ sources' = [sources EXCEPT ![id] = changed]
  <2>1. CASE sources' = [sources EXCEPT ![id].state = s]
    <3>1. [src EXCEPT !.state = s] \in Source
      BY <1>2 DEF Source
    <3>2. [src EXCEPT !.state = s].wired = src.wired
      BY <1>2 DEF Source
    <3> QED
      BY <2>1, <3>1, <3>2
  <2>2. CASE sources' = [sources EXCEPT ![id].state = s, ![id].retry = r]
    <3>1. [src EXCEPT !.state = s, !.retry = r] \in Source
      BY <1>2 DEF Source
    <3>2. [src EXCEPT !.state = s, !.retry = r].wired = src.wired
      BY <1>2 DEF Source
    <3>3. sources' = [sources EXCEPT ![id] = [src EXCEPT !.state = s, !.retry = r]]
      BY <1>1, <1>2, <2>2
    <3> QED
      BY <3>1, <3>2, <3>3
  <2> QED
    BY <2>1, <2>2
<1> HIDE DEF src
<1>4. sources' \in [1 .. n -> Source] /\ \A x \in 1 .. n : sources'[x].wired = sources[x].wired
  BY <1>1, <1>2, <1>3 DEF src
<1>5. SourcesKnown'
  BY <1>1, <1>4 DEF ChannelInv, SourcesKnown
<1> QED
  BY <1>1, <1>4, <1>5 DEF ChannelInv, SourcesKnown, HandlersHear

(* on() and waitFor() listen at once where there is a source; where there  *)
(* is none, the source to come will.                                       *)
LEMMA WiresOne ==
  ASSUME ChannelInv, NEW t \in AllTypes, sources' = WireNow(t),
         handlers' = handlers \cup {t}, current' = current
  PROVE  ChannelInv'
<1>1. CASE current = 0
  BY <1>1 DEF WireNow, ChannelInv, SourcesKnown, HandlersHear
<1>2. CASE current # 0
  <2>1. PICK n \in Nat : sources \in [1 .. n -> Source]
    BY DEF ChannelInv, SourcesKnown
  <2>2. current \in 1 .. n
    BY <1>2, <2>1 DEF ChannelInv, SourcesKnown
  <2>3. sources' = [sources EXCEPT ![current].wired[t] = @ + 1]
    BY <1>2 DEF WireNow
  <2>4. sources[current].wired \in [AllTypes -> Nat]
    BY <2>1, <2>2 DEF Source
  <2>5. /\ sources' \in [1 .. n -> Source]
        /\ sources'[current].wired = [sources[current].wired EXCEPT ![t] = @ + 1]
    <3> DEFINE src == sources[current]
               more == [src.wired EXCEPT ![t] = @ + 1]
    <3>1. src \in Source
      BY <2>1, <2>2
    <3>2. more \in [AllTypes -> Nat]
      BY <2>4
    <3> HIDE DEF more
    <3>3. [src EXCEPT !.wired = more] \in Source /\ [src EXCEPT !.wired = more].wired = more
      BY <3>1, <3>2 DEF Source
    <3>4. sources' = [sources EXCEPT ![current] = [src EXCEPT !.wired = more]]
      BY <2>3 DEF more
    <3> QED
      BY <2>1, <2>2, <3>3, <3>4 DEF more
  <2>6. SourcesKnown'
    BY <2>1, <2>2, <2>5 DEF ChannelInv, SourcesKnown
  <2>7. \A u \in handlers \cup {Resync} : u \in AllTypes
    BY DEF ChannelInv, SourcesKnown, AllTypes
  <2>8. \A u \in AllTypes : sources'[current].wired[u] \in {sources[current].wired[u],
                                                           sources[current].wired[u] + 1}
    BY <2>4, <2>5
  <2>9. sources'[current].wired[t] = sources[current].wired[t] + 1
    BY <2>4, <2>5
  <2> QED
    BY <1>2, <2>4, <2>6, <2>7, <2>8, <2>9 DEF ChannelInv, HandlersHear
<1> QED
  BY <1>1, <1>2

LEMMA ChannelKeeps == ChannelInv /\ [ChannelNext]_channelVars => ChannelInv'
<1> SUFFICES ASSUME ChannelInv, [ChannelNext]_channelVars
             PROVE  ChannelInv'
  OBVIOUS
<1> DEFINE Same == /\ sources' = sources /\ handlers' = handlers /\ current' \in {current, 0}
<1>1. ASSUME Same PROVE ChannelInv'
  BY <1>1 DEF ChannelInv, SourcesKnown, HandlersHear
<1>2. ASSUME sources' = Close(current), current' = 0, handlers' = handlers PROVE ChannelInv'
  BY <1>1, <1>2, SameListeners DEF Close, States, ChannelInv, SourcesKnown
<1>3. CASE Subscribe
  BY <1>1, <1>3 DEF Subscribe
<1>4. CASE \E who \in {"first", "again"} : TokenMint(who)
  BY <1>4, MintWires
<1>5. CASE \E who \in {"first", "again"} : MintFails(who)
  BY <1>1, <1>5 DEF MintFails
<1>6. CASE \E id \in DOMAIN sources : SourceOpens(id)
  BY <1>6, SameListeners DEF SourceOpens, States
<1>7. CASE \E id \in DOMAIN sources, refused \in BOOLEAN : SourceFails(id, refused)
  BY <1>7, SameListeners DEF SourceFails, States
<1>8. CASE \E which \in {"reconnect", "refresh"} : TimerFires(which)
  BY <1>1, <1>2, <1>8 DEF TimerFires
<1>9. CASE \E t \in AllTypes : On(t)
  BY <1>9, WiresOne DEF On
<1>10. CASE \E t \in AllTypes : WaitFor(t)
  BY <1>1, <1>10, WiresOne DEF WaitFor
<1>11. CASE \E t \in AllTypes : WaitEnds(t) \/ Arrives(t)
  BY <1>1, <1>11 DEF WaitEnds, Arrives
<1>12. CASE CloseClient
  BY <1>2, <1>12 DEF CloseClient
<1>13. CASE UNCHANGED channelVars
  BY <1>1, <1>13 DEF channelVars
<1> QED
  BY <1>3, <1>4, <1>5, <1>6, <1>7, <1>8, <1>9, <1>10, <1>11, <1>12, <1>13 DEF ChannelNext

(* Through failures, refreshes and reconnects, the source in use listens   *)
(* for every type a handler was given for.                                 *)
THEOREM HandlersAlwaysHear == ChannelSpec => []HandlersHear
<1>1. ChannelInv => HandlersHear
  BY DEF ChannelInv
<1> QED
  BY <1>1, ChannelStart, ChannelKeeps, PTL DEF ChannelSpec

------------------------------------------------------------------------------
(* Agent.  One thing at a time is on its way between page and handler: a    *)
(* frame, a call of the model, a replay log, a prompt or a screenshot.  So  *)
(* whoever holds it finds the ctx of its own turn: the elements the model   *)
(* was shown, or the action the user was asked about.  A socket that drops  *)
(* takes it along, except from a prompt that does not block the page and    *)
(* from a screenshot being taken.                                           *)

(* Sockets drop only on agents that leave neither behind.                   *)
LeavesNothing ==
    \A o \in Options : /\ o.drops \in Nat /\ o.ownConfirm \in BOOLEAN
                       /\ o.drops = 0 \/ ~(o.ownConfirm \/ o.screenshots)

Refs == Elements \cup {"none"}
Actions == [id : Nat, ref : Refs]
CtxType == [pending : BOOLEAN, replay : BOOLEAN, asked : Actions, refs : SUBSET Elements,
            turn : {"none", "plain", "result"}]
Views == [shows : SUBSET Elements, warns : SUBSET Elements]
Leading == [t : {"hello", "result"}, id : Nat, ok : BOOLEAN, view : Views]
Snapshots == [t : {"snapshot"}, id : Nat, ok : BOOLEAN, view : Views]
Lone == [t : {"screenshot", "confirm_result"}, id : Nat, ok : BOOLEAN, view : Views]
Acts == [t : {"snapshot", "click", "screenshot", "confirm"}, id : Nat, ref : Refs]
Calls == [id : Nat, shows : SUBSET Elements]

AgentType ==
    /\ option \in Options /\ drops \in Nat /\ turns \in Nat
    /\ link \in {"off", "minting", "open", "waiting"} /\ page \subseteq Elements
    /\ danger \subseteq Elements /\ risky \subseteq Nat
    /\ closed \in BOOLEAN /\ capturing \in BOOLEAN /\ replaying \in BOOLEAN
    /\ calls \subseteq Calls /\ prompts \subseteq Actions /\ ctx \in CtxType
    /\ shown \in Views
    /\ \/ up = <<>> \/ (\E f \in Snapshots : up = <<f>>) \/ (\E f \in Lone : up = <<f>>)
       \/ \E f \in Leading, g \in Snapshots : up = <<f, g>>
    /\ down = <<>> \/ \E d \in Acts : down = <<d>>

OneAtATime ==
    /\ up # <<>> => down = <<>> /\ calls = {} /\ ~replaying /\ prompts = {} /\ ~capturing
    /\ down # <<>> => calls = {} /\ ~replaying /\ prompts = {} /\ ~capturing
    /\ calls # {} => ~replaying /\ prompts = {} /\ ~capturing
    /\ replaying => prompts = {} /\ ~capturing
    /\ capturing => prompts = {}
    /\ \A a, b \in calls : a = b
    /\ \A a, b \in prompts : a = b

(* Nothing of an earlier socket is there when the next one opens.           *)
Severed ==
    /\ link # "open" => up = <<>> /\ down = <<>> /\ calls = {} /\ ~replaying
    /\ capturing => option.screenshots
    /\ option.drops = 0 /\ (link \in {"minting", "waiting"} \/ (link = "off" /\ ~closed)) =>
          prompts = {} /\ ~capturing

(* The ctx is that of the turn under way.                                   *)
InCtx ==
    /\ ctx.replay => shown.warns \subseteq ctx.refs
    /\ replaying => ctx.replay
    /\ \A c \in calls : c.shows = shown.shows /\ shown.warns \subseteq ctx.refs
    /\ \A p \in prompts : link = "open" => ctx.asked = p
    /\ \A d \in Acts : down = <<d>> =>
          /\ d.t = "confirm" => ctx.asked = [id |-> d.id, ref |-> d.ref]
          /\ d.t = "screenshot" => option.screenshots
          /\ d.t = "click" /\ d.id \in risky => d.id \in approved
    /\ \A f \in Lone : up = <<f>> /\ f.t = "confirm_result" /\ f.ok /\ ctx.asked # NoAction =>
          ctx.asked.id \in approved

(* A call of the model is younger than every action there is.               *)
Younger ==
    /\ \A c \in clicked : c.id <= turns
    /\ \A d \in Acts : down = <<d>> => d.id <= turns
    /\ ctx.asked.id <= turns
    /\ \A i \in risky : i <= turns
    /\ \A c \in calls : /\ c.id <= turns
                        /\ \A d \in clicked : d.id < c.id
                        /\ \A i \in risky : i < c.id

AgentInv ==
    /\ AgentType /\ clicked \subseteq Actions
    /\ OneAtATime /\ Severed /\ InCtx /\ Younger /\ ConfirmedFirst

(* Frames leave in the order they were sent.                                *)
LEMMA Frames ==
  ASSUME NEW f, NEW g
  PROVE  /\ <<f>> # <<>> /\ Head(<<f>>) = f /\ Tail(<<f>>) = <<>>
         /\ <<f, g>> # <<>> /\ Head(<<f, g>>) = f /\ Tail(<<f, g>>) = <<g>>
         /\ <<>> \o <<f>> = <<f>> /\ <<>> \o <<f, g>> = <<f, g>> /\ Append(<<>>, f) = <<f>>
         /\ <<f>> # <<f, g>>
<1>1. <<f>> # <<>> /\ Head(<<f>>) = f /\ Tail(<<f>>) = <<>>
  OBVIOUS
<1>2. <<f, g>> # <<>> /\ Head(<<f, g>>) = f /\ Tail(<<f, g>>) = <<g>>
  OBVIOUS
<1>3. <<>> \o <<f>> = <<f>> /\ <<>> \o <<f, g>> = <<f, g>> /\ Append(<<>>, f) = <<f>>
  OBVIOUS
<1>4. <<f>> # <<f, g>>
  <2>1. Len(<<f>>) = 1 /\ Len(<<f, g>>) = 2
    OBVIOUS
  <2> QED
    BY <2>1
<1> QED
  BY <1>1, <1>2, <1>3, <1>4

LEMMA FrameTypes ==
  ASSUME AgentType
  PROVE  /\ Frame("hello") \in Leading /\ Frame("result") \in Leading
         /\ Snapshot \in Snapshots /\ Frame("screenshot") \in Lone
         /\ \A i \in Nat, b \in BOOLEAN :
              /\ [Frame("confirm_result") EXCEPT !.id = i, !.ok = b] \in Lone
              /\ [Frame("confirm_result") EXCEPT !.id = i, !.ok = b].ok = b
         /\ NoCtx \in CtxType
<1>0. NoView \in Views /\ [shows |-> page, warns |-> page \cap danger] \in Views
  BY DEF AgentType, NoView, Views
<1>1. Frame("hello") \in Leading /\ Frame("result") \in Leading /\ Frame("screenshot") \in Lone
  BY <1>0 DEF Frame, Leading, Lone
<1>2. Snapshot \in Snapshots
  BY <1>0 DEF Frame, Snapshots, Snapshot
<1>3. NoCtx \in CtxType
  BY DEF NoCtx, CtxType, NoAction, Actions, Refs
<1>4. ASSUME NEW i \in Nat, NEW b \in BOOLEAN
      PROVE  /\ [Frame("confirm_result") EXCEPT !.id = i, !.ok = b] \in Lone
             /\ [Frame("confirm_result") EXCEPT !.id = i, !.ok = b].ok = b
  BY <1>0 DEF Frame, Lone
<1> QED
  BY <1>1, <1>2, <1>3, <1>4

LEMMA AgentInitInv == ASSUME AgentInit, LeavesNothing PROVE AgentInv
<1>1. AgentType /\ clicked \subseteq Actions
  BY DangerAssumption DEF AgentInit, AgentType, NoCtx, CtxType, NoAction, Actions, Refs, NoView, Views
<1>2. OneAtATime /\ Severed /\ ConfirmedFirst
  BY DEF AgentInit, OneAtATime, Severed, ConfirmedFirst
<1>3. InCtx /\ Younger
  BY Frames DEF AgentInit, InCtx, Younger, NoCtx, NoAction
<1> QED
  BY <1>1, <1>2, <1>3 DEF AgentInv

(* A socket opens on a page that nothing is left of.                        *)
LEMMA OpensFresh ==
  ASSUME AgentInv, LeavesNothing, Free, link # "open",
         link \in {"minting", "waiting"} \/ (link = "off" /\ ~closed)
  PROVE  prompts = {} /\ ~capturing /\ up = <<>> /\ down = <<>> /\ calls = {} /\ ~replaying
  BY DEF AgentInv, Severed, LeavesNothing, Free, AgentType

LEMMA ConnectStep ==
  ASSUME AgentInv, LeavesNothing, Connect \/ TokenMinted, UNCHANGED option PROVE AgentInv'
<1>1. prompts = {} /\ ~capturing /\ up = <<>> /\ down = <<>> /\ calls = {} /\ ~replaying
  BY OpensFresh DEF Connect, TokenMinted, AgentInv, AgentType
<1>2. prompts' = {} /\ ~capturing' /\ down' = <<>> /\ calls' = {} /\ ~replaying' /\ capturing' = capturing
      /\ UNCHANGED <<option, page, danger, closed, prompts, drops, approved, clicked, ctx, turns, shown, risky>>
      /\ replaying' = FALSE
  BY <1>1 DEF Connect, TokenMinted, Released, brainVars, AgentInv, AgentType
<1>3. \/ link' = "minting" /\ up' = <<>>
      \/ link' = "open" /\ up' = <<Frame("hello"), Snapshot>>
  BY <1>1 DEF Connect, TokenMinted
<1>4. \A f \in Lone : up' # <<f>>
  BY <1>3, Frames
<1>5. AgentType'
  BY <1>2, <1>3, FrameTypes DEF AgentInv, AgentType
<1>6. OneAtATime' /\ Severed'
  BY <1>2, <1>3 DEF AgentInv, OneAtATime, Severed
<1>7. InCtx' /\ Younger' /\ ConfirmedFirst' /\ (clicked \subseteq Actions)'
  BY <1>2, <1>4, Frames DEF AgentInv, InCtx, Younger, ConfirmedFirst
<1> QED
  BY <1>5, <1>6, <1>7 DEF AgentInv

LEMMA CloseStep ==
  ASSUME AgentInv, LeavesNothing, SocketDrops \/ Stop, UNCHANGED option PROVE AgentInv'
<1>1. /\ down' = <<>> /\ up' = <<>> /\ calls' = {} /\ replaying' = FALSE
      /\ UNCHANGED <<option, page, danger, prompts, capturing, approved, clicked, ctx, turns, shown, risky>>
  BY DEF SocketDrops, Stop, Released
<1>2. AgentType'
  <2>1. /\ drops' \in Nat /\ closed' \in BOOLEAN /\ link' \in {"off", "minting", "open", "waiting"}
        /\ capturing \in BOOLEAN
    <3>1. CASE SocketDrops
      BY <3>1 DEF SocketDrops, AgentInv, AgentType
    <3>2. CASE Stop
      BY <3>2 DEF Stop, AgentInv, AgentType
    <3> QED
      BY <3>1, <3>2
  <2> QED
    BY <1>1, <2>1 DEF AgentInv, AgentType
<1>3. OneAtATime' /\ ConfirmedFirst' /\ (clicked \subseteq Actions)'
  BY <1>1 DEF AgentInv, OneAtATime, ConfirmedFirst
<1>4. InCtx' /\ Younger'
  <2>1. link' # "open"
    BY DEF SocketDrops, Stop, AgentInv, AgentType
  <2> QED
    BY <1>1, <2>1, Frames DEF AgentInv, InCtx, Younger
<1>5. Severed'
  BY <1>1 DEF SocketDrops, Stop, AgentInv, AgentType, Severed
<1> QED
  BY <1>2, <1>3, <1>4, <1>5 DEF AgentInv

(* The page takes the one frame there is.                                   *)
LEMMA OnFrameStep == ASSUME AgentInv, OnFrame, UNCHANGED option PROVE AgentInv'
<1>1. PICK msg \in Acts : down = <<msg>>
  BY DEF OnFrame, AgentInv, AgentType
<1>2. /\ link = "open" /\ down' = <<>> /\ Head(down) = msg /\ up = <<>>
      /\ calls = {} /\ ~replaying /\ prompts = {} /\ ~capturing
      /\ UNCHANGED <<option, page, danger, link, closed, drops, approved, held, calls, replaying, ctx, turns, shown, risky>>
  BY <1>1, Frames DEF OnFrame, brainVars, AgentInv, OneAtATime
<1>3. /\ msg.t = "confirm" => ctx.asked = [id |-> msg.id, ref |-> msg.ref]
      /\ msg.t = "screenshot" => option.screenshots
      /\ msg.t = "click" /\ msg.id \in risky => msg.id \in approved
      /\ msg.id <= turns /\ [id |-> msg.id, ref |-> msg.ref] \in Actions
  BY <1>1 DEF AgentInv, InCtx, Younger, Acts, Actions
<1>4. \/ /\ msg.t \in {"snapshot", "click"}
         /\ up' = <<Frame("result"), Snapshot>> /\ UNCHANGED <<prompts, capturing>>
      \/ /\ msg.t = "screenshot"
         /\ capturing' = TRUE /\ UNCHANGED <<prompts, up>>
      \/ /\ msg.t = "confirm"
         /\ prompts' = {[id |-> msg.id, ref |-> msg.ref]} /\ UNCHANGED <<capturing, up>>
  <2>1. <<>> \o <<Frame("result"), Snapshot>> = <<Frame("result"), Snapshot>>
    BY Frames
  <2> QED
    BY <1>2, <2>1 DEF OnFrame, Sends
<1>5. clicked' = clicked \/ (msg.t = "click" /\ clicked' = clicked \cup {[id |-> msg.id, ref |-> msg.ref]})
  BY <1>2 DEF OnFrame
<1>6. AgentType'
  <2>1. up' \in {<<>>, <<Frame("result"), Snapshot>>}
    BY <1>2, <1>4
  <2>2. /\ capturing' \in BOOLEAN /\ prompts' \subseteq Actions
    <3>1. [id |-> msg.id, ref |-> msg.ref] \in Actions
      BY DEF Acts, Actions
    <3>2. capturing \in BOOLEAN /\ prompts \subseteq Actions
      BY DEF AgentInv, AgentType
    <3> QED
      BY <1>2, <1>4, <3>1, <3>2
  <2> QED
    BY <1>2, <2>1, <2>2, FrameTypes DEF AgentInv, AgentType
<1>7. OneAtATime' /\ Severed'
  <2>1. OneAtATime'
    BY <1>2, <1>4, Frames DEF AgentInv, OneAtATime
  <2>2. Severed'
    BY <1>2, <1>3, <1>4 DEF AgentInv, Severed
  <2> QED
    BY <2>1, <2>2
<1>8. InCtx'
  <2>1. \A f \in Lone : up' # <<f>>
    BY <1>2, <1>4, Frames
  <2>2. \A p \in prompts' : ctx.asked = p
    BY <1>2, <1>3, <1>4
  <2> QED
    BY <1>2, <2>1, <2>2, Frames DEF AgentInv, InCtx
<1>9. ConfirmedFirst' /\ (clicked \subseteq Actions)'
  BY <1>2, <1>3, <1>5 DEF AgentInv, ConfirmedFirst
<1>10. Younger'
  BY <1>2, <1>3, <1>5, Frames DEF AgentInv, Younger
<1> QED
  BY <1>6, <1>7, <1>8, <1>9, <1>10 DEF AgentInv

LEMMA CapturedStep == ASSUME AgentInv, Captured, UNCHANGED option PROVE AgentInv'
<1>1. /\ capturing' = FALSE /\ up = <<>> /\ down = <<>> /\ calls = {} /\ ~replaying /\ prompts = {}
      /\ UNCHANGED <<option, page, danger, link, closed, prompts, drops, approved, clicked, down, held, calls, replaying, ctx,
                     turns, shown, risky>>
  BY DEF Captured, brainVars, AgentInv, OneAtATime
<1>2. up' = IF link = "open" THEN <<Frame("screenshot")>> ELSE <<>>
  BY <1>1, Frames DEF Captured, Sends
<1>3. AgentType'
  BY <1>1, <1>2, FrameTypes DEF AgentInv, AgentType
<1>4. OneAtATime' /\ Severed' /\ Younger' /\ ConfirmedFirst' /\ (clicked \subseteq Actions)'
  BY <1>1, <1>2 DEF AgentInv, OneAtATime, Severed, Younger, ConfirmedFirst
<1>5. InCtx'
  <2>1. Frame("screenshot").t = "screenshot"
    BY DEF Frame
  <2>2. \A f \in Lone : up' = <<f>> => f = Frame("screenshot")
    BY <1>2, Frames
  <2> QED
    BY <1>1, <2>1, <2>2 DEF AgentInv, InCtx
<1> QED
  BY <1>3, <1>4, <1>5 DEF AgentInv

LEMMA UserAnswersStep ==
  ASSUME AgentInv, NEW prompt \in prompts, NEW yes \in BOOLEAN, UserAnswers(prompt, yes), UNCHANGED option
  PROVE  AgentInv'
<1> DEFINE answer == [Frame("confirm_result") EXCEPT !.id = prompt.id, !.ok = yes]
<1>1. /\ up = <<>> /\ down = <<>> /\ calls = {} /\ ~replaying /\ ~capturing
      /\ prompts' = {} /\ approved' = IF yes THEN approved \cup {prompt.id} ELSE approved
      /\ UNCHANGED <<option, page, danger, link, closed, capturing, drops, clicked, down, held, calls, replaying, ctx,
                     turns, shown, risky>>
  BY DEF UserAnswers, brainVars, AgentInv, OneAtATime, AgentType
<1>2. prompt \in Actions /\ answer \in Lone /\ answer.ok = yes
  BY FrameTypes DEF AgentInv, AgentType, Actions
<1>3. up' = IF link = "open" THEN <<answer>> ELSE <<>>
  BY <1>1, Frames DEF UserAnswers, Sends
<1> HIDE DEF answer
<1>4. AgentType'
  BY <1>1, <1>2, <1>3 DEF AgentInv, AgentType
<1>5. OneAtATime' /\ Severed' /\ Younger' /\ ConfirmedFirst' /\ (clicked \subseteq Actions)'
  BY <1>1, <1>3 DEF AgentInv, OneAtATime, Severed, Younger, ConfirmedFirst
<1>6. InCtx'
  <2>1. \A f \in Lone : up' = <<f>> => f = answer /\ link = "open"
    BY <1>3, Frames
  <2>2. link = "open" => ctx.asked = prompt
    BY DEF AgentInv, InCtx
  <2>3. \A f \in Lone : up' = <<f>> /\ f.ok => ctx.asked.id \in approved'
    BY <1>1, <1>2, <2>1, <2>2
  <2> QED
    BY <1>1, <2>3, Frames DEF AgentInv, InCtx
<1> QED
  BY <1>4, <1>5, <1>6 DEF AgentInv

(* A handler that answers leaves one frame, or one call.                    *)
LEMMA ActsStep ==
  ASSUME AgentInv, NEW t \in {"snapshot", "click", "screenshot", "confirm"}, NEW i \in Nat, NEW r \in Refs,
         link = "open", down = <<>>, prompts = {}, ~capturing,
         down' = <<[t |-> t, id |-> i, ref |-> r]>>, up' = <<>>, calls' = {}, replaying' = FALSE,
         ctx' \in CtxType, ctx'.replay => shown.warns \subseteq ctx'.refs,
         ctx'.asked \in {NoAction, [id |-> i, ref |-> r]}, i <= turns,
         risky' = risky \/ (risky' = risky \cup {i} /\ \A c \in clicked : c.id < i),
         t = "confirm" => ctx'.asked = [id |-> i, ref |-> r],
         t = "screenshot" => option.screenshots,
         t = "click" /\ i \in risky' => i \in approved,
         UNCHANGED <<option, pageVars, turns, shown>>
  PROVE  AgentInv'
<1> DEFINE d == [t |-> t, id |-> i, ref |-> r]
<1>1. d \in Acts
  BY DEF Acts
<1>2. UNCHANGED <<option, page, danger, link, closed, prompts, capturing, drops, approved, clicked, turns, shown>>
  BY DEF pageVars
<1>3. AgentType' /\ (clicked \subseteq Actions)'
  BY <1>1, <1>2 DEF AgentInv, AgentType
<1>4. OneAtATime' /\ Severed'
  BY <1>2 DEF AgentInv, OneAtATime, Severed
<1>6. ConfirmedFirst'
  <2>1. \A c \in clicked : c.id \in risky' => c.id \in risky
    BY DEF AgentInv, Actions
  <2> QED
    BY <1>2, <2>1 DEF AgentInv, ConfirmedFirst
<1>7. Younger'
  <2>1. \A e \in Acts : down' = <<e>> => e.id = i
    BY Frames
  <2>2. ctx'.asked.id <= turns
    BY DEF NoAction, AgentInv, AgentType
  <2> QED
    BY <1>2, <2>1, <2>2 DEF AgentInv, Younger
<1>5. InCtx'
  <2>1. \A e \in Acts : down' = <<e>> => e.t = t /\ e.id = i /\ e.ref = r
    BY Frames
  <2> QED
    BY <1>2, <2>1, Frames DEF InCtx
<1> QED
  BY <1>3, <1>4, <1>5, <1>6, <1>7 DEF AgentInv

LEMMA CallStep ==
  ASSUME AgentInv, link = "open", down' = <<>>, prompts = {}, ~capturing, calls = {}, up' = <<>>,
         replaying' = FALSE,
         NEW turn \in {"plain", "result"}, NEW refs \in SUBSET Elements,
         NEW view \in Views, view.warns \subseteq refs,
         CallLLM(turn, refs, view), UNCHANGED <<option, pageVars, risky>>
  PROVE  AgentInv'
<1> DEFINE c == [id |-> turns + 1, shows |-> view.shows]
<1>1. /\ turns' = turns + 1 /\ calls' = {c} /\ shown' = view
      /\ ctx' = [NoCtx EXCEPT !.turn = turn, !.refs = refs]
      /\ UNCHANGED <<option, page, danger, link, closed, prompts, capturing, drops, approved, clicked, risky>>
  BY DEF CallLLM, pageVars
<1>2. c \in Calls /\ turns' \in Nat
  BY <1>1 DEF Calls, Views, AgentInv, AgentType
<1>3. ctx' \in CtxType /\ ctx'.refs = refs /\ ctx'.replay = FALSE /\ ctx'.asked = NoAction
  BY <1>1, FrameTypes DEF AgentInv, NoCtx, CtxType, NoAction, Actions, Refs
<1>4. AgentType' /\ (clicked \subseteq Actions)'
  BY <1>1, <1>2, <1>3 DEF AgentInv, AgentType
<1>5. OneAtATime' /\ Severed' /\ ConfirmedFirst'
  BY <1>1 DEF AgentInv, OneAtATime, Severed, ConfirmedFirst
<1>6. InCtx'
  BY <1>1, <1>3, Frames DEF InCtx
<1>7. Younger'
  <2>1. \A d \in clicked : d.id \in Nat /\ d.id <= turns /\ turns \in Nat
    BY DEF AgentInv, AgentType, Actions, Younger
  <2>2. \A i \in risky : i \in Nat /\ i <= turns
    BY DEF AgentInv, AgentType, Younger
  <2>3. \A d \in clicked : d.id <= turns + 1 /\ d.id < c.id
    BY <2>1
  <2>4. turns \in Nat /\ c.id = turns + 1
    BY DEF AgentInv, AgentType
  <2>5. \A i \in risky : i <= turns + 1 /\ i < c.id
    BY <2>2, <2>4
  <2>6. 0 <= turns + 1 /\ c.id <= turns + 1
    BY <2>4
  <2>7. ctx'.asked.id = 0
    BY <1>3 DEF NoAction
  <2>8. \A d \in Acts : down' # <<d>>
    BY Frames
  <2> HIDE DEF c
  <2> QED
    BY <1>1, <2>3, <2>5, <2>6, <2>7, <2>8 DEF Younger
<1> QED
  BY <1>4, <1>5, <1>6, <1>7 DEF AgentInv

(* The handler takes a frame, of which there is one, or a pair.             *)
LEMMA OnMessageStep == ASSUME AgentInv, OnMessage, UNCHANGED option PROVE AgentInv'
<1>1. /\ link = "open" /\ down = <<>> /\ calls = {} /\ ~replaying /\ prompts = {} /\ ~capturing
      /\ UNCHANGED <<option, page, danger, link, closed, prompts, capturing, drops, approved, clicked, pageVars>>
      /\ replaying = FALSE /\ (clicked \subseteq Actions)'
  BY DEF OnMessage, pageVars, AgentInv, OneAtATime, Severed, AgentType
<1>2. CASE \E f \in Leading, g \in Snapshots : up = <<f, g>>
  <2>1. PICK f \in Leading, g \in Snapshots : up = <<f, g>>
    BY <1>2
  <2>2. Head(up) = f /\ up' = <<g>> /\ f.t \in {"hello", "result"}
    BY <2>1, Frames DEF OnMessage, Leading
  <2>3. UNCHANGED <<calls, replaying, turns, shown, risky, down>> /\ (ctx' = ctx \/ ctx' = NoCtx)
    BY <2>2 DEF OnMessage, Hello, brainVars
  <2>4. AgentType'
    BY <1>1, <2>2, <2>3, FrameTypes DEF AgentInv, AgentType
  <2>5. OneAtATime' /\ Severed' /\ Younger' /\ ConfirmedFirst'
    BY <1>1, <2>3 DEF AgentInv, OneAtATime, Severed, Younger, ConfirmedFirst, NoCtx, NoAction, AgentType
  <2>6. InCtx'
    <3>1. \A e \in Lone : up' # <<e>>
      BY <2>2, Frames DEF Lone, Snapshots
    <3>2. NoCtx.replay = FALSE
      BY DEF NoCtx
    <3> QED
      BY <1>1, <2>3, <3>1, <3>2, Frames DEF AgentInv, InCtx
  <2> QED
    BY <1>1, <2>4, <2>5, <2>6 DEF AgentInv
<1>3. CASE \E f \in Snapshots : up = <<f>>
  <2>1. PICK f \in Snapshots : up = <<f>>
    BY <1>3
  <2>2. Head(up) = f /\ up' = <<>> /\ f.t = "snapshot" /\ f.view \in Views
    BY <2>1, Frames DEF OnMessage, Snapshots
  <2>3. Think(f.view) /\ down' = <<>> /\ risky' = risky
    BY <1>1, <2>2 DEF OnMessage, Think
  <2>4. ctx \in CtxType /\ ctx.refs \in SUBSET Elements /\ shown \in Views
    BY DEF AgentInv, AgentType, CtxType
  <2>5. CASE CallLLM("result", ctx.refs, shown) /\ replaying' = replaying /\ ctx.replay
    <3>1. shown.warns \subseteq ctx.refs
      BY <2>5 DEF AgentInv, InCtx
    <3> QED
      BY <1>1, <2>2, <2>3, <2>4, <2>5, <3>1, CallStep
  <2>6. CASE CallLLM(IF ctx.pending THEN "result" ELSE "plain", f.view.warns, f.view) /\ replaying' = replaying
    <3>1. f.view.warns \in SUBSET Elements
      BY <2>2 DEF Views
    <3> QED
      BY <1>1, <2>2, <2>3, <2>6, <3>1, CallStep
  <2>7. CASE ctx.replay /\ replaying' = TRUE /\ ctx' = [NoCtx EXCEPT !.replay = TRUE, !.refs = ctx.refs]
             /\ UNCHANGED <<held, calls, turns, shown, sent>>
    <3>1. ctx' \in CtxType /\ ctx'.refs = ctx.refs
      BY <2>4, <2>7, FrameTypes DEF AgentInv, NoCtx, CtxType
    <3>2. shown.warns \subseteq ctx.refs
      BY <2>7 DEF AgentInv, InCtx
    <3>3. AgentType'
      BY <1>1, <2>2, <2>3, <2>7, <3>1 DEF AgentInv, AgentType
    <3>4. OneAtATime' /\ Severed' /\ Younger' /\ ConfirmedFirst'
      BY <1>1, <2>2, <2>3, <2>7 DEF AgentInv, OneAtATime, Severed, Younger, ConfirmedFirst, NoCtx,
         NoAction, AgentType
    <3>5. InCtx'
      BY <1>1, <2>2, <2>3, <2>7, <3>1, <3>2, Frames DEF AgentInv, InCtx
    <3> QED
      BY <1>1, <3>3, <3>4, <3>5 DEF AgentInv
  <2> QED
    BY <2>3, <2>5, <2>6, <2>7 DEF Think
<1>4. CASE \E f \in Lone : up = <<f>>
  <2>1. PICK f \in Lone : up = <<f>>
    BY <1>4
  <2>2. Head(up) = f /\ up' = <<>> /\ f.t \in {"screenshot", "confirm_result"}
    BY <2>1, Frames DEF OnMessage, Lone
  <2>3. ctx \in CtxType /\ ctx.refs \in SUBSET Elements /\ ctx.asked \in Actions /\ ctx.pending \in BOOLEAN
    BY DEF AgentInv, AgentType, CtxType
  <2>4. /\ 0 \in Nat /\ "none" \in Refs /\ ctx.asked.id \in Nat /\ ctx.asked.ref \in Refs
        /\ 0 <= turns /\ ctx.asked.id <= turns
    BY <2>3 DEF Refs, Actions, AgentInv, AgentType, Younger
  <2>5. CASE OnShot
    <3>1. ctx' \in CtxType /\ ctx'.replay = FALSE /\ ctx'.asked = NoAction
      BY <2>3, <2>5 DEF OnShot, NoCtx, CtxType, StillPending, Carried, NoAction, Actions, Refs
    <3>2. /\ down' = <<[t |-> "snapshot", id |-> 0, ref |-> "none"]>>
          /\ UNCHANGED <<calls, replaying, turns, shown, risky>>
      BY <1>1, <2>5, Frames DEF OnShot, Act
    <3> QED
      BY <1>1, <2>2, <2>4, <3>1, <3>2, ActsStep
  <2>6. CASE f.t = "confirm_result" /\ ConfirmResult(f.ok)
    <3>1. ctx' \in CtxType /\ ctx'.replay = FALSE /\ ctx'.asked = NoAction
      BY <2>3, <2>6 DEF ConfirmResult, NoCtx, CtxType, NoAction, Actions, Refs
    <3>2. UNCHANGED <<calls, replaying, turns, shown, risky>>
      BY <2>6 DEF ConfirmResult
    <3>3. CASE f.ok /\ ctx.asked # NoAction
      <4>1. down' = <<[t |-> "click", id |-> ctx.asked.id, ref |-> ctx.asked.ref]>>
        BY <1>1, <2>6, <3>3, Frames DEF ConfirmResult, Act
      <4>2. ctx.asked.id \in approved
        BY <2>1, <2>6, <3>3 DEF AgentInv, InCtx
      <4> QED
        BY <1>1, <2>2, <2>4, <3>1, <3>2, <4>1, <4>2, ActsStep
    <3>4. CASE ~(f.ok /\ ctx.asked # NoAction)
      <4>1. down' = <<[t |-> "snapshot", id |-> 0, ref |-> "none"]>>
        BY <1>1, <2>6, <3>4, Frames DEF ConfirmResult, Act
      <4> QED
        BY <1>1, <2>2, <2>4, <3>1, <3>2, <4>1, ActsStep
    <3> QED
      BY <3>3, <3>4
  <2> QED
    BY <2>2, <2>5, <2>6 DEF OnMessage
<1> QED
  BY <1>2, <1>3, <1>4 DEF OnMessage, AgentInv, AgentType

LEMMA OnReplayStep == ASSUME AgentInv, OnReplay, UNCHANGED option PROVE AgentInv'
<1>1. /\ link = "open" /\ up = <<>> /\ down = <<>> /\ calls = {} /\ prompts = {} /\ ~capturing
      /\ up' = <<>> /\ down' = <<>> /\ replaying' = FALSE /\ UNCHANGED <<option, pageVars>>
      /\ CallLLM("result", ctx.refs, shown) /\ risky' = risky
  BY DEF OnReplay, Carried, AgentInv, OneAtATime, Severed, AgentType
<1>2. ctx.refs \in SUBSET Elements /\ shown \in Views
  BY DEF AgentInv, AgentType, CtxType
<1>3. shown.warns \subseteq ctx.refs
  BY DEF OnReplay, AgentInv, InCtx
<1> QED
  BY <1>1, <1>2, <1>3, CallStep

(* The model's answer is handled in the ctx of its own call.                *)
LEMMA OnLLMStep ==
  ASSUME AgentInv, NEW call \in calls, OnLLM(call), UNCHANGED option PROVE AgentInv'
<1>1. /\ link = "open" /\ up = <<>> /\ down = <<>> /\ ~replaying /\ prompts = {} /\ ~capturing
      /\ up' = <<>> /\ calls' = {} /\ replaying' = FALSE
      /\ UNCHANGED <<option, page, danger, link, closed, prompts, capturing, drops, approved, clicked, turns, shown, pageVars>>
      /\ (clicked \subseteq Actions)'
  BY DEF OnLLM, pageVars, AgentInv, OneAtATime, Severed, AgentType
<1>2. /\ call.id \in Nat /\ call.shows \subseteq Elements /\ shown.warns \subseteq ctx.refs
      /\ ctx.refs \subseteq Elements /\ call.id <= turns /\ call.id \notin risky
      /\ \A d \in clicked : d.id < call.id
  BY DEF AgentInv, AgentType, InCtx, Calls, CtxType, Younger
<1>3. CASE LLMFails \/ LLMDone
  <2>1. ctx' = NoCtx /\ down' = <<>> /\ risky' = risky
    BY <1>1, <1>3 DEF LLMFails, LLMDone
  <2>2. NoCtx \in CtxType /\ NoCtx.replay = FALSE
    BY FrameTypes DEF AgentInv, NoCtx
  <2>3. AgentType'
    BY <1>1, <2>1, <2>2 DEF AgentInv, AgentType
  <2>4. OneAtATime' /\ Severed' /\ Younger' /\ ConfirmedFirst'
    BY <1>1, <2>1, Frames DEF AgentInv, OneAtATime, Severed, Younger, ConfirmedFirst, NoCtx, NoAction, AgentType
  <2>5. InCtx'
    BY <1>1, <2>1, <2>2, Frames DEF InCtx
  <2> QED
    BY <1>1, <2>3, <2>4, <2>5 DEF AgentInv
<1>4. ASSUME NEW t \in {"getReplay", "screenshot", "click"}, NEW ref \in Refs, ToolCall(call.id, t, ref),
             t = "screenshot" => option.screenshots, t = "click" => ref \in call.shows
      PROVE  AgentInv'
  <2>1. /\ "none" \in Refs /\ ctx.refs \in SUBSET Elements /\ [id |-> call.id, ref |-> ref] \in Actions
        /\ NoCtx \in CtxType /\ NoCtx.asked = NoAction /\ ~NoCtx.replay
        /\ risky' = IF ref \in shown.warns THEN risky \cup {call.id} ELSE risky
    BY <1>2, <1>4, FrameTypes DEF Refs, Actions, AgentInv, NoCtx, ToolCall
  <2>2. /\ Act("snapshot", call.id, "none") => down' = <<[t |-> "snapshot", id |-> call.id, ref |-> "none"]>>
        /\ Act("confirm", call.id, ref) => down' = <<[t |-> "confirm", id |-> call.id, ref |-> ref]>>
        /\ Act(t, call.id, ref) => down' = <<[t |-> t, id |-> call.id, ref |-> ref]>>
    BY <1>1, Frames DEF Act
  <2>3. CASE /\ t = "getReplay" /\ Act("snapshot", call.id, "none")
             /\ ctx' = [NoCtx EXCEPT !.replay = TRUE, !.refs = Carried(ctx.refs)]
    <3>1. ctx' \in CtxType /\ ctx'.refs = ctx.refs /\ ctx'.asked = NoAction
      BY <2>1, <2>3 DEF CtxType, Carried
    <3> QED
      BY <1>1, <1>2, <2>1, <2>2, <2>3, <3>1, ActsStep
  <2>4. CASE /\ t # "getReplay" /\ Act("confirm", call.id, ref)
             /\ ctx' = [NoCtx EXCEPT !.asked = [id |-> call.id, ref |-> ref]]
    <3>1. ctx' \in CtxType /\ ctx'.asked = [id |-> call.id, ref |-> ref] /\ ~ctx'.replay
      BY <2>1, <2>4 DEF CtxType, NoCtx
    <3>2. "confirm" \in {"snapshot", "click", "screenshot", "confirm"}
      OBVIOUS
    <3>3. /\ down' = <<[t |-> "confirm", id |-> call.id, ref |-> ref]>>
          /\ risky' = risky \/ (risky' = risky \cup {call.id} /\ \A d \in clicked : d.id < call.id)
      BY <1>2, <2>1, <2>2, <2>4
    <3>4. call.id \in Nat /\ call.id <= turns
      BY <1>2
    <3> QED
      BY <1>1, <3>1, <3>2, <3>3, <3>4, ActsStep
  <2>5. CASE /\ t # "getReplay" /\ ~Gated(ref) /\ Act(t, call.id, ref)
             /\ ctx' = [NoCtx EXCEPT !.pending = TRUE, !.refs = ctx.refs]
    <3>1. ctx' \in CtxType /\ ~ctx'.replay /\ ctx'.asked = NoAction
      BY <2>1, <2>5 DEF CtxType, NoCtx
    <3>2. risky' = risky /\ call.id \notin risky'
      BY <1>2, <2>1, <2>5 DEF Gated
    <3> QED
      BY <1>1, <1>2, <1>4, <2>2, <2>5, <3>1, <3>2, ActsStep
  <2> QED
    BY <1>4, <2>3, <2>4, <2>5 DEF ToolCall
<1>5. \A ref \in call.shows : ref \in Refs
  BY <1>2 DEF Refs
<1>6. "none" \in Refs
  BY DEF Refs
<1> QED
  BY <1>3, <1>4, <1>5, <1>6 DEF OnLLM

LEMMA PageStep ==
  ASSUME AgentInv, (\E e \in Elements : PageChanges(e) \/ Relabels(e)) \/ UNCHANGED <<page, agentVars>>, UNCHANGED option
  PROVE  AgentInv'
<1>1. /\ page' \subseteq Elements /\ danger' \subseteq Elements
      /\ UNCHANGED <<option, link, closed, prompts, capturing, sharing, drops, approved, clicked, up, down,
                     calls, replaying, ctx, turns, shown, risky>>
  BY DEF PageChanges, Relabels, agentVars, pageVars, brainVars, AgentInv, AgentType
<1>2. AgentType'
  BY <1>1 DEF AgentInv, AgentType
<1>3. OneAtATime' /\ Severed' /\ ConfirmedFirst' /\ (clicked \subseteq Actions)'
  BY <1>1 DEF AgentInv, OneAtATime, Severed, ConfirmedFirst
<1>4. InCtx' /\ Younger'
  BY <1>1 DEF AgentInv, InCtx, Younger
<1> QED
  BY <1>2, <1>3, <1>4 DEF AgentInv

(* Whatever the page shows, hides or re-labels while the model thinks,      *)
(* whichever tool the model names, and whenever the agent is stopped or its *)
(* socket drops, the page clicks an element that had a destructive name in  *)
(* the view the model chose it from only after the user approved that very  *)
(* action; for any page and operator that leave nothing behind when a       *)
(* socket drops.                                                            *)
THEOREM AlwaysConfirmedFirst == ASSUME LeavesNothing PROVE AgentSpec => []ConfirmedFirst
<1>1. AgentInv /\ [AgentNext]_agentVars => AgentInv'
  <2> SUFFICES ASSUME AgentInv, [AgentNext]_agentVars PROVE AgentInv'
    OBVIOUS
  <2>1. CASE UNCHANGED agentVars
    BY <2>1, PageStep DEF agentVars, pageVars
  <2>2. CASE AgentNext
    BY <2>2, ConnectStep, CloseStep, OnFrameStep, CapturedStep, UserAnswersStep, PageStep,
       OnMessageStep, OnReplayStep, OnLLMStep DEF AgentNext
  <2> QED
    BY <2>1, <2>2
<1>2. AgentInv => ConfirmedFirst
  BY DEF AgentInv
<1>3. AgentInit => AgentInv
  BY AgentInitInv
<1> QED
  BY <1>1, <1>2, <1>3, PTL DEF AgentSpec

=============================================================================
