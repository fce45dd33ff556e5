-------------------------------- MODULE Login --------------------------------
(***************************************************************************)
(* The magic-link login of the identity provider (auth/index.mjs): a link  *)
(* is minted for an address and mailed to it, and whoever follows it first *)
(* is signed in as that address and sent back to where the login began.    *)
(* A mail scanner is a device that follows links too.  The provider        *)
(* library (@rewind/oidc) and the mail (@rewind/email) are not of this     *)
(* repository.                                                             *)
(***************************************************************************)
EXTENDS Integers, FiniteSets

CONSTANTS
    Devices,        \* browsers, each with its session id
    Addresses,
    Origins,        \* where relying parties live
    NoOne,
    Ttl,            \* MAGIC_TTL_MS
    Cooldown,       \* MAGIC_COOLDOWN_MS
    MaxLinks,       \* bound: links minted
    MaxTime         \* bound: the clock

ASSUME LoginAssumption == Ttl \in Nat /\ Cooldown \in Nat

VARIABLES
    clock,
    registry,       \* origins of the registered clients
    mailing,        \* is there a resend_key?
    links,          \* _oidc/magic/{hash} |-> [addr, back, exp]
    cooldown,       \* _oidc/magic_cooldown/{address}, -1: none
    session,        \* _oidc/session/{sid} |-> sub
    handedOut,           \* history: the links handed out, [link, addr, at]
    logins,         \* history: [link, device, sub, at, landed, clients]
    mails           \* history: <<address, time>>

loginVars == <<clock, registry, mailing, links, cooldown, session, handedOut, logins, mails>>

-----------------------------------------------------------------------------
(* safeReturnTo: a page of the issuer, a registered client's, or the root. *)
Root == "root"
Issuer == "issuer"
Places == Origins \cup {Issuer}
SafeReturnTo(back) == IF back = Issuer \/ back \in registry THEN back ELSE Root

Minted == Cardinality(handedOut)

(* startLogin: within the cooldown the page is the same and nothing is     *)
(* minted; without a mail key the link is handed to whoever asked.         *)
Cooling(addr) == mailing /\ cooldown[addr] >= 0 /\ clock - cooldown[addr] < Cooldown

StartLogin(addr, back) ==
    /\ Minted < MaxLinks
    /\ ~Cooling(addr)
    /\ LET link == Minted + 1 IN
         /\ links' = [l \in DOMAIN links \cup {link} |->
                        IF l = link
                        THEN [addr |-> addr, back |-> SafeReturnTo(back), exp |-> clock + Ttl]
                        ELSE links[l]]
         /\ handedOut' = handedOut \cup {[link |-> link, addr |-> addr, at |-> clock]}
    /\ IF mailing
       THEN /\ cooldown' = [cooldown EXCEPT ![addr] = clock]
            /\ mails' = mails \cup {<<addr, clock>>}
       ELSE UNCHANGED <<cooldown, mails>>
    /\ UNCHANGED <<clock, registry, mailing, session, logins>>

(* The answer is the page of a mail on its way.                            *)
Suppressed(addr) == Cooling(addr) /\ UNCHANGED loginVars

(* verifyLogin: the row goes before anything is checked.                   *)
KeptRow(link) == links           \* mutant: the row stays for a second look
Consumed(link) == [l \in DOMAIN links \ {link} |-> links[l]]
Expired(record) == clock > record.exp

Consume(link) ==
    /\ link \in DOMAIN links
    /\ links' = Consumed(link)
    /\ UNCHANGED <<clock, registry, mailing, cooldown, handedOut, mails>>

VerifyLogin(device, link) ==
    /\ Consume(link)
    /\ ~Expired(links[link])
    /\ session' = [session EXCEPT ![device] = links[link].addr]
    /\ logins' = logins \cup
         {[link |-> link, device |-> device, sub |-> links[link].addr, at |-> clock,
           landed |-> SafeReturnTo(links[link].back), clients |-> registry]}

(* A link that is too old, and one followed by a request without a session *)
(* context, is used up all the same, and nobody is signed in.              *)
VerifyRefused(link) ==
    /\ Consume(link)
    /\ UNCHANGED <<session, logins>>

(* A relying party is registered or struck off; the key is set or removed. *)
Register(o) ==
    /\ registry' = IF o \in registry THEN registry \ {o} ELSE registry \cup {o}
    /\ UNCHANGED <<clock, mailing, links, cooldown, session, handedOut, logins, mails>>

SetKey ==
    /\ mailing' = ~mailing
    /\ UNCHANGED <<clock, registry, links, cooldown, session, handedOut, logins, mails>>

ClockTick ==
    /\ clock < MaxTime
    /\ clock' = clock + 1
    /\ UNCHANGED <<registry, mailing, links, cooldown, session, handedOut, logins, mails>>

LoginInit ==
    /\ clock = 0 /\ registry = {} /\ mailing \in BOOLEAN
    /\ links = <<>> /\ handedOut = {} /\ logins = {} /\ mails = {}
    /\ cooldown = [a \in Addresses |-> -1]
    /\ session = [d \in Devices |-> NoOne]

LoginNext ==
    \/ \E a \in Addresses, back \in Places : StartLogin(a, back)
    \/ \E a \in Addresses : Suppressed(a)
    \/ \E d \in Devices, l \in DOMAIN links : VerifyLogin(d, l)
    \/ \E l \in DOMAIN links : VerifyRefused(l)
    \/ \E o \in Origins : Register(o)
    \/ SetKey
    \/ ClockTick

LoginSpec == LoginInit /\ [][LoginNext]_loginVars

-----------------------------------------------------------------------------
(* A device is signed in as an address only by a link that was minted for  *)
(* that address, not older than its time, and followed by no one else; it  *)
(* is then sent to the issuer or to a client registered at that moment,    *)
(* whatever was registered when the login began.  No address is mailed     *)
(* twice within the cooldown.                                              *)
OncePerLink == \A x, y \in logins : x.link = y.link => x = y
OwnAndFresh ==
    /\ \A x \in logins :
         /\ \E h \in handedOut : h.link = x.link /\ h.addr = x.sub /\ x.at - h.at <= Ttl
         /\ x.landed \in x.clients \cup {Issuer, Root}
    /\ \A d \in Devices : session[d] # NoOne =>
         \E x \in logins : x.device = d /\ x.sub = session[d]
MailSpaced ==
    \A x, y \in mails : x[1] = y[1] /\ x[2] < y[2] => y[2] - x[2] >= Cooldown
LoginIsSound == OncePerLink /\ OwnAndFresh /\ MailSpaced

(* The comment at the cooldown: "the earlier link still works".            *)
EarlierLinkWorks ==
    \A a \in Addresses : Cooling(a) =>
        \E l \in DOMAIN links : links[l].addr = a /\ ~Expired(links[l])
=============================================================================
