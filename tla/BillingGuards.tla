---------------------------- MODULE BillingGuards ----------------------------
(***************************************************************************)
(* The card-testing guards of one account (admin/index.mjs,                *)
(* billingWindowRow to recordBillingDecline, and the dispute arm of the    *)
(* webhook): how many client secrets an account may ask for, and when it   *)
(* is put on hold.  Time is a counter; every row carries the time its      *)
(* window began.  A row that is missing and one that does not parse read   *)
(* the same.                                                               *)
(***************************************************************************)
EXTENDS Integers, Sequences, FiniteSets

CONSTANTS
    AttemptWindow, AttemptsPerWindow,   \* BILLING_ATTEMPT*
    DeclineWindow, DeclinesPerWindow, CardsPerWindow,
    HoldTime,       \* BILLING_HOLD_MS
    Cards,          \* fingerprints
    NoCard,         \* a decline without one
    Corruptions,    \* bound: how often the attempts row is lost or corrupted
    MaxNow,         \* bound: how long the clock runs
    MaxDeclines     \* bound: declines

(* The code's hold is as long as its decline window, a day.                *)
ASSUME GuardsAssumption ==
    /\ AttemptWindow \in Nat \ {0} /\ AttemptsPerWindow \in Nat \ {0}
    /\ DeclineWindow \in Nat \ {0} /\ DeclinesPerWindow \in Nat \ {0}
    /\ CardsPerWindow \in Nat \ {0}
    /\ HoldTime \in Nat /\ HoldTime >= DeclineWindow
    /\ NoCard \notin Cards
    /\ Corruptions \in Nat
    /\ MaxNow \in Nat /\ MaxDeclines \in Nat

VARIABLES
    now,
    attempts,   \* billing/attempts
    declines,   \* billing/declines
    hold,       \* until when billing/hold holds, 0 without a row
    minted,     \* history: admitted attempts, with the window they fell in
    failed,     \* history: declines
    cleared,    \* history: an operator deleted the hold, none was set since
    corrupted   \* counter of the bound

guardVars == <<now, attempts, declines, hold, minted, failed, cleared, corrupted>>

NoRow == [there |-> FALSE, win |-> 0, n |-> 0, cards |-> {}]

(* billingWindowRow: an expired window is replaced by one that begins now. *)
Lasting(row, window) == row.there /\ now - row.win <= window    \* mutant: off by one
Open(row, window) == row.there /\ now - row.win < window
Row(row, window) == IF Open(row, window) THEN row
                    ELSE [there |-> TRUE, win |-> now, n |-> 0, cards |-> {}]

(* billingHold.                                                            *)
HeldLate == now + 1 < hold      \* mutant: lapses a moment early
Held == now < hold

-----------------------------------------------------------------------------
(* billingAttemptRefusal, when it does not refuse: one attempt is charged  *)
(* to the window.                                                          *)
OneMore(row) == row.n <= AttemptsPerWindow      \* mutant: off by one
Allowed(row) == row.n < AttemptsPerWindow

RateLimited == ~Allowed(Row(attempts, AttemptWindow))

Attempt ==
    /\ ~Held /\ ~RateLimited
    /\ LET row == Row(attempts, AttemptWindow) IN
         /\ attempts' = [row EXCEPT !.n = @ + 1]
         /\ minted' = Append(minted, [at |-> now, win |-> row.win])
    /\ UNCHANGED <<now, declines, hold, failed, cleared, corrupted>>

(* recordBillingDecline.                                                   *)
Tripped(row) == \/ Cardinality(row.cards) >= CardsPerWindow
                \/ row.n >= DeclinesPerWindow

CountsUnknownCard(row, card) ==     \* mutant: no fingerprint counts as a card
    [row EXCEPT !.n = @ + 1, !.cards = @ \cup {card}]
Counted(row, card) == [row EXCEPT !.n = @ + 1, !.cards = @ \cup ({card} \ {NoCard})]

Decline(card) ==
    /\ Len(failed) < MaxDeclines
    /\ failed' = Append(failed, [at |-> now, card |-> card])
    /\ declines' = Counted(Row(declines, DeclineWindow), card)
    /\ IF Tripped(declines')
       THEN hold' = now + HoldTime /\ cleared' = FALSE
       ELSE UNCHANGED <<hold, cleared>>
    /\ UNCHANGED <<now, attempts, minted, corrupted>>

(* charge.dispute.created.                                                 *)
Dispute ==
    /\ hold' = now + HoldTime
    /\ cleared' = FALSE
    /\ UNCHANGED <<now, attempts, declines, minted, failed, corrupted>>

(* An operator deletes the hold.                                           *)
OperatorClears ==
    /\ hold # 0
    /\ hold' = 0
    /\ cleared' = TRUE
    /\ UNCHANGED <<now, attempts, declines, minted, failed, corrupted>>

Corrupt ==
    /\ corrupted < Corruptions /\ attempts.there
    /\ corrupted' = corrupted + 1
    /\ attempts' = NoRow
    /\ UNCHANGED <<now, declines, hold, minted, failed, cleared>>

Tick ==
    /\ now < MaxNow
    /\ now' = now + 1
    /\ UNCHANGED <<attempts, declines, hold, minted, failed, cleared, corrupted>>

GuardsInit ==
    /\ now = 1
    /\ attempts = NoRow /\ declines = NoRow /\ hold = 0
    /\ minted = <<>> /\ failed = <<>> /\ cleared = FALSE /\ corrupted = 0

GuardsNext ==
    \/ Attempt \/ Dispute \/ OperatorClears \/ Corrupt \/ Tick
    \/ \E card \in Cards \cup {NoCard} : Decline(card)

GuardsSpec == GuardsInit /\ [][GuardsNext]_guardVars

-----------------------------------------------------------------------------
CounterType == [there : BOOLEAN, win : Nat, n : Nat, cards : SUBSET Cards]

(* Type correctness of the guards.                                         *)
GuardsTypeOK ==
    /\ now \in Nat /\ hold \in Nat /\ cleared \in BOOLEAN /\ corrupted \in Nat
    /\ attempts \in CounterType /\ declines \in CounterType
    /\ minted \in Seq([at : Nat, win : Nat])
    /\ failed \in Seq([at : Nat, card : Cards \cup {NoCard}])

(* Whatever the windows' phase, of twice the limit of consecutive attempts *)
(* the last comes at least a window after the first, unless the counter    *)
(* was lost: an account asks for at most 2N - 1 secrets in any window's    *)
(* time.                                                                   *)
SecretsSpread == corrupted = 0 =>
    \A i, j \in DOMAIN minted :
        j = i + 2 * AttemptsPerWindow - 1 => minted[j].at - minted[i].at >= AttemptWindow

(* Who is rate limited did ask that often within the last window's time:   *)
(* "a corrupt counter must never be able to lock a paying customer out".   *)
RefusalIsEarned ==
    RateLimited =>
        /\ Len(minted) >= AttemptsPerWindow
        /\ now - minted[Len(minted) - AttemptsPerWindow + 1].at < AttemptWindow

(* A hold outlasts the window that tripped it ("it expires on its own"):   *)
(* when it lapses the counters have lapsed with it, so that one more       *)
(* decline does not hold the customer again.                               *)
LapsesTogether ==
    Open(declines, DeclineWindow) /\ Tripped(declines) /\ ~cleared => Held

(* The decline counters are the declines of the open window: that many, of *)
(* those cards, none older than the window.                                *)
Counts ==
    Open(declines, DeclineWindow) =>
        /\ declines.n <= Len(failed)
        /\ LET since == Len(failed) - declines.n + 1 .. Len(failed) IN
             /\ \A i \in since : failed[i].at >= declines.win
             /\ declines.cards = {failed[i].card : i \in since} \ {NoCard}

-----------------------------------------------------------------------------
(* The parts of the inductive invariant.  The attempts row has counted the *)
(* last n admitted attempts, all since its window began.                   *)
Charged ==
    /\ attempts.win <= now
    /\ attempts.there =>
         /\ attempts.n \in 1..AttemptsPerWindow /\ attempts.n <= Len(minted)
         /\ \A i \in DOMAIN minted :
              i > Len(minted) - attempts.n => minted[i].at >= attempts.win

(* While the row was never lost: attempts are in order, each in a window   *)
(* that began by then and with an attempt; two windows are a window apart, *)
(* the later one after everything in the earlier; and no window has more   *)
(* than the limit.                                                         *)
WindowsApart ==
    /\ \A i \in DOMAIN minted : minted[i].win <= minted[i].at /\ minted[i].at <= now
    /\ \A i, j \in DOMAIN minted : i < j =>
         /\ minted[i].at <= minted[j].at
         /\ minted[i].win = minted[j].win
            \/ (minted[j].win >= minted[i].win + AttemptWindow /\ minted[j].win >= minted[i].at)
    /\ \A i, j \in DOMAIN minted : j = i + AttemptsPerWindow => minted[i].win # minted[j].win
    /\ \A i \in DOMAIN minted :
         minted[i].at = minted[i].win \/ (i > 1 /\ minted[i - 1].win = minted[i].win)
    /\ ~attempts.there => minted = <<>>
    /\ attempts.there => \A i \in DOMAIN minted :
         (minted[i].win = attempts.win) <=> (i > Len(minted) - attempts.n)

(* A hold that was not cleared lasts as long as the window that tripped it.*)
OutlastsWindow ==
    /\ declines.win <= now
    /\ declines.there /\ Tripped(declines) /\ ~cleared => hold >= declines.win + DeclineWindow

GuardsInv ==
    /\ GuardsTypeOK /\ Charged /\ OutlastsWindow
    /\ corrupted <= Corruptions
    /\ corrupted = 0 => WindowsApart

=============================================================================
