------------------------------- MODULE Topups -------------------------------
(***************************************************************************)
(* A provider buys credit: StartTopup makes a pending top-up and asks      *)
(* Stripe for a PromptPay payment, and only Stripe's webhooks settle it.   *)
(*                                                                         *)
(* Stripe is external, modelled from how the client uses it: its answer    *)
(* may be lost, late or an error although the payment exists (one per      *)
(* top-up: the Idempotency-Key), and it delivers every event at least      *)
(* once, in any order, again after a lost reply.                           *)
(*                                                                         *)
(* As in Matching, an operator used nowhere that stands before another     *)
(* with the same parameters is a mistake the properties would catch.       *)
(***************************************************************************)
EXTENDS Integers, Sequences, Ledger

CONSTANTS
    TopupIds,     \* provider_topups.id, one per StartTopup call
    Providers,
    ProviderOf,   \* whose wallet the top-up is for
    CreditOf      \* the credits of its package

ASSUME TopupsHaveProviders == ProviderOf \in [TopupIds -> Providers]
ASSUME PackagesGiveCredit == CreditOf \in [TopupIds -> Nat \ {0}]

VARIABLES
    topup,     \* provider_topups: status, and whether the PaymentIntent is stored
    balance,   \* service_providers.credit_balance
    ledger,    \* provider_credit_transactions
    start,     \* where each StartTopup call is
    intent,    \* Stripe's PaymentIntent, and what was received for it
    sent,      \* the webhook events Stripe has for each top-up
    acked      \* those it got a 2xx for

wallet == <<balance, ledger>>
stripe == <<intent, sent>>
vars == <<topup, balance, ledger, start, intent, sent, acked>>

TopupStatus == {"pending", "paid", "failed", "expired", "refunded"}
EventTypes == {"succeeded", "payment_failed", "canceled", "refunded"}
NoTopup == [status |-> "absent", paymentIntent |-> FALSE]

-----------------------------------------------------------------------------
(* StartTopup: insert, ask Stripe, store what it answered.                 *)

\* UPDATE provider_topups SET status = to WHERE id = t AND status = from.
SetStatus(t, from, to) ==
    topup' = IF topup[t].status = from
             THEN [topup EXCEPT ![t].status = to] ELSE topup

CreateTopup(t) ==
    /\ topup[t] = NoTopup
    /\ topup' = [topup EXCEPT ![t] =
                     [status |-> "pending", paymentIntent |-> FALSE]]
    /\ start' = [start EXCEPT ![t] = "asking"]
    /\ UNCHANGED <<wallet, stripe, acked>>

\* CreatePromptPay returns the payment and its QR, or an error: a timeout, a
\* refusal, an answer without a QR.  An error says nothing about the payment.
PromptPayAnswers(t) ==
    /\ start[t] = "asking"
    /\ \/ intent[t].status # "none" /\ start' = [start EXCEPT ![t] = "answered"]
       \/ start' = [start EXCEPT ![t] = "failed"]
    /\ UNCHANGED <<topup, wallet, stripe, acked>>

SetTopupPayment(t) ==
    /\ start[t] = "answered"
    /\ topup' = [topup EXCEPT ![t].paymentIntent = TRUE]
    /\ start' = [start EXCEPT ![t] = "over"]
    /\ UNCHANGED <<wallet, stripe, acked>>

MarkFailed(t) ==
    /\ start[t] = "failed"
    /\ SetStatus(t, "pending", "failed")
    /\ start' = [start EXCEPT ![t] = "over"]
    /\ UNCHANGED <<wallet, stripe, acked>>

\* The process dies or the database refuses: the rest of the call is lost.
Crash(t) ==
    /\ start[t] \in {"asking", "answered", "failed"}
    /\ start' = [start EXCEPT ![t] = "over"]
    /\ UNCHANGED <<topup, wallet, stripe, acked>>

-----------------------------------------------------------------------------
(* Stripe.                                                                 *)

Intent(t, from, status, received) ==
    /\ intent[t].status \in from
    /\ intent' = [intent EXCEPT ![t] = [status |-> status, received |-> received]]
    /\ UNCHANGED <<topup, wallet, start, acked>>

Announce(t, type) == sent' = [sent EXCEPT ![t] = @ \cup {type}]

\* The request arrives, perhaps after the caller has given up on it.
PaymentCreated(t) ==
    /\ start[t] # "idle"
    /\ Intent(t, {"none"}, "awaiting", "nothing")
    /\ UNCHANGED sent

PaymentSucceeds(t) ==
    \E received \in {"amount", "other"} :
        /\ Intent(t, {"awaiting"}, "succeeded", received)
        /\ Announce(t, "succeeded")

PaymentFails(t) ==
    /\ Intent(t, {"awaiting"}, "failed", "nothing")
    /\ Announce(t, "payment_failed")

PaymentCanceled(t) ==
    /\ Intent(t, {"awaiting", "failed"}, "canceled", "nothing")
    /\ Announce(t, "canceled")

\* An operator refunds the payment in Stripe.
PaymentRefunded(t) ==
    /\ Intent(t, {"succeeded"}, "refunded", intent[t].received)
    /\ Announce(t, "refunded")

-----------------------------------------------------------------------------
(* HandlePaymentWebhook.  The top-up it looks up first cannot change who   *)
(* it is, and each branch is one transaction that checks the rest again.   *)

AnyPayment(t) == TRUE
PaymentMatches(t) == intent[t].received = "amount"

AlreadyEnded(t) == topup[t].status # "pending"
Settled(t) == topup[t].status \in {"paid", "refunded"}

PaidWithoutIntent(row) == [row EXCEPT !.status = "paid"]
Paid(row) == [status |-> "paid", paymentIntent |-> TRUE]

\* A late "paid" after "expired" or "failed" still credits.
MarkTopupPaid(t) ==
    IF Settled(t) \/ ~PaymentMatches(t)
    THEN UNCHANGED <<topup, wallet>>
    ELSE LET p == ProviderOf[t]
             e == Entry("top_up", t, CreditOf[t])
         IN  /\ topup' = [topup EXCEPT ![t] = Paid(@)]
             /\ ledger' = [ledger EXCEPT ![p] = Posted(@, balance[p], e)]
             /\ balance' = [balance EXCEPT ![p] = PostedBalance(ledger[p], @, e)]

\* charge.refunded carries no metadata: it finds the top-up by PaymentIntent.
MarkTopupRefunded(t) ==
    /\ IF topup[t].paymentIntent
       THEN SetStatus(t, "paid", "refunded")
       ELSE UNCHANGED topup
    /\ UNCHANGED wallet

FailuresOnly(type) == IF type = "payment_failed" THEN "failed" ELSE "pending"

\* What a top-up becomes when its payment will not come.
EndedAs(type) == IF type = "payment_failed" THEN "failed" ELSE "expired"

Apply(t, type) ==
    \/ type = "succeeded" /\ MarkTopupPaid(t)
    \/ /\ type \in {"payment_failed", "canceled"}
       /\ SetStatus(t, "pending", EndedAs(type))
       /\ UNCHANGED wallet
    \/ type = "refunded" /\ MarkTopupRefunded(t)

\* One delivery, whose reply may be lost.
Deliver(t, type) ==
    /\ type \in sent[t]
    /\ Apply(t, type)
    /\ acked' \in {acked, [acked EXCEPT ![t] = @ \cup {type}]}
    /\ UNCHANGED <<start, stripe>>

DeliverAndAck(t, type) ==
    Deliver(t, type) /\ acked' = [acked EXCEPT ![t] = @ \cup {type}]

-----------------------------------------------------------------------------

Init ==
    /\ topup = [t \in TopupIds |-> NoTopup]
    /\ balance = [p \in Providers |-> 0]
    /\ ledger = [p \in Providers |-> <<>>]
    /\ start = [t \in TopupIds |-> "idle"]
    /\ intent = [t \in TopupIds |-> [status |-> "none", received |-> "nothing"]]
    /\ sent = [t \in TopupIds |-> {}]
    /\ acked = [t \in TopupIds |-> {}]

StartTopup(t) ==
    \/ CreateTopup(t)
    \/ PromptPayAnswers(t)
    \/ SetTopupPayment(t)
    \/ MarkFailed(t)
    \/ Crash(t)

Stripe(t) ==
    \/ PaymentCreated(t)
    \/ PaymentSucceeds(t)
    \/ PaymentFails(t)
    \/ PaymentCanceled(t)
    \/ PaymentRefunded(t)

Next ==
    \E t \in TopupIds :
        \/ StartTopup(t)
        \/ Stripe(t)
        \/ \E type \in EventTypes : Deliver(t, type)

Spec == Init /\ [][Next]_vars

\* Stripe retries an event until it is acknowledged.  Nobody has to pay, and
\* the call that started the top-up may die at any point.
FairSpec ==
    /\ Spec
    /\ \A t \in TopupIds, type \in EventTypes : WF_vars(DeliverAndAck(t, type))

-----------------------------------------------------------------------------
(* Invariants.                                                             *)

TypeOK ==
    /\ topup \in [TopupIds -> [status : TopupStatus \cup {"absent"},
                               paymentIntent : BOOLEAN]]
    /\ balance \in [Providers -> Nat]
    /\ ledger \in [Providers -> Seq(RowSet(TopupIds))]
    /\ start \in [TopupIds -> {"idle", "asking", "answered", "failed", "over"}]
    /\ intent \in [TopupIds ->
           [status : {"none", "awaiting", "failed", "canceled", "succeeded",
                      "refunded"},
            received : {"nothing", "amount", "other"}]]
    /\ sent \in [TopupIds -> SUBSET EventTypes]
    /\ acked \in [TopupIds -> SUBSET EventTypes]

CreditRows(t) == RowsWith(ledger[ProviderOf[t]], Key("top_up", t))

\* Credit is applied once, for exactly the payments that were received in
\* full: a duplicated, late or reordered webhook neither credits again nor
\* credits a payment that failed, was short or was never made.
CreditedOncePerPayment ==
    \A t \in TopupIds :
        /\ \A i, j \in CreditRows(t) : i = j
        /\ \A i \in CreditRows(t) :
               /\ ledger[ProviderOf[t]][i].amount = CreditOf[t]
               /\ intent[t].received = "amount"
        /\ CreditRows(t) # {} <=> topup[t].status \in {"paid", "refunded"}

\* A paid top-up has its PaymentIntent stored, whichever of the webhook and
\* SetTopupPayment came first, so a refund in Stripe finds it.
PaidIsFoundByIntent ==
    \A t \in TopupIds :
        topup[t].status \in {"paid", "refunded"} => topup[t].paymentIntent

\* The cached balance is what the ledger adds up to.
BalanceIsLedger == \A p \in Providers : Accounts(ledger[p], balance[p])

-----------------------------------------------------------------------------
(* What a step may never do.                                               *)

\* "A paid top-up is never downgraded" (wallet.go:105): an old failure, a
\* second success after the refund or a crash of the call that started it
\* never takes a settled top-up back.
StatusMoves ==
    { <<"absent", "pending">>, <<"pending", "paid">>, <<"pending", "failed">>,
      <<"pending", "expired">>, <<"failed", "paid">>, <<"expired", "paid">>,
      <<"paid", "refunded">> }

SettledStaysSettled ==
    [][\A t \in TopupIds :
           topup'[t].status # topup[t].status
               => <<topup[t].status, topup'[t].status>> \in StatusMoves]_vars

-----------------------------------------------------------------------------
(* Liveness.                                                               *)

\* Whoever paid gets the credit, even when the call that started the top-up
\* had died or was told that Stripe failed.
PaymentIsCredited ==
    \A t \in TopupIds :
        intent[t].received = "amount" ~> topup[t].status \in {"paid", "refunded"}

\* A payment that will not come does not leave the top-up pending.
LostPaymentIsNoticed ==
    \A t \in TopupIds :
        intent[t].status \in {"failed", "canceled"} ~> topup[t].status # "pending"
=============================================================================
