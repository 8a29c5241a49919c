---------------------------- MODULE TopupsProofs ----------------------------
(***************************************************************************)
(* Proofs about top-ups: whatever order calls, payments and webhooks come  *)
(* in, credit is given once for every payment that was received in full,   *)
(* and a settled top-up stays settled.                                     *)
(***************************************************************************)
EXTENDS Topups, LedgerProofs

-----------------------------------------------------------------------------
(* What a step does to one top-up, and to the wallets.                     *)

\* The payment's credit in a ledger.
Credited(t, rs, row, it) ==
    LET credits == RowsWith(rs, Key("top_up", t))
    IN  /\ \A i, j \in credits : i = j
        /\ \A i \in credits : rs[i].amount = CreditOf[t] /\ it.received = "amount"
        /\ credits # {} <=> row.status \in {"paid", "refunded"}

AllCredited ==
    \A t \in TopupIds : Credited(t, ledger[ProviderOf[t]], topup[t], intent[t])

LEMMA CreditedIsCreditedOnce == AllCredited <=> CreditedOncePerPayment
BY DEF AllCredited, Credited, CreditedOncePerPayment, CreditRows

\* Stripe received something exactly for the payments that succeeded.
ReceivedWhenPaid ==
    \A t \in TopupIds :
        intent[t].received # "nothing"
            <=> intent[t].status \in {"succeeded", "refunded"}

\* The transaction that pays a top-up.
Pays(t) ==
    LET p == ProviderOf[t]
        e == Entry("top_up", t, CreditOf[t])
    IN  /\ ~Settled(t)
        /\ PaymentMatches(t)
        /\ topup' = [topup EXCEPT ![t] = Paid(@)]
        /\ ledger' = [ledger EXCEPT ![p] = Posted(@, balance[p], e)]
        /\ balance' = [balance EXCEPT ![p] = PostedBalance(ledger[p], @, e)]
        /\ UNCHANGED intent

\* A status that changes without the credit changing.
Relabels(t) ==
    /\ UNCHANGED <<wallet, intent>>
    /\ \E from \in {"pending", "paid"}, to \in {"failed", "expired", "refunded"} :
           /\ SetStatus(t, from, to)
           /\ from = "paid" <=> to = "refunded"

\* Every step pays, relabels, or leaves statuses and wallets alone.
LEMMA DeliverCases ==
    ASSUME NEW t \in TopupIds, NEW type \in EventTypes, Deliver(t, type)
    PROVE  \/ Pays(t)
           \/ Relabels(t)
           \/ UNCHANGED <<topup, wallet, intent>>
<1>1. UNCHANGED intent /\ Apply(t, type)
  BY DEF Deliver, stripe
<1>2. CASE type = "succeeded" /\ MarkTopupPaid(t)
  BY <1>1, <1>2 DEF MarkTopupPaid, Pays
<1>3. CASE /\ type \in {"payment_failed", "canceled"}
           /\ SetStatus(t, "pending", EndedAs(type))
           /\ UNCHANGED wallet
  <2>1. EndedAs(type) \in {"failed", "expired"}
    BY DEF EndedAs
  <2>2. QED
    BY <1>1, <1>3, <2>1 DEF Relabels
<1>4. CASE type = "refunded" /\ MarkTopupRefunded(t)
  BY <1>1, <1>4 DEF MarkTopupRefunded, Relabels
<1>5. QED
  BY <1>1, <1>2, <1>3, <1>4 DEF Apply

-----------------------------------------------------------------------------
(* Type correctness.                                                       *)

LEMMA PaysTypes ==
    ASSUME TypeOK, NEW t \in TopupIds, Pays(t)
    PROVE  /\ topup' \in [TopupIds -> [status : TopupStatus \cup {"absent"},
                                       paymentIntent : BOOLEAN]]
           /\ balance' \in [Providers -> Nat]
           /\ ledger' \in [Providers -> Seq(RowSet(TopupIds))]
<1> DEFINE p == ProviderOf[t]
           e == Entry("top_up", t, CreditOf[t])
<1>1. /\ p \in Providers /\ CreditOf[t] \in Nat
      /\ ledger[p] \in Seq(RowSet(TopupIds)) /\ balance[p] \in Nat
  BY TopupsHaveProviders, PackagesGiveCredit DEF TypeOK
<1>2. CreditOf[t] \in Int /\ balance[p] + CreditOf[t] >= 0 /\ "top_up" \in TxTypes
  BY <1>1 DEF TxTypes
<1>3. /\ Posted(ledger[p], balance[p], e) \in Seq(RowSet(TopupIds))
      /\ PostedBalance(ledger[p], balance[p], e) \in Nat
  BY <1>1, <1>2, PostedTypes
<1> HIDE DEF e
<1>4. Paid(topup[t]) \in [status : TopupStatus \cup {"absent"},
                          paymentIntent : BOOLEAN]
  BY DEF Paid, TopupStatus
<1>5. /\ topup' = [topup EXCEPT ![t] = Paid(topup[t])]
      /\ ledger' = [ledger EXCEPT ![p] = Posted(ledger[p], balance[p], e)]
      /\ balance' = [balance EXCEPT ![p] = PostedBalance(ledger[p], balance[p], e)]
  BY DEF Pays, e
<1>6. QED
  BY <1>1, <1>3, <1>4, <1>5 DEF TypeOK

LEMMA RelabelsTypes ==
    ASSUME TypeOK, NEW t \in TopupIds, Relabels(t)
    PROVE  topup' \in [TopupIds -> [status : TopupStatus \cup {"absent"},
                                    paymentIntent : BOOLEAN]]
<1>1. PICK from \in {"pending", "paid"}, to \in {"failed", "expired", "refunded"} :
          SetStatus(t, from, to)
  BY DEF Relabels
<1>2. to \in TopupStatus
  BY DEF TopupStatus
<1>3. topup \in [TopupIds -> [status : TopupStatus \cup {"absent"},
                             paymentIntent : BOOLEAN]]
  BY DEF TypeOK
<1>4. QED
  BY <1>1, <1>2, <1>3 DEF SetStatus

LEMMA StripeTypes ==
    ASSUME TypeOK, NEW t \in TopupIds, Stripe(t)
    PROVE  TypeOK'
<1>1. intent[t].received \in {"nothing", "amount", "other"}
  BY DEF TypeOK
<1>2. CASE PaymentCreated(t)
  BY <1>2 DEF PaymentCreated, Intent, wallet, TypeOK
<1>3. CASE PaymentSucceeds(t)
  BY <1>3 DEF PaymentSucceeds, Intent, Announce, wallet, TypeOK, EventTypes
<1>4. CASE PaymentFails(t)
  BY <1>4 DEF PaymentFails, Intent, Announce, wallet, TypeOK, EventTypes
<1>5. CASE PaymentCanceled(t)
  BY <1>5 DEF PaymentCanceled, Intent, Announce, wallet, TypeOK, EventTypes
<1>6. CASE PaymentRefunded(t)
  BY <1>1, <1>6 DEF PaymentRefunded, Intent, Announce, wallet, TypeOK, EventTypes
<1>7. QED
  BY <1>2, <1>3, <1>4, <1>5, <1>6 DEF Stripe

LEMMA StartTypes ==
    ASSUME TypeOK, NEW t \in TopupIds, StartTopup(t)
    PROVE  TypeOK'
<1>1. CASE CreateTopup(t)
  BY <1>1 DEF CreateTopup, wallet, stripe, TypeOK, TopupStatus
<1>2. CASE PromptPayAnswers(t)
  BY <1>2 DEF PromptPayAnswers, wallet, stripe, TypeOK
<1>3. CASE SetTopupPayment(t)
  BY ZenonT(60), <1>3 DEF SetTopupPayment, wallet, stripe, TypeOK
<1>4. CASE MarkFailed(t)
  BY <1>4 DEF MarkFailed, SetStatus, wallet, stripe, TypeOK, TopupStatus
<1>5. CASE Crash(t)
  BY <1>5 DEF Crash, wallet, stripe, TypeOK
<1>6. QED
  BY <1>1, <1>2, <1>3, <1>4, <1>5 DEF StartTopup

\* Every variable has its type: in particular no balance is negative and no
\* webhook gives a top-up a status its column does not allow.
THEOREM TypeCorrect == Spec => []TypeOK
<1>1. Init => TypeOK
  <2>1. <<>> \in Seq(RowSet(TopupIds))
    OBVIOUS
  <2>2. QED
    BY <2>1 DEF Init, TypeOK, NoTopup
<1>2. TypeOK /\ [Next]_vars => TypeOK'
  <2> SUFFICES ASSUME TypeOK, [Next]_vars PROVE TypeOK'
    OBVIOUS
  <2>1. ASSUME NEW t \in TopupIds, NEW type \in EventTypes, Deliver(t, type)
        PROVE  TypeOK'
    <3>1. acked' \in [TopupIds -> SUBSET EventTypes]
      BY <2>1 DEF Deliver, TypeOK
    <3>2. UNCHANGED <<start, intent, sent>>
      BY <2>1 DEF Deliver, stripe
    <3>3. CASE Pays(t)
      BY <3>1, <3>2, <3>3, PaysTypes DEF TypeOK
    <3>4. CASE Relabels(t)
      <4>1. UNCHANGED <<balance, ledger>>
        BY <3>4 DEF Relabels, wallet
      <4>2. QED
        BY <3>1, <3>2, <3>4, <4>1, RelabelsTypes DEF TypeOK
    <3>5. CASE UNCHANGED <<topup, wallet, intent>>
      BY <3>1, <3>2, <3>5 DEF wallet, TypeOK
    <3>6. QED
      BY <2>1, <3>3, <3>4, <3>5, DeliverCases
  <2>2. CASE UNCHANGED vars
    BY <2>2 DEF vars, TypeOK
  <2>3. QED
    BY <2>1, <2>2, StartTypes, StripeTypes DEF Next
<1>3. QED
  BY <1>1, <1>2, PTL DEF Spec

-----------------------------------------------------------------------------
(* Credit.                                                                 *)

\* A top-up that is not settled has no row yet, so the transaction appends one.
LEMMA PaysAppends ==
    ASSUME TypeOK, AllCredited, NEW t \in TopupIds, Pays(t)
    PROVE  LET p == ProviderOf[t]
           IN  \E e \in RowSet(TopupIds) :
                   /\ e.key = Key("top_up", t)
                   /\ e.amount = CreditOf[t]
                   /\ ledger' = [ledger EXCEPT ![p] = Append(@, e)]
<1> DEFINE p == ProviderOf[t]
           row == [key |-> Key("top_up", t), amount |-> CreditOf[t],
                   after |-> balance[p] + CreditOf[t]]
           e == Entry("top_up", t, CreditOf[t])
<1>1. p \in Providers /\ CreditOf[t] \in Nat /\ balance[p] \in Nat
  BY TopupsHaveProviders, PackagesGiveCredit DEF TypeOK
<1>2. row \in RowSet(TopupIds)
  BY <1>1 DEF RowSet, Key, TxTypes
<1>3. ~Applied(ledger[p], Key("top_up", t))
  BY DEF Pays, Settled, AllCredited, Credited, Applied, RowsWith
<1>4. e.key = Key("top_up", t) /\ e.amount = CreditOf[t]
  BY DEF Entry
<1>5. Posted(ledger[p], balance[p], e) = Append(ledger[p], row)
  BY <1>3, <1>4 DEF Posted
<1>6. ledger' = [ledger EXCEPT ![p] = Append(@, row)]
  BY <1>5 DEF Pays
<1>7. QED
  BY <1>2, <1>6

LEMMA PaysCredits ==
    ASSUME TypeOK, AllCredited, NEW t \in TopupIds, Pays(t)
    PROVE  AllCredited'
<1> DEFINE p == ProviderOf[t]
<1>1. p \in Providers /\ ledger[p] \in Seq(RowSet(TopupIds))
  BY TopupsHaveProviders DEF TypeOK
<1>2. PICK e \in RowSet(TopupIds) :
          /\ e.key = Key("top_up", t)
          /\ e.amount = CreditOf[t]
          /\ ledger' = [ledger EXCEPT ![p] = Append(@, e)]
  BY PaysAppends
<1> DEFINE new == Append(ledger[p], e)
           last == Len(ledger[p]) + 1
<1>3. /\ \A i \in DOMAIN ledger[p] : new[i] = ledger[p][i]
      /\ new[last] = e
  BY <1>1, AppendedRow
<1>4. /\ ledger'[p] = new
      /\ \A q \in Providers \ {p} : ledger'[q] = ledger[q]
  BY <1>1, <1>2 DEF TypeOK
<1>5. ASSUME NEW u \in TopupIds
      PROVE  Credited(u, ledger'[ProviderOf[u]], topup'[u], intent'[u])
  <2> DEFINE old == RowsWith(ledger[p], Key("top_up", u))
  <2>1. Credited(u, ledger[ProviderOf[u]], topup[u], intent[u])
    BY DEF AllCredited
  <2>2. intent' = intent /\ ProviderOf[u] \in Providers
    BY TopupsHaveProviders DEF Pays
  <2>3. CASE u = t
    <3>1. topup'[u].status = "paid" /\ intent[u].received = "amount"
      BY <2>3 DEF Pays, Paid, PaymentMatches, TypeOK
    <3>2. old = {}
      BY <2>1, <2>3 DEF Credited, Pays, Settled
    <3>3. RowsWith(new, Key("top_up", u)) = old \cup {last}
      <4>1. e.key = Key("top_up", u)
        BY <1>2, <2>3
      <4>2. ASSUME NEW key, e.key = key
            PROVE  RowsWith(new, key) = RowsWith(ledger[p], key) \cup {last}
        BY ZenonT(60), <1>1, <4>2, SameKeyRows
      <4>3. QED
        BY <4>1, <4>2
    <3> HIDE DEF new
    <3>4. Credited(u, new, topup'[u], intent'[u])
      BY <1>2, <1>3, <2>2, <2>3, <3>1, <3>2, <3>3 DEF Credited
    <3>5. QED
      BY <1>4, <2>3, <3>4
  <2>4. CASE u # t
    <3>1. topup'[u] = topup[u]
      BY <2>4 DEF Pays, TypeOK
    <3>2. CASE ProviderOf[u] = p
      <4>1. e.key # Key("top_up", u)
        BY <1>2, <2>4 DEF Key
      <4>2. RowsWith(new, Key("top_up", u)) = old
        BY <1>1, <1>2, <4>1, OtherKeyRows
      <4>3. old \subseteq DOMAIN ledger[p]
        BY DEF RowsWith
      <4> HIDE DEF new
      <4>4. Credited(u, new, topup'[u], intent'[u])
        BY <1>3, <2>1, <2>2, <3>1, <3>2, <4>2, <4>3 DEF Credited
      <4>5. QED
        BY <1>4, <3>2, <4>4
    <3>3. CASE ProviderOf[u] # p
      BY <1>4, <2>1, <2>2, <3>1, <3>3
    <3>4. QED
      BY <3>2, <3>3
  <2>5. QED
    BY <2>3, <2>4
<1>6. QED
  BY <1>5 DEF AllCredited

LEMMA RelabelsCredits ==
    ASSUME TypeOK, AllCredited, NEW t \in TopupIds, Relabels(t)
    PROVE  AllCredited'
<1>1. ledger' = ledger /\ intent' = intent
  BY DEF Relabels, wallet
<1>2. \A u \in TopupIds :
          topup'[u].status \in {"paid", "refunded"}
              <=> topup[u].status \in {"paid", "refunded"}
  BY DEF Relabels, SetStatus, TypeOK
<1>3. QED
  BY <1>1, <1>2 DEF AllCredited, Credited

LEMMA StartCredits ==
    ASSUME TypeOK, AllCredited, NEW t \in TopupIds, StartTopup(t)
    PROVE  AllCredited'
<1>1. ledger' = ledger /\ intent' = intent
  BY DEF StartTopup, CreateTopup, PromptPayAnswers, SetTopupPayment, MarkFailed,
         Crash, wallet, stripe
<1>2. \A u \in TopupIds :
          topup'[u].status \in {"paid", "refunded"}
              <=> topup[u].status \in {"paid", "refunded"}
  <2>1. CASE CreateTopup(t)
    BY <2>1 DEF CreateTopup, NoTopup, TypeOK
  <2>2. CASE SetTopupPayment(t)
    BY <2>2 DEF SetTopupPayment, TypeOK
  <2>3. CASE MarkFailed(t)
    BY <2>3 DEF MarkFailed, SetStatus, TypeOK
  <2>4. CASE PromptPayAnswers(t) \/ Crash(t)
    BY <2>4 DEF PromptPayAnswers, Crash
  <2>5. QED
    BY <2>1, <2>2, <2>3, <2>4 DEF StartTopup
<1>3. QED
  BY <1>1, <1>2 DEF AllCredited, Credited

\* What was received is never taken back from the record of the payment.
LEMMA StripeCredits ==
    ASSUME TypeOK, AllCredited, ReceivedWhenPaid, NEW t \in TopupIds, Stripe(t)
    PROVE  AllCredited' /\ ReceivedWhenPaid'
<1>1. topup' = topup /\ ledger' = ledger
  BY DEF Stripe, PaymentCreated, PaymentSucceeds, PaymentFails,
         PaymentCanceled, PaymentRefunded, Intent, wallet
<1>2. /\ \A u \in TopupIds : intent[u].received = "amount"
                                 => intent'[u].received = "amount"
      /\ ReceivedWhenPaid'
  <2>1. CASE PaymentCreated(t)
    BY <2>1 DEF PaymentCreated, Intent, ReceivedWhenPaid, TypeOK
  <2>2. CASE PaymentSucceeds(t)
    BY <2>2 DEF PaymentSucceeds, Intent, ReceivedWhenPaid, TypeOK
  <2>3. CASE PaymentFails(t)
    BY <2>3 DEF PaymentFails, Intent, ReceivedWhenPaid, TypeOK
  <2>4. CASE PaymentCanceled(t)
    BY <2>4 DEF PaymentCanceled, Intent, ReceivedWhenPaid, TypeOK
  <2>5. CASE PaymentRefunded(t)
    BY <2>5 DEF PaymentRefunded, Intent, ReceivedWhenPaid, TypeOK
  <2>6. QED
    BY <2>1, <2>2, <2>3, <2>4, <2>5 DEF Stripe
<1>3. QED
  BY <1>1, <1>2 DEF AllCredited, Credited

LEMMA CreditSteps ==
    TypeOK /\ AllCredited /\ ReceivedWhenPaid /\ [Next]_vars
        => AllCredited' /\ ReceivedWhenPaid'
<1> SUFFICES ASSUME TypeOK, AllCredited, ReceivedWhenPaid, [Next]_vars
             PROVE  AllCredited' /\ ReceivedWhenPaid'
  OBVIOUS
<1>1. ASSUME UNCHANGED intent PROVE ReceivedWhenPaid'
  BY <1>1 DEF ReceivedWhenPaid
<1>2. ASSUME NEW t \in TopupIds, StartTopup(t)
      PROVE  AllCredited' /\ ReceivedWhenPaid'
  <2>1. UNCHANGED intent
    BY <1>2 DEF StartTopup, CreateTopup, PromptPayAnswers, SetTopupPayment,
                MarkFailed, Crash, stripe
  <2>2. QED
    BY <1>1, <1>2, <2>1, StartCredits
<1>3. ASSUME NEW t \in TopupIds, NEW type \in EventTypes, Deliver(t, type)
      PROVE  AllCredited' /\ ReceivedWhenPaid'
  <2>1. UNCHANGED intent
    BY <1>3 DEF Deliver, stripe
  <2>2. CASE UNCHANGED <<topup, wallet, intent>>
    BY <1>1, <2>1, <2>2 DEF wallet, AllCredited
  <2>3. CASE Pays(t)
    BY <1>1, <2>1, <2>3, PaysCredits
  <2>4. CASE Relabels(t)
    BY <1>1, <2>1, <2>4, RelabelsCredits
  <2>5. QED
    BY <1>3, <2>2, <2>3, <2>4, DeliverCases
<1>4. CASE UNCHANGED vars
  BY <1>4 DEF vars, AllCredited, ReceivedWhenPaid
<1>5. QED
  BY <1>2, <1>3, <1>4, StripeCredits DEF Next

\* However often and in whatever order Stripe's events arrive, and wherever the
\* call that started the top-up died, a top-up is credited at most once, with
\* its package's credits, only for a payment of its full amount, and exactly
\* when it says so (HandlePaymentWebhook, MarkTopupPaid).
THEOREM CreditsExact == Spec => []CreditedOncePerPayment
<1>1. Init => AllCredited /\ ReceivedWhenPaid
  BY TopupsHaveProviders
     DEF Init, NoTopup, AllCredited, Credited, RowsWith, ReceivedWhenPaid
<1>2. QED
  BY <1>1, TypeCorrect, CreditSteps, CreditedIsCreditedOnce, PTL DEF Spec

-----------------------------------------------------------------------------
(* The balance.                                                            *)

LEMMA PaysBalances ==
    ASSUME TypeOK, BalanceIsLedger, NEW t \in TopupIds, Pays(t)
    PROVE  BalanceIsLedger'
<1> DEFINE p == ProviderOf[t]
           e == Entry("top_up", t, CreditOf[t])
<1>1. /\ p \in Providers /\ CreditOf[t] \in Int /\ "top_up" \in TxTypes
      /\ ledger[p] \in Seq(RowSet(TopupIds)) /\ balance[p] \in Nat
      /\ balance[p] + CreditOf[t] >= 0
      /\ Accounts(ledger[p], balance[p])
  BY TopupsHaveProviders, PackagesGiveCredit DEF TypeOK, BalanceIsLedger, TxTypes
<1>2. Accounts(Posted(ledger[p], balance[p], e),
               PostedBalance(ledger[p], balance[p], e))
  BY <1>1, PostedAccounts
<1> HIDE DEF e
<1>3. /\ ledger'[p] = Posted(ledger[p], balance[p], e)
      /\ balance'[p] = PostedBalance(ledger[p], balance[p], e)
      /\ \A q \in Providers \ {p} :
             ledger'[q] = ledger[q] /\ balance'[q] = balance[q]
  BY <1>1 DEF Pays, TypeOK, e
<1>4. QED
  BY <1>2, <1>3 DEF BalanceIsLedger

\* Top-ups keep the cached balance equal to what the ledger adds up to.
THEOREM BalancesHold == Spec => []BalanceIsLedger
<1>1. Init => BalanceIsLedger
  <2>1. Accounts(<<>>, 0)
    BY DEF Accounts, Before
  <2>2. QED
    BY <2>1 DEF Init, BalanceIsLedger
<1>2. TypeOK /\ BalanceIsLedger /\ [Next]_vars => BalanceIsLedger'
  <2> SUFFICES ASSUME TypeOK, BalanceIsLedger, [Next]_vars
               PROVE  BalanceIsLedger'
    OBVIOUS
  <2>1. ASSUME UNCHANGED wallet PROVE BalanceIsLedger'
    BY <2>1 DEF wallet, BalanceIsLedger
  <2>2. ASSUME NEW t \in TopupIds, StartTopup(t) PROVE UNCHANGED wallet
    BY <2>2 DEF StartTopup, CreateTopup, PromptPayAnswers, SetTopupPayment,
                MarkFailed, Crash
  <2>3. ASSUME NEW t \in TopupIds, Stripe(t) PROVE UNCHANGED wallet
    BY <2>3 DEF Stripe, PaymentCreated, PaymentSucceeds, PaymentFails,
                PaymentCanceled, PaymentRefunded, Intent
  <2>4. ASSUME NEW t \in TopupIds, NEW type \in EventTypes, Deliver(t, type)
        PROVE  BalanceIsLedger'
    <3>1. CASE Relabels(t) \/ UNCHANGED <<topup, wallet, intent>>
      BY <2>1, <3>1 DEF Relabels
    <3>2. QED
      BY <2>4, <3>1, DeliverCases, PaysBalances
  <2>5. CASE UNCHANGED vars
    BY <2>1, <2>5 DEF vars, wallet
  <2>6. QED
    BY <2>1, <2>2, <2>3, <2>4, <2>5 DEF Next
<1>3. QED
  BY <1>1, <1>2, TypeCorrect, PTL DEF Spec

-----------------------------------------------------------------------------
(* Status moves.                                                           *)

\* Nothing happens to a top-up before the call that creates it.
Started ==
    \A t \in TopupIds :
        /\ topup[t].status = "absent" => start[t] = "idle"
        /\ start[t] = "idle" => topup[t] = NoTopup /\ intent[t].status = "none"

\* One step of one top-up: a legal move that never forgets the payment.
Lawful(u) ==
    /\ topup'[u].status # topup[u].status
           => <<topup[u].status, topup'[u].status>> \in StatusMoves
    /\ topup[u].paymentIntent => topup'[u].paymentIntent
    /\ topup'[u].status \in {"paid", "refunded"}
           => topup[u].status \in {"paid", "refunded"} \/ topup'[u].paymentIntent

\* A delivery finds a top-up that was created.
LEMMA DeliverMoves ==
    ASSUME TypeOK, Started, ReceivedWhenPaid,
           NEW t \in TopupIds, NEW type \in EventTypes, Deliver(t, type)
    PROVE  Started' /\ \A u \in TopupIds : Lawful(u)
<1>1. UNCHANGED <<start, intent>>
  BY DEF Deliver, stripe
<1>2. CASE Pays(t)
  <2>1. topup[t].status \notin {"absent", "paid", "refunded"} /\ start[t] # "idle"
    BY <1>2 DEF Pays, Settled, PaymentMatches, Started, ReceivedWhenPaid, NoTopup
  <2>2. /\ topup'[t] = Paid(topup[t])
        /\ \A u \in TopupIds \ {t} : topup'[u] = topup[u]
    BY <1>2 DEF Pays, TypeOK
  <2>3. topup[t].status \in {"pending", "failed", "expired"}
    BY <2>1 DEF TypeOK, TopupStatus
  <2>4. Lawful(t) /\ topup'[t].status = "paid"
    BY <2>2, <2>3 DEF Lawful, Paid, StatusMoves
  <2>5. \A u \in TopupIds \ {t} : Lawful(u)
    BY <2>2 DEF Lawful
  <2>6. Started'
    BY <1>1, <2>1, <2>2, <2>4 DEF Started
  <2>7. QED
    BY <2>4, <2>5, <2>6
<1>3. CASE Relabels(t)
  <2>1. PICK from \in {"pending", "paid"}, to \in {"failed", "expired", "refunded"} :
            SetStatus(t, from, to) /\ (from = "paid" <=> to = "refunded")
    BY <1>3 DEF Relabels
  <2>2. CASE topup[t].status # from
    <3>1. topup' = topup
      BY <2>1, <2>2 DEF SetStatus
    <3>2. QED
      BY <1>1, <3>1 DEF Started, Lawful
  <2>3. CASE topup[t].status = from
    <3>1. /\ topup'[t] = [topup[t] EXCEPT !.status = to]
          /\ \A u \in TopupIds \ {t} : topup'[u] = topup[u]
      BY <2>1, <2>3 DEF SetStatus, TypeOK
    <3>2. topup'[t].status = to /\ topup'[t].paymentIntent = topup[t].paymentIntent
      BY <3>1 DEF TypeOK
    <3>3. Lawful(t)
      BY <2>1, <2>3, <3>2 DEF Lawful, StatusMoves
    <3>4. \A u \in TopupIds \ {t} : Lawful(u)
      BY <3>1 DEF Lawful
    <3>5. start[t] # "idle"
      BY <2>3 DEF Started, NoTopup
    <3>6. Started'
      BY <1>1, <3>1, <3>2, <3>5 DEF Started
    <3>7. QED
      BY <3>3, <3>4, <3>6
  <2>4. QED
    BY <2>2, <2>3
<1>4. CASE UNCHANGED <<topup, wallet, intent>>
  BY <1>1, <1>4 DEF Started, Lawful
<1>5. QED
  BY <1>2, <1>3, <1>4, DeliverCases

LEMMA StartMoves ==
    ASSUME TypeOK, Started, NEW t \in TopupIds, StartTopup(t)
    PROVE  Started' /\ \A u \in TopupIds : Lawful(u)
<1>1. CASE CreateTopup(t)
  <2>1. /\ topup'[t] = [status |-> "pending", paymentIntent |-> FALSE]
        /\ topup[t] = NoTopup /\ start'[t] = "asking" /\ intent' = intent
        /\ \A u \in TopupIds \ {t} : topup'[u] = topup[u] /\ start'[u] = start[u]
    BY <1>1 DEF CreateTopup, stripe, TypeOK
  <2>2. Lawful(t)
    BY <2>1 DEF Lawful, NoTopup, StatusMoves
  <2>3. \A u \in TopupIds \ {t} : Lawful(u)
    BY <2>1 DEF Lawful
  <2>4. Started'
    BY <2>1 DEF Started
  <2>5. QED
    BY <2>2, <2>3, <2>4
<1>2. CASE PromptPayAnswers(t) \/ Crash(t)
  <2>1. /\ UNCHANGED <<topup, intent>>
        /\ start[t] # "idle" /\ start'[t] # "idle"
        /\ \A u \in TopupIds \ {t} : start'[u] = start[u]
    BY <1>2 DEF PromptPayAnswers, Crash, stripe, TypeOK
  <2>2. QED
    BY <2>1 DEF Started, Lawful
<1>3. CASE SetTopupPayment(t)
  <2>1. /\ UNCHANGED intent
        /\ start[t] # "idle" /\ start'[t] # "idle"
        /\ topup'[t].status = topup[t].status /\ topup'[t].paymentIntent
        /\ \A u \in TopupIds \ {t} : topup'[u] = topup[u] /\ start'[u] = start[u]
    BY <1>3 DEF SetTopupPayment, stripe, TypeOK
  <2>2. QED
    BY <2>1 DEF Started, Lawful
<1>4. CASE MarkFailed(t)
  <2>1. /\ UNCHANGED intent
        /\ start[t] # "idle" /\ start'[t] # "idle"
        /\ topup'[t].paymentIntent = topup[t].paymentIntent
        /\ \/ topup'[t].status = topup[t].status
           \/ topup[t].status = "pending" /\ topup'[t].status = "failed"
        /\ \A u \in TopupIds \ {t} : topup'[u] = topup[u] /\ start'[u] = start[u]
    BY <1>4 DEF MarkFailed, SetStatus, stripe, TypeOK
  <2>2. QED
    BY <2>1 DEF Started, Lawful, StatusMoves
<1>5. QED
  BY <1>1, <1>2, <1>3, <1>4 DEF StartTopup

LEMMA StripeMoves ==
    ASSUME TypeOK, Started, NEW t \in TopupIds, Stripe(t)
    PROVE  Started' /\ \A u \in TopupIds : Lawful(u)
<1>1. UNCHANGED <<topup, start>>
  BY DEF Stripe, PaymentCreated, PaymentSucceeds, PaymentFails,
         PaymentCanceled, PaymentRefunded, Intent
<1>2. start[t] # "idle"
  BY DEF Stripe, PaymentCreated, PaymentSucceeds, PaymentFails,
         PaymentCanceled, PaymentRefunded, Intent, Started
<1>3. \A u \in TopupIds \ {t} : intent'[u] = intent[u]
  BY DEF Stripe, PaymentCreated, PaymentSucceeds, PaymentFails,
         PaymentCanceled, PaymentRefunded, Intent, TypeOK
<1>4. QED
  BY <1>1, <1>2, <1>3 DEF Started, Lawful

LEMMA MoveSteps ==
    TypeOK /\ Started /\ ReceivedWhenPaid /\ [Next]_vars
        => Started' /\ \A u \in TopupIds : Lawful(u)
<1> SUFFICES ASSUME TypeOK, Started, ReceivedWhenPaid, [Next]_vars
             PROVE  Started' /\ \A u \in TopupIds : Lawful(u)
  OBVIOUS
<1>1. CASE UNCHANGED vars
  BY <1>1 DEF vars, Started, Lawful
<1>2. ASSUME NEW t \in TopupIds, Stripe(t)
      PROVE  Started' /\ \A u \in TopupIds : Lawful(u)
  BY <1>2, StripeMoves
<1>3. ASSUME NEW t \in TopupIds, StartTopup(t)
      PROVE  Started' /\ \A u \in TopupIds : Lawful(u)
  BY <1>3, StartMoves
<1>4. ASSUME NEW t \in TopupIds, NEW type \in EventTypes, Deliver(t, type)
      PROVE  Started' /\ \A u \in TopupIds : Lawful(u)
  BY <1>4, DeliverMoves
<1>5. QED
  BY <1>1, <1>2, <1>3, <1>4 DEF Next

Known == AllCredited /\ ReceivedWhenPaid /\ Started

LEMMA KnownAlways == Spec => [](TypeOK /\ Known)
<1>1. Init => Known
  BY TopupsHaveProviders
     DEF Init, NoTopup, AllCredited, Credited, RowsWith, ReceivedWhenPaid,
         Started, Known
<1>2. TypeOK /\ Known /\ [Next]_vars => Known'
  BY CreditSteps, MoveSteps DEF Known
<1>3. QED
  BY <1>1, <1>2, TypeCorrect, PTL DEF Spec

\* A refund made in Stripe finds the top-up it is of, whichever of the webhook
\* and SetTopupPayment recorded the payment.
THEOREM IntentsFound == Spec => []PaidIsFoundByIntent
<1>1. Init => PaidIsFoundByIntent
  BY DEF Init, NoTopup, PaidIsFoundByIntent
<1>2. TypeOK /\ Known /\ PaidIsFoundByIntent /\ [Next]_vars
          => PaidIsFoundByIntent'
  BY MoveSteps DEF Known, PaidIsFoundByIntent, Lawful
<1>3. QED
  BY <1>1, <1>2, KnownAlways, PTL DEF Spec

\* A paid top-up is never downgraded, and every status change is one of the
\* seven the code means to make.
THEOREM NeverDowngraded == Spec => SettledStaysSettled
<1>1. TypeOK /\ Known /\ [Next]_vars
          => [\A t \in TopupIds :
                 topup'[t].status # topup[t].status
                     => <<topup[t].status, topup'[t].status>> \in StatusMoves]_vars
  BY MoveSteps DEF Known, Lawful
<1>2. QED
  BY <1>1, KnownAlways, PTL DEF Spec, SettledStaysSettled
=============================================================================
