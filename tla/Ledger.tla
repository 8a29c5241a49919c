------------------------------- MODULE Ledger -------------------------------
(***************************************************************************)
(* The provider credit ledger: an append-only sequence of rows per         *)
(* provider, every row carrying the idempotency key of one economic event  *)
(* and the balance it leaves behind.  The cached balance of the provider   *)
(* row lives in the modules that use these operators, as it does in the    *)
(* database (service_providers.credit_balance).                            *)
(***************************************************************************)
EXTENDS Integers, Sequences

TxTypes ==
    {"welcome_credit", "top_up", "match_fee", "refund", "admin_adjustment"}

\* An idempotency key: the kind of event and the thing it happened to (the
\* request of an offer or match, or a top-up).  The provider is the ledger's.
Key(type, ref) == [type |-> type, ref |-> ref]

Entry(type, ref, amount) == [key |-> Key(type, ref), amount |-> amount]

\* A ledger row: the entry and balance_after.
RowSet(Refs) ==
    [key : [type : TxTypes, ref : Refs], amount : Int, after : Nat]

\* The idempotency key is already in the table.
Applied(rows, key) == \E i \in DOMAIN rows : rows[i].key = key

\* applyLedger: the row a new entry becomes, and what a repeated one leaves.
Posted(rows, balance, e) ==
    IF Applied(rows, e.key)
    THEN rows
    ELSE Append(rows, [key |-> e.key, amount |-> e.amount,
                       after |-> balance + e.amount])

PostedBalance(rows, balance, e) ==
    IF Applied(rows, e.key) THEN balance ELSE balance + e.amount

-----------------------------------------------------------------------------
\* The balance before row i was written.
Before(rows, i) == IF i = 1 THEN 0 ELSE rows[i - 1].after

\* The rows account for the cached balance: every row continues from the one
\* before it, no balance was ever negative, and the cache is the last one.
\* (This says that the cache is the sum of the amounts, without a recursion.)
Accounts(rows, balance) ==
    /\ \A i \in DOMAIN rows : rows[i].after = Before(rows, i) + rows[i].amount
    /\ balance = Before(rows, Len(rows) + 1)
    /\ balance >= 0

\* The rows with this key.
RowsWith(rs, key) == {i \in DOMAIN rs : rs[i].key = key}
=============================================================================
