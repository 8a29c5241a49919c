---------------------------- MODULE LedgerProofs ----------------------------
(***************************************************************************)
(* What applyLedger keeps, for any set R of things a key can refer to.     *)
(***************************************************************************)
EXTENDS Ledger, SequenceTheorems, TLAPS

\* Appending a row: the rows with its key are the old ones and the new one, the
\* rows with another key are the old ones.
LEMMA AppendedRow ==
    ASSUME NEW R, NEW rs \in Seq(RowSet(R)), NEW e \in RowSet(R)
    PROVE  /\ DOMAIN Append(rs, e) = DOMAIN rs \cup {Len(rs) + 1}
           /\ \A i \in DOMAIN rs : Append(rs, e)[i] = rs[i]
           /\ Append(rs, e)[Len(rs) + 1] = e
           /\ \A i \in DOMAIN rs : i < Len(rs) + 1
<1> DEFINE new == Append(rs, e)
<1>1. /\ Len(rs) \in Nat /\ DOMAIN rs = 1..Len(rs)
      /\ DOMAIN new = 1..(Len(rs) + 1)
      /\ new[Len(rs) + 1] = e
      /\ \A i \in 1..Len(rs) : new[i] = rs[i]
  OBVIOUS
<1> HIDE DEF new
<1>2. DOMAIN new = DOMAIN rs \cup {Len(rs) + 1}
  BY <1>1
<1>3. \A i \in DOMAIN rs : i < Len(rs) + 1
  BY <1>1
<1>4. QED
  BY <1>1, <1>2, <1>3 DEF new

LEMMA SameKeyRows ==
    ASSUME NEW R, NEW rs \in Seq(RowSet(R)), NEW e \in RowSet(R), NEW key,
           e.key = key
    PROVE  RowsWith(Append(rs, e), key) = RowsWith(rs, key) \cup {Len(rs) + 1}
<1> DEFINE new == Append(rs, e)
<1>1. /\ DOMAIN new = DOMAIN rs \cup {Len(rs) + 1}
      /\ \A i \in DOMAIN rs : new[i] = rs[i]
      /\ new[Len(rs) + 1] = e
  BY AppendedRow
<1> HIDE DEF new
<1>2. RowsWith(new, key) = RowsWith(rs, key) \cup {Len(rs) + 1}
  BY <1>1 DEF RowsWith
<1>3. QED
  BY <1>2 DEF new

LEMMA OtherKeyRows ==
    ASSUME NEW R, NEW rs \in Seq(RowSet(R)), NEW e \in RowSet(R), NEW key,
           e.key # key
    PROVE  RowsWith(Append(rs, e), key) = RowsWith(rs, key)
<1> DEFINE new == Append(rs, e)
<1>1. /\ DOMAIN new = DOMAIN rs \cup {Len(rs) + 1}
      /\ \A i \in DOMAIN rs : new[i] = rs[i]
      /\ new[Len(rs) + 1] = e
  BY AppendedRow
<1> HIDE DEF new
<1>2. RowsWith(new, key) = RowsWith(rs, key)
  BY <1>1 DEF RowsWith
<1>3. QED
  BY <1>2 DEF new

-----------------------------------------------------------------------------

\* A row that continues from the balance keeps the books.
LEMMA AppendAccounts ==
    ASSUME NEW R, NEW rs \in Seq(RowSet(R)), NEW b \in Nat, NEW e \in RowSet(R),
           Accounts(rs, b), e.after = b + e.amount
    PROVE  Accounts(Append(rs, e), e.after)
<1> DEFINE new == Append(rs, e)
<1>1. /\ Len(new) = Len(rs) + 1 /\ Len(rs) \in Nat
      /\ new[Len(rs) + 1] = e
      /\ \A i \in 1..Len(rs) : new[i] = rs[i]
      /\ DOMAIN new = 1..(Len(rs) + 1) /\ DOMAIN rs = 1..Len(rs)
  OBVIOUS
<1>2. e.after \in Nat
  BY DEF RowSet
<1> HIDE DEF new
<1>3. \A i \in 1..(Len(rs) + 1) : Before(new, i) = Before(rs, i)
  <2>1. SUFFICES ASSUME NEW i \in 1..(Len(rs) + 1)
                 PROVE  Before(new, i) = Before(rs, i)
    OBVIOUS
  <2>2. CASE i = 1
    BY <2>2 DEF Before
  <2>3. CASE i # 1
    <3>1. i - 1 \in 1..Len(rs)
      BY <1>1, <2>3
    <3>2. QED
      BY <1>1, <2>3, <3>1 DEF Before
  <2>4. QED
    BY <2>2, <2>3
<1>4. \A i \in DOMAIN new : new[i].after = Before(new, i) + new[i].amount
  <2>1. ASSUME NEW i \in 1..Len(rs)
        PROVE  new[i].after = Before(new, i) + new[i].amount
    BY <1>1, <1>3, <2>1 DEF Accounts
  <2>2. new[Len(rs) + 1].after = Before(new, Len(rs) + 1) + new[Len(rs) + 1].amount
    BY <1>1, <1>3 DEF Accounts
  <2>3. QED
    BY <1>1, <2>1, <2>2
<1>5. e.after = Before(new, Len(new) + 1)
  <2>1. Len(new) + 1 # 1 /\ Len(new) + 1 - 1 = Len(rs) + 1
    BY <1>1
  <2>2. QED
    BY <1>1, <2>1 DEF Before
<1>6. QED
  BY <1>2, <1>4, <1>5 DEF Accounts, new

\* applyLedger keeps the books, whether the key was already there or not.
LEMMA PostedAccounts ==
    ASSUME NEW R, NEW rs \in Seq(RowSet(R)), NEW b \in Nat, Accounts(rs, b),
           NEW type \in TxTypes, NEW ref \in R,
           NEW amount \in Int, b + amount >= 0
    PROVE  LET e == Entry(type, ref, amount)
           IN  Accounts(Posted(rs, b, e), PostedBalance(rs, b, e))
<1> DEFINE e == Entry(type, ref, amount)
           row == [key |-> e.key, amount |-> e.amount, after |-> b + e.amount]
<1>1. e.key = Key(type, ref) /\ e.amount = amount
  BY DEF Entry
<1>2. b + amount \in Nat
  OBVIOUS
<1>3. /\ row \in RowSet(R)
      /\ row.after = b + e.amount /\ row.amount = e.amount
  BY <1>1, <1>2 DEF RowSet, Key
<1>4. CASE Applied(rs, e.key)
  BY <1>4 DEF Posted, PostedBalance
<1>5. CASE ~Applied(rs, e.key)
  <2>1. Accounts(Append(rs, row), b + e.amount)
    BY <1>3, AppendAccounts
  <2>2. QED
    BY <1>5, <2>1 DEF Posted, PostedBalance
<1>6. QED
  BY <1>4, <1>5

\* applyLedger leaves a ledger and a balance that is not negative.
LEMMA PostedTypes ==
    ASSUME NEW R, NEW rs \in Seq(RowSet(R)), NEW b \in Nat,
           NEW type \in TxTypes, NEW ref \in R, NEW amount \in Int,
           b + amount >= 0
    PROVE  LET e == Entry(type, ref, amount)
           IN  /\ Posted(rs, b, e) \in Seq(RowSet(R))
               /\ PostedBalance(rs, b, e) \in Nat
<1> DEFINE e == Entry(type, ref, amount)
           row == [key |-> e.key, amount |-> e.amount, after |-> b + e.amount]
<1>1. e.key = Key(type, ref) /\ e.amount = amount /\ b + amount \in Nat
  BY DEF Entry
<1>2. row \in RowSet(R)
  BY <1>1 DEF RowSet, Key
<1> HIDE DEF row
<1>3. Append(rs, row) \in Seq(RowSet(R))
  BY <1>2
<1>4. QED
  BY <1>1, <1>3 DEF Posted, PostedBalance, row
=============================================================================
