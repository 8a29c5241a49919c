--------------------------- MODULE MatchingProofs ---------------------------
(***************************************************************************)
(* Proofs about Matching for every set of users, requests and sessions,    *)
(* every policy and every duration, in parts that build on one another:    *)
(*   1. every variable has its type;                                       *)
(*   2. requests, offers and matches agree;                                *)
(*   3. what a step may never do, and that the timeline tells each step;   *)
(*   4. the provider's credit: balance, fees and refunds;                  *)
(*   5. Matching implements MatchContract;                                 *)
(*   6. what the screens of MatchViews show, and to whom.                  *)
(***************************************************************************)
EXTENDS MatchViews, LedgerProofs

(***************************************************************************)
(* Part 1: types.                                                          *)
(***************************************************************************)

USE DEF Role, OfferStatus, Status, JobStatus, ClosedStatus, OfferTaking, Idle
-----------------------------------------------------------------------------
(* What is in a call, by its kind.                                         *)

LEMMA CallFields ==
    ASSUME NEW c \in Calls
    PROVE  /\ c.op \in {"create", "offer", "select", "reject", "accept", "load",
                        "update", "cancel"} => c.req \in Requests
           /\ c.op \in {"offer", "select", "reject", "accept"}
                  => c.prov \in Providers
           /\ c.op \in {"create", "offer", "select", "reject", "accept",
                        "update", "cancel"} => c.now \in Nat
           /\ c.op = "accept" => c.fee \in Nat /\ c.charge \in BOOLEAN
           /\ c.op = "load" => /\ c.user \in Users
                               /\ c.seen \in StoredRows
                               /\ c.want \in {"cancel", "on_the_way", "arrived",
                                              "completed"}
           /\ c.op = "update" => /\ c.user \in Users
                                 /\ c.from \in Status
                                 /\ c.to \in Status
                                 /\ c.role \in Role
           /\ c.op = "cancel" => /\ c.user \in Users
                                 /\ c.from \in Status
                                 /\ c.role \in Role
                                 /\ c.until \in Nat
                                 /\ c.refund \in Providers \cup {None}
BY DEF Calls

-----------------------------------------------------------------------------
(* What lockRequest leaves.                                                *)

\* Only a request that takes offers can be stale, and it becomes open or
\* expired.
LEMMA EffectiveMoves ==
    ASSUME NEW row \in RequestRows, NEW now \in Nat
    PROVE  \/ Effective(row, now) = row.status
           \/ /\ row \in StoredRows
              /\ row.status \in OfferTaking
              /\ Effective(row, now) \in {"open", "expired"}
<1>1. CASE row = NoRequest
  BY <1>1 DEF NoRequest, Effective, SelectionTimedOut
<1>2. CASE row \in StoredRows
  BY <1>2 DEF StoredRows, Effective, SelectionTimedOut
<1>3. QED
  BY <1>1, <1>2 DEF RequestRows

LEMMA LockedTypes ==
    ASSUME TypeOK, NEW r \in Requests, NEW now \in Nat
    PROVE  /\ Locked(r, now) \in RequestRows
           /\ LockedOffers(r, now) \in [Providers -> OfferStatus]
           /\ LockedEvent(r, now) \in Status \cup {"absent"}
<1>1. /\ req[r] \in RequestRows
      /\ offer[r] \in [Providers -> OfferStatus]
      /\ timeline[r] \in Status \cup {"absent"}
  BY DEF TypeOK
<1>2. CASE Stale(r, now)
  <2>1. /\ req[r] \in StoredRows
        /\ Effective(req[r], now) \in {"open", "expired"}
    BY <1>1, <1>2, EffectiveMoves DEF Stale
  <2>2. Locked(r, now) \in StoredRows
    BY <1>2, <2>1 DEF Locked, StoredRows
  <2>3. LockedOffers(r, now) \in [Providers -> OfferStatus]
    BY <1>1, <1>2 DEF LockedOffers, ExpireSelection
  <2>4. LockedEvent(r, now) \in Status \cup {"absent"}
    BY <1>2, <2>1 DEF LockedEvent
  <2>5. QED
    BY <2>2, <2>3, <2>4 DEF RequestRows
<1>3. CASE ~Stale(r, now)
  BY <1>1, <1>3 DEF Locked, LockedOffers, LockedEvent
<1>4. QED
  BY <1>2, <1>3

-----------------------------------------------------------------------------
(* What a transaction writes has the type of what it writes to.            *)

LEMMA StoreTypes ==
    ASSUME TypeOK, NEW r \in Requests, NEW row \in RequestRows,
           NEW offs \in [Providers -> OfferStatus],
           NEW event \in Status \cup {"absent"},
           Store(r, row, offs, event)
    PROVE  /\ req' \in [Requests -> RequestRows]
           /\ offer' \in [Requests -> [Providers -> OfferStatus]]
           /\ timeline' \in [Requests -> Status \cup {"absent"}]
BY DEF Store, TypeOK

LEMMA RefuseTypes ==
    ASSUME TypeOK, NEW r \in Requests, NEW now \in Nat, Refuse(r, now)
    PROVE  /\ req' \in [Requests -> RequestRows]
           /\ offer' \in [Requests -> [Providers -> OfferStatus]]
           /\ timeline' \in [Requests -> Status \cup {"absent"}]
           /\ UNCHANGED <<match, balance, ledger>>
BY LockedTypes, StoreTypes DEF Refuse, wallet

\* Posting an entry that the balance can bear.
LEMMA PostTypes ==
    ASSUME TypeOK, NEW p \in Providers, NEW type \in TxTypes,
           NEW ref \in Requests \cup {None}, NEW amount \in Int,
           balance[p] + amount >= 0,
           Post(p, Entry(type, ref, amount))
    PROVE  /\ balance' \in [Providers -> Nat]
           /\ ledger' \in [Providers -> Seq(RowSet(Requests \cup {None}))]
<1>1. balance[p] \in Nat /\ ledger[p] \in Seq(RowSet(Requests \cup {None}))
  BY DEF TypeOK
<1>2. /\ Posted(ledger[p], balance[p], Entry(type, ref, amount))
             \in Seq(RowSet(Requests \cup {None}))
      /\ PostedBalance(ledger[p], balance[p], Entry(type, ref, amount)) \in Nat
  BY <1>1, PostedTypes
<1>3. QED
  BY <1>2 DEF Post, TypeOK

LEMMA CallTypes ==
    ASSUME TypeOK, NEW s \in Sessions, NEW c \in Calls,
           call' = [call EXCEPT ![s] = c]
    PROVE  call' \in [Sessions -> Calls]
BY DEF TypeOK

LEMMA ReturnTypes ==
    ASSUME TypeOK, NEW s \in Sessions, Return(s)
    PROVE  call' \in [Sessions -> Calls]
BY CallTypes DEF Return, Calls

-----------------------------------------------------------------------------
(* Type correctness, action by action.                                     *)

LEMMA ProfileTypes == TypeOK /\ ProfileStep => TypeOK'
<1> SUFFICES ASSUME TypeOK, NEW p \in Providers,
                    \/ \E covers \in Coverages, available \in Availabilities :
                           \/ CreateProvider(p, covers, available)
                           \/ UpdateProvider(p, covers, available)
                    \/ AdminSetStatus(p)
                    \/ \E amount \in Adjustments : AdminAdjust(p, amount)
             PROVE  TypeOK'
  BY DEF ProfileStep
<1>1. ASSUME NEW covers \in Coverages, NEW available \in Availabilities,
             CreateProvider(p, covers, available)
      PROVE  TypeOK'
  <2>1. covers \in SUBSET Requests /\ available \in BOOLEAN
    BY CoveragesCoverRequests, ProfilesAreProviders
  <2>2. prov' \in [Providers -> [exists : BOOLEAN, active : BOOLEAN,
                                 available : BOOLEAN, covers : SUBSET Requests]]
    BY <1>1, <2>1 DEF CreateProvider, TypeOK
  <2>3. /\ balance' \in [Providers -> Nat]
        /\ ledger' \in [Providers -> Seq(RowSet(Requests \cup {None}))]
    <3>1. CASE policy.credit /\ policy.welcome > 0
      <4>1. policy.welcome \in Nat /\ balance[p] \in Nat
        BY PoliciesAreBilling DEF TypeOK
      <4>2. Post(p, Entry("welcome_credit", None, policy.welcome))
        BY <1>1, <3>1 DEF CreateProvider
      <4>3. "welcome_credit" \in TxTypes
        BY DEF TxTypes
      <4>4. policy.welcome \in Int /\ balance[p] + policy.welcome >= 0
        BY <4>1
      <4>5. QED
        BY <4>2, <4>3, <4>4, PostTypes
    <3>2. CASE ~(policy.credit /\ policy.welcome > 0)
      BY <1>1, <3>2 DEF CreateProvider, wallet, TypeOK
    <3>3. QED
      BY <3>1, <3>2
  <2>4. QED
    BY <1>1, <2>2, <2>3 DEF CreateProvider, rows, TypeOK
<1>2. ASSUME NEW covers \in Coverages, NEW available \in Availabilities,
             UpdateProvider(p, covers, available)
      PROVE  TypeOK'
  <2>1. covers \in SUBSET Requests /\ available \in BOOLEAN
    BY CoveragesCoverRequests, ProfilesAreProviders
  <2>2. QED
    BY ZenonT(60), <1>2, <2>1 DEF UpdateProvider, wallet, rows, TypeOK
<1>3. ASSUME AdminSetStatus(p) PROVE TypeOK'
  BY ZenonT(60), <1>3 DEF AdminSetStatus, wallet, rows, TypeOK
<1>4. ASSUME NEW amount \in Adjustments, AdminAdjust(p, amount) PROVE TypeOK'
  <2>1. amount \in Int /\ balance[p] \in Nat
        /\ ledger[p] \in Seq(RowSet(Requests \cup {None}))
    BY AdjustmentsAreInt DEF TypeOK
  <2>2. balance[p] + amount \in Nat
    BY <1>4, <2>1 DEF AdminAdjust
  <2>3. [key |-> Key("admin_adjustment", None), amount |-> amount,
         after |-> balance[p] + amount] \in RowSet(Requests \cup {None})
    BY <2>1, <2>2 DEF RowSet, Key, TxTypes
  <2> DEFINE row == [key |-> Key("admin_adjustment", None), amount |-> amount,
                     after |-> balance[p] + amount]
  <2>4. Append(ledger[p], row) \in Seq(RowSet(Requests \cup {None}))
    BY <2>1, <2>3
  <2>5. /\ ledger' = [ledger EXCEPT ![p] = Append(ledger[p], row)]
        /\ balance' = [balance EXCEPT ![p] = @ + amount]
        /\ UNCHANGED <<clock, policy, prov, rows, call>>
    BY <1>4 DEF AdminAdjust
  <2> HIDE DEF row
  <2>6. ledger' \in [Providers -> Seq(RowSet(Requests \cup {None}))]
    BY <2>4, <2>5 DEF TypeOK
  <2>7. balance' \in [Providers -> Nat]
    BY <2>2, <2>5 DEF TypeOK
  <2>8. QED
    BY <2>5, <2>6, <2>7 DEF rows, TypeOK
<1>5. QED
  BY <1>1, <1>2, <1>3, <1>4

LEMMA BeginTypes ==
    ASSUME TypeOK, NEW s \in Sessions, Begin(s)
    PROVE  TypeOK'
<1>1. ASSUME NEW c \in Calls, Enter(s, c), Reading PROVE TypeOK'
  BY <1>1 DEF Enter, Reading, wallet, rows, TypeOK
<1>2. clock \in Nat /\ policy.fee \in Nat /\ Charges(policy) \in BOOLEAN
  BY PoliciesAreBilling DEF TypeOK, Charges
<1>3. ASSUME NEW r \in Requests, BeginCreate(s, r) PROVE TypeOK'
  <2>1. [op |-> "create", req |-> r, now |-> clock] \in Calls
    BY <1>2 DEF Calls
  <2>2. QED
    BY <1>1, <1>3, <2>1 DEF BeginCreate
<1>4. ASSUME NEW r \in Requests, NEW p \in Providers,
             \/ BeginOffer(s, p, r)
             \/ BeginSelect(s, p, r)
             \/ BeginReject(s, p, r)
      PROVE  TypeOK'
  <2>1. \A op \in {"offer", "select", "reject"} :
            [op |-> op, req |-> r, prov |-> p, now |-> clock] \in Calls
    BY <1>2 DEF Calls
  <2>2. QED
    BY <1>1, <1>4, <2>1 DEF BeginOffer, BeginSelect, BeginReject
<1>5. ASSUME NEW r \in Requests, NEW p \in Providers, BeginAccept(s, p, r)
      PROVE  TypeOK'
  <2>1. [op |-> "accept", req |-> r, prov |-> p, fee |-> policy.fee,
         charge |-> Charges(policy), now |-> clock] \in Calls
    BY <1>2 DEF Calls
  <2>2. QED
    BY <1>1, <1>5, <2>1 DEF BeginAccept
<1>6. ASSUME NEW r \in Requests, NEW u \in Users,
             NEW want \in {"cancel", "on_the_way", "arrived", "completed"},
             Load(s, u, r, want)
      PROVE  TypeOK'
  <2>1. req[r] \in StoredRows
    BY <1>6 DEF Load, Exists, TypeOK, RequestRows, NoRequest
  <2>2. [op |-> "load", req |-> r, user |-> u, seen |-> req[r], want |-> want]
            \in Calls
    BY <2>1 DEF Calls
  <2>3. QED
    BY <1>1, <1>6, <2>2 DEF Load
<1>7. QED
  BY <1>3, <1>4, <1>5, <1>6 DEF Begin

LEMMA RoleTypes ==
    ASSUME NEW u \in Users, NEW r \in Requests
    PROVE  RoleOf(u, r) \in {"customer", "provider", "none"}
BY DEF RoleOf

LEMMA MatchedProviderTypes ==
    ASSUME NEW r \in Requests
    PROVE  /\ MatchedProvider(r) \in Providers \cup {None}
           /\ MatchedProvider(r) # None =>
                  match[r][MatchedProvider(r)].status \in {"active", "completed"}
<1> DEFINE A == MatchedBy(r, "active")
           C == MatchedBy(r, "completed")
<1>1. CASE A # {}
  <2>1. MatchedProvider(r) = CHOOSE p \in A : TRUE
    BY <1>1 DEF MatchedProvider
  <2>2. MatchedProvider(r) \in A
    BY <1>1, <2>1
  <2>3. QED
    BY <2>2 DEF MatchedBy
<1>2. CASE A = {} /\ C # {}
  <2>1. MatchedProvider(r) = CHOOSE p \in C : TRUE
    BY <1>2 DEF MatchedProvider
  <2>2. MatchedProvider(r) \in C
    BY <1>2, <2>1
  <2>3. QED
    BY <2>2 DEF MatchedBy
<1>3. CASE A = {} /\ C = {}
  BY <1>3 DEF MatchedProvider
<1>4. QED
  BY <1>1, <1>2, <1>3

LEMMA DecideTypes ==
    ASSUME TypeOK, NEW s \in Sessions, Decide(s)
    PROVE  TypeOK'
<1> DEFINE c == call[s]
           from == Effective(c.seen, clock)
           role == RoleOf(c.user, c.req)
<1>1. c \in Calls /\ clock \in Nat
  BY DEF TypeOK
<1>2. c.op = "load"
  BY DEF Decide, DecideUpdate, DecideCancel
<1>3. /\ c.req \in Requests
      /\ c.user \in Users
      /\ c.seen \in StoredRows
      /\ c.want \in {"cancel", "on_the_way", "arrived", "completed"}
  BY <1>1, <1>2, CallFields
<1>4. from \in Status
  BY <1>1, <1>3, EffectiveMoves DEF RequestRows, StoredRows
<1>5. ASSUME call' \in [Sessions -> Calls], Reading PROVE TypeOK'
  BY <1>5 DEF Reading, wallet, rows, TypeOK
<1>6. CASE DecideUpdate(s)
  <2>1. CASE CanTransition(from, c.want, role)
    <3>1. role \in Role /\ c.want \in Status
      BY <1>3, <2>1 DEF CanTransition, JobMoves
    <3>2. [op |-> "update", req |-> c.req, user |-> c.user, from |-> from,
           to |-> c.want, role |-> role, now |-> clock] \in Calls
      BY <1>1, <1>3, <1>4, <3>1 DEF Calls
    <3>3. call' \in [Sessions -> Calls]
      BY <1>6, <2>1, <3>2, CallTypes, ReturnTypes DEF DecideUpdate
    <3>4. QED
      BY <1>5, <1>6, <3>3 DEF DecideUpdate
  <2>2. CASE ~CanTransition(from, c.want, role)
    BY <1>5, <1>6, <2>2, ReturnTypes DEF DecideUpdate
  <2>3. QED
    BY <2>1, <2>2
<1>7. CASE DecideCancel(s)
  <2> DEFINE p == MatchedProvider(c.req)
             refunds == p # None
                        /\ RefundEligible(match[c.req][p], from, role, clock)
             extended == clock + RequestTTL
  <2>1. CASE CanCancel(from, role)
    <3>1. role \in Role
      BY <2>1 DEF CanCancel
    <3>2. p \in Providers \cup {None}
      BY <1>3, MatchedProviderTypes
    <3>3. (IF c.seen.expires < extended THEN extended ELSE c.seen.expires) \in Nat
      BY <1>1, <1>3, DurationsAreNat DEF StoredRows
    <3>4. [op |-> "cancel", req |-> c.req, user |-> c.user, from |-> from,
           role |-> role, now |-> clock,
           until |-> IF c.seen.expires < extended
                     THEN extended ELSE c.seen.expires,
           refund |-> IF refunds THEN p ELSE None] \in Calls
      BY <1>1, <1>3, <1>4, <3>1, <3>2, <3>3 DEF Calls
    <3>5. call' \in [Sessions -> Calls]
      BY <1>7, <2>1, <3>4, CallTypes, ReturnTypes DEF DecideCancel
    <3>6. QED
      BY <1>5, <1>7, <3>5 DEF DecideCancel
  <2>2. CASE ~CanCancel(from, role)
    BY <1>5, <1>7, <2>2, ReturnTypes DEF DecideCancel
  <2>3. QED
    BY <2>1, <2>2
<1>8. QED
  BY <1>6, <1>7 DEF Decide

\* The parts of TypeOK that a transaction leaves to its caller.
RowTypes ==
    /\ req \in [Requests -> RequestRows]
    /\ offer \in [Requests -> [Providers -> OfferStatus]]
    /\ match \in [Requests -> [Providers -> MatchRows]]
    /\ timeline \in [Requests -> Status \cup {"absent"}]
    /\ balance \in [Providers -> Nat]
    /\ ledger \in [Providers -> Seq(RowSet(Requests \cup {None}))]

LEMMA CommitAcceptTypes ==
    ASSUME TypeOK, NEW s \in Sessions, CommitAccept(s)
    PROVE  RowTypes'
<1> DEFINE c == call[s]
           p == c.prov
           row == Locked(c.req, c.now)
           offs == LockedOffers(c.req, c.now)
<1>1. c \in Calls /\ c.op = "accept"
  BY DEF TypeOK, CommitAccept
<1>2. /\ c.req \in Requests /\ p \in Providers /\ c.now \in Nat
      /\ c.fee \in Nat /\ c.charge \in BOOLEAN
  BY <1>1, CallFields
<1>3. row \in RequestRows /\ offs \in [Providers -> OfferStatus]
  BY <1>2, LockedTypes
<1>4. CASE Refuse(c.req, c.now)
  BY <1>2, <1>4, RefuseTypes DEF RowTypes, TypeOK
<1>5. CASE Rollback
  BY <1>5 DEF Rollback, rows, wallet, RowTypes, TypeOK
<1>6. CASE /\ AwaitsConfirmation(row, p)
           /\ CanPay(c)
           /\ match' = [match EXCEPT ![c.req][p] =
                  [status |-> "active", fee |-> c.fee, waived |-> ~c.charge,
                   by |-> "nobody", travelled |-> FALSE, at |-> c.now]]
           /\ IF FeeDue(c)
              THEN Post(p, Entry("match_fee", c.req, -c.fee))
              ELSE UNCHANGED wallet
           /\ Store(c.req,
                    [row EXCEPT !.status = "matched", !.sel = None, !.selUntil = 0],
                    [offs EXCEPT ![p] = "accepted"],
                    "matched")
  <2>1. row \in StoredRows
    BY <1>3, <1>6 DEF AwaitsConfirmation, RequestRows, NoRequest
  <2>2. [row EXCEPT !.status = "matched", !.sel = None, !.selUntil = 0]
            \in RequestRows
    BY <2>1 DEF RequestRows, StoredRows
  <2>3. [offs EXCEPT ![p] = "accepted"] \in [Providers -> OfferStatus]
    BY <1>3
  <2>4. [status |-> "active", fee |-> c.fee, waived |-> ~c.charge,
         by |-> "nobody", travelled |-> FALSE, at |-> c.now] \in MatchRows
    BY <1>2 DEF MatchRows
  <2>5. match' \in [Requests -> [Providers -> MatchRows]]
    BY <1>2, <1>6, <2>4 DEF TypeOK
  <2>6. /\ balance' \in [Providers -> Nat]
        /\ ledger' \in [Providers -> Seq(RowSet(Requests \cup {None}))]
    <3>1. CASE FeeDue(c)
      <4>1. balance[p] \in Nat /\ ~(balance[p] < c.fee)
        BY <1>2, <1>6, <3>1 DEF FeeDue, CanPay, TypeOK
      <4>2. -c.fee \in Int /\ balance[p] + (-c.fee) >= 0
        BY <1>2, <4>1
      <4>3. "match_fee" \in TxTypes
        BY DEF TxTypes
      <4>4. Post(p, Entry("match_fee", c.req, -c.fee))
        BY <1>6, <3>1
      <4>5. QED
        BY <1>2, <4>2, <4>3, <4>4, PostTypes
    <3>2. CASE ~FeeDue(c)
      BY <1>6, <3>2 DEF wallet, TypeOK
    <3>3. QED
      BY <3>1, <3>2
  <2>7. /\ req' \in [Requests -> RequestRows]
        /\ offer' \in [Requests -> [Providers -> OfferStatus]]
        /\ timeline' \in [Requests -> Status \cup {"absent"}]
    BY <1>2, <1>6, <2>2, <2>3, StoreTypes
  <2>8. QED
    BY <2>5, <2>6, <2>7 DEF RowTypes
<1>7. QED
  BY <1>4, <1>5, <1>6 DEF CommitAccept

LEMMA CommitCancelTypes ==
    ASSUME TypeOK, NEW s \in Sessions, CommitCancel(s)
    PROVE  RowTypes'
<1> DEFINE c == call[s]
           row == Locked(c.req, c.now)
           offs == ExpireSelection(LockedOffers(c.req, c.now), row.sel)
           gone == MatchedBy(c.req, "active")
           ended == [p \in Providers |-> CancelledBy(match[c.req][p], c.role)]
           cleared == [row EXCEPT !.sel = None, !.selUntil = 0]
<1>1. c \in Calls /\ c.op = "cancel"
  BY DEF TypeOK, CommitCancel
<1>2. /\ c.req \in Requests /\ c.now \in Nat /\ c.from \in Status
      /\ c.role \in Role /\ c.until \in Nat
      /\ c.refund \in Providers \cup {None}
  BY <1>1, CallFields
<1>3. /\ row \in RequestRows
      /\ LockedOffers(c.req, c.now) \in [Providers -> OfferStatus]
  BY <1>2, LockedTypes
<1>4. offs \in [Providers -> OfferStatus]
  BY <1>3 DEF ExpireSelection
<1>5. CASE Refuse(c.req, c.now)
  BY <1>2, <1>5, RefuseTypes DEF RowTypes, TypeOK
<1>6. CASE Rollback
  BY <1>6 DEF Rollback, rows, wallet, RowTypes, TypeOK
<1>7. ASSUME StillAt(row, c.from)
      PROVE  /\ [cleared EXCEPT !.status = "open", !.expires = c.until] \in RequestRows
             /\ [cleared EXCEPT !.status = "cancelled"] \in RequestRows
  <2>1. row \in StoredRows
    BY <1>2, <1>3, <1>7 DEF StillAt, RequestRows, NoRequest
  <2>2. QED
    BY <1>2, <2>1 DEF RequestRows, StoredRows
<1>8. ASSUME Refund(c)
      PROVE  /\ balance' \in [Providers -> Nat]
             /\ ledger' \in [Providers -> Seq(RowSet(Requests \cup {None}))]
  <2>1. CASE c.refund = None
    BY <1>8, <2>1 DEF Refund, wallet, TypeOK
  <2>2. CASE c.refund # None
    <3>1. c.refund \in Providers
      BY <1>2, <2>2
    <3>2. match[c.req][c.refund].fee \in Nat /\ balance[c.refund] \in Nat
      BY <1>2, <3>1 DEF TypeOK, MatchRows
    <3>3. /\ match[c.req][c.refund].fee \in Int
          /\ balance[c.refund] + match[c.req][c.refund].fee >= 0
      BY <3>2
    <3>4. "refund" \in TxTypes
      BY DEF TxTypes
    <3>5. Post(c.refund, Entry("refund", c.req, match[c.req][c.refund].fee))
      BY <1>8, <2>2 DEF Refund
    <3>6. QED
      BY <1>2, <3>1, <3>3, <3>4, <3>5, PostTypes
  <2>3. QED
    BY <2>1, <2>2
<1>9. ASSUME match' = [match EXCEPT ![c.req] = ended], c.role \in {"customer", "provider"}
      PROVE  match' \in [Requests -> [Providers -> MatchRows]]
  <2>1. \A p \in Providers : match[c.req][p] \in MatchRows
    BY <1>2 DEF TypeOK
  <2>2. \A p \in Providers : CancelledBy(match[c.req][p], c.role) \in MatchRows
    BY <1>9, <2>1 DEF CancelledBy, MatchRows
  <2>3. ended \in [Providers -> MatchRows]
    BY <2>2
  <2>4. QED
    BY <1>2, <1>9, <2>3 DEF TypeOK
<1>10. CASE /\ StillAt(row, c.from) /\ c.role = "provider"
            /\ match' = [match EXCEPT ![c.req] = ended]
            /\ Store(c.req, [cleared EXCEPT !.status = "open", !.expires = c.until],
                     Withdrawn(offs, gone), "open")
            /\ Refund(c)
  <2>1. Withdrawn(offs, gone) \in [Providers -> OfferStatus]
    BY <1>4 DEF Withdrawn
  <2>2. QED
    BY <1>2, <1>7, <1>8, <1>9, <1>10, <2>1, StoreTypes DEF RowTypes
<1>11. CASE /\ StillAt(row, c.from) /\ c.role = "customer"
            /\ match' = [match EXCEPT ![c.req] = ended]
            /\ Store(c.req, [cleared EXCEPT !.status = "cancelled"], offs, "cancelled")
            /\ Refund(c)
  BY <1>2, <1>4, <1>7, <1>8, <1>9, <1>11, StoreTypes DEF RowTypes
<1>12. QED
  BY <1>5, <1>6, <1>10, <1>11 DEF CommitCancel

\* The transactions that touch neither the matches nor the wallet.
LEMMA CommitRowTypes ==
    ASSUME TypeOK, NEW s \in Sessions,
           \/ CommitCreate(s)
           \/ CommitOffer(s)
           \/ CommitSelect(s)
           \/ CommitReject(s)
    PROVE  RowTypes'
<1> DEFINE c == call[s]
           row == Locked(c.req, c.now)
           offs == LockedOffers(c.req, c.now)
<1>1. c \in Calls
  BY DEF TypeOK
<1>2. /\ c.req \in Requests /\ c.now \in Nat
      /\ c.op # "create" => c.prov \in Providers
  BY <1>1, CallFields DEF CommitCreate, CommitOffer, CommitSelect, CommitReject
<1>3. /\ row \in RequestRows /\ offs \in [Providers -> OfferStatus]
      /\ LockedEvent(c.req, c.now) \in Status \cup {"absent"}
  BY <1>2, LockedTypes
<1>4. CASE Refuse(c.req, c.now)
  BY <1>2, <1>4, RefuseTypes DEF RowTypes, TypeOK
<1>5. CASE Rollback
  BY <1>5 DEF Rollback, rows, wallet, RowTypes, TypeOK
<1>6. ASSUME NEW r2 \in RequestRows, NEW o2 \in [Providers -> OfferStatus],
             NEW e2 \in Status \cup {"absent"},
             Store(c.req, r2, o2, e2), UNCHANGED <<match, wallet>>
      PROVE  RowTypes'
  BY <1>2, <1>6, StoreTypes DEF RowTypes, wallet, TypeOK
<1>7. CASE CommitCreate(s)
  <2>1. [status |-> "open", sel |-> None, selUntil |-> 0,
         expires |-> c.now + RequestTTL] \in RequestRows
    BY <1>2, DurationsAreNat DEF RequestRows, StoredRows
  <2>2. offer[c.req] \in [Providers -> OfferStatus]
    BY <1>2 DEF TypeOK
  <2>3. QED
    BY <1>5, <1>6, <1>7, <2>1, <2>2 DEF CommitCreate
<1>8. CASE CommitOffer(s)
  <2>1. [offs EXCEPT ![c.prov] = "pending"] \in [Providers -> OfferStatus]
    BY <1>3
  <2>2. QED
    BY <1>3, <1>4, <1>5, <1>6, <1>8, <2>1 DEF CommitOffer
<1>9. CASE CommitSelect(s)
  <2>1. [offs EXCEPT ![c.prov] = "selected"] \in [Providers -> OfferStatus]
    BY <1>3
  <2>2. c.prov \in Providers
    BY <1>2, <1>9 DEF CommitSelect
  <2>3. ASSUME row.status = "open"
        PROVE  [row EXCEPT !.status = "pending_confirmation", !.sel = c.prov,
                           !.selUntil = c.now + ConfirmTimeout] \in RequestRows
    <3> DEFINE deadline == c.now + ConfirmTimeout
    <3>1. row \in StoredRows
      BY <1>3, <2>3 DEF RequestRows, NoRequest
    <3>2. deadline \in Nat
      BY <1>2, DurationsAreNat
    <3> HIDE DEF deadline
    <3>3. [row EXCEPT !.status = "pending_confirmation", !.sel = c.prov,
                      !.selUntil = deadline] \in StoredRows
      BY <2>2, <3>1, <3>2 DEF StoredRows
    <3>4. QED
      BY <3>3 DEF RequestRows, deadline
  <2>4. QED
    BY <1>4, <1>6, <1>9, <2>1, <2>3 DEF CommitSelect
<1>10. CASE CommitReject(s)
  <2>1. [offs EXCEPT ![c.prov] = "rejected"] \in [Providers -> OfferStatus]
    BY <1>3
  <2>2. ASSUME AwaitsConfirmation(row, c.prov)
        PROVE  [row EXCEPT !.status = "open", !.sel = None, !.selUntil = 0]
                   \in RequestRows
    <3>1. row \in StoredRows
      BY <1>3, <2>2 DEF AwaitsConfirmation, RequestRows, NoRequest
    <3>2. QED
      BY <3>1 DEF RequestRows, StoredRows
  <2>3. QED
    BY <1>4, <1>6, <1>10, <2>1, <2>2 DEF CommitReject
<1>11. QED
  BY <1>7, <1>8, <1>9, <1>10

LEMMA CommitUpdateTypes ==
    ASSUME TypeOK, NEW s \in Sessions, CommitUpdate(s)
    PROVE  RowTypes'
<1> DEFINE c == call[s]
           moved == [p \in Providers |-> MovedOn(match[c.req][p], c.to)]
<1>1. c \in Calls /\ c.op = "update"
  BY DEF TypeOK, CommitUpdate
<1>2. /\ c.req \in Requests /\ c.now \in Nat /\ c.from \in Status
      /\ c.to \in Status
  BY <1>1, CallFields
<1>3. CASE Rollback
  BY <1>3 DEF Rollback, rows, wallet, RowTypes, TypeOK
<1>4. CASE /\ StillAt(req[c.req], c.from)
           /\ Store(c.req, [req[c.req] EXCEPT !.status = c.to], offer[c.req], c.to)
           /\ match' = [match EXCEPT ![c.req] = moved]
           /\ UNCHANGED wallet
  <2>1. req[c.req] \in RequestRows /\ offer[c.req] \in [Providers -> OfferStatus]
    BY <1>2 DEF TypeOK
  <2>2. [req[c.req] EXCEPT !.status = c.to] \in RequestRows
    <3>1. req[c.req] \in StoredRows
      BY <1>2, <1>4, <2>1 DEF StillAt, RequestRows, NoRequest
    <3>2. QED
      BY <1>2, <3>1 DEF RequestRows, StoredRows
  <2>3. \A p \in Providers : match[c.req][p] \in MatchRows
    BY <1>2 DEF TypeOK
  <2>4. \A p \in Providers : MovedOn(match[c.req][p], c.to) \in MatchRows
    <3>1. SUFFICES ASSUME NEW m \in MatchRows
                   PROVE  MovedOn(m, c.to) \in MatchRows
      BY <2>3
    <3>2. [m EXCEPT !.travelled = TRUE] \in MatchRows
      BY DEF MatchRows
    <3>3. [m EXCEPT !.status = "completed"] \in MatchRows
      BY DEF MatchRows
    <3>4. QED
      BY <3>2, <3>3 DEF MovedOn
  <2>5. match' \in [Requests -> [Providers -> MatchRows]]
    BY <1>2, <1>4, <2>4 DEF TypeOK
  <2>6. QED
    BY <1>2, <1>4, <2>1, <2>2, <2>5, StoreTypes DEF RowTypes, wallet, TypeOK
<1>5. QED
  BY <1>3, <1>4 DEF CommitUpdate

LEMMA CommitTypes ==
    ASSUME TypeOK, NEW s \in Sessions, Commit(s)
    PROVE  TypeOK'
<1>1. RowTypes'
  BY CommitRowTypes, CommitAcceptTypes, CommitUpdateTypes, CommitCancelTypes
     DEF Commit
<1>2. Return(s) /\ Writing
  BY DEF Commit, CommitCreate, CommitOffer, CommitSelect, CommitReject,
         CommitAccept, CommitUpdate, CommitCancel
<1>3. call' \in [Sessions -> Calls]
  BY <1>2, ReturnTypes
<1>4. QED
  BY <1>1, <1>2, <1>3 DEF Writing, RowTypes, TypeOK

LEMMA InitTypes == Init => TypeOK
<1>1. <<>> \in Seq(RowSet(Requests \cup {None}))
  OBVIOUS
<1>2. Idle \in Calls
  BY DEF Calls
<1>3. NoMatch \in MatchRows
  BY DEF NoMatch, MatchRows
<1>4. QED
  BY <1>1, <1>2, <1>3 DEF Init, TypeOK, NoProvider, RequestRows

LEMMA NextTypes == TypeOK /\ [Next]_vars => TypeOK'
<1> SUFFICES ASSUME TypeOK, [Next]_vars PROVE TypeOK'
  OBVIOUS
<1>1. CASE ProfileStep
  BY <1>1, ProfileTypes
<1>2. ASSUME NEW s \in Sessions, Begin(s) \/ Decide(s) \/ Commit(s)
      PROVE  TypeOK'
  BY <1>2, BeginTypes, DecideTypes, CommitTypes
<1>3. ASSUME NEW s \in Sessions, Abort(s) PROVE TypeOK'
  BY <1>3, ReturnTypes DEF Abort, Reading, wallet, rows, TypeOK
<1>4. CASE Redeploy
  BY <1>4 DEF Redeploy, wallet, rows, TypeOK
<1>5. CASE Tick
  <2>1. clock' \in Nat
    BY <1>5 DEF Tick, TypeOK
  <2>2. UNCHANGED <<policy, prov, balance, ledger, req, offer, match, timeline,
                    call>>
    BY <1>5 DEF Tick, wallet, rows
  <2>3. QED
    BY <2>1, <2>2 DEF TypeOK
<1>6. CASE UNCHANGED vars
  BY <1>6 DEF vars, TypeOK
<1>7. QED
  BY <1>1, <1>2, <1>3, <1>4, <1>5, <1>6 DEF Next

\* Every reachable state has the types that the columns and their CHECKs
\* declare; in particular no balance is ever negative, under any policy, any
\* number of concurrent calls and any adjustments.
THEOREM TypeCorrect == Spec => []TypeOK
BY InitTypes, NextTypes, PTL DEF Spec

HIDE DEF Role, OfferStatus, Status, JobStatus, ClosedStatus, OfferTaking, Idle

-----------------------------------------------------------------------------
(***************************************************************************)
(* Part 2: requests, offers and matches agree.                             *)
(***************************************************************************)

\* One request, its offers and its matches.
Agrees(row, offs, ms) ==
    /\ \A p, q \in Providers :
           /\ ms[p].status \in {"active", "completed"}
           /\ ms[q].status \in {"active", "completed"}
           => p = q
    /\ row.status \in JobStatus <=> \E p \in Providers : ms[p].status = "active"
    /\ row.status = "completed"
           <=> \E p \in Providers : ms[p].status = "completed"
    /\ row.status = "pending_confirmation" <=> row.sel # None
    /\ \A p \in Providers : offs[p] = "selected" <=> row.sel = p
    /\ \A p \in Providers :
           /\ offs[p] = "accepted" =>
                  \/ ms[p].status \in {"active", "completed"}
                  \/ ms[p].status = "cancelled" /\ ms[p].by = "customer"
           /\ ms[p].status # "none" => offs[p] \in {"accepted", "rejected"}
           /\ ms[p].by = "provider" => offs[p] = "rejected"
           /\ ms[p].status \in {"active", "completed"} => offs[p] = "accepted"

AllAgree == \A r \in Requests : Agrees(req[r], offer[r], match[r])

\* A call that waits for its transaction decided on a move the rules allow.
Decided(c) ==
    /\ c.op = "update" => <<c.from, c.to, c.role>> \in JobMoves
    /\ c.op = "cancel" => CanCancel(c.from, c.role)

Coherent == TypeOK /\ AllAgree /\ \A s \in Sessions : Decided(call[s])

LEMMA CoherentImplies ==
    Coherent => /\ MatchAgreesWithStatus
                /\ SelectionAgreesWithRequest
                /\ MatchAgreesWithOffer
BY DEF Coherent, AllAgree, Agrees, MatchAgreesWithStatus,
       SelectionAgreesWithRequest, MatchAgreesWithOffer

-----------------------------------------------------------------------------
(* Rows.                                                                   *)

LEMMA NoneIsNotAProvider == None \notin Providers
BY NoneIsNoProvider, ProvidersAreUsers

\* Bringing a request up to date keeps its rows in agreement.
LEMMA LockedAgrees ==
    ASSUME TypeOK, AllAgree, NEW r \in Requests, NEW now \in Nat
    PROVE  /\ Agrees(Locked(r, now), LockedOffers(r, now), match[r])
           /\ Locked(r, now).status \in Status \cup {"absent"}
           /\ LockedOffers(r, now) \in [Providers -> OfferStatus]
<1>1. /\ req[r] \in RequestRows
      /\ offer[r] \in [Providers -> OfferStatus]
      /\ Agrees(req[r], offer[r], match[r])
  BY DEF TypeOK, AllAgree
<1>2. /\ Locked(r, now).status \in Status \cup {"absent"}
      /\ LockedOffers(r, now) \in [Providers -> OfferStatus]
  BY LockedTypes DEF RequestRows, StoredRows, NoRequest
<1>3. CASE Stale(r, now)
  <2> DEFINE row == Locked(r, now)
             offs == LockedOffers(r, now)
  <2>1. /\ req[r] \in StoredRows
        /\ req[r].status \in OfferTaking
        /\ Effective(req[r], now) \in {"open", "expired"}
    BY <1>1, <1>3, EffectiveMoves DEF Stale
  <2>2. row.status \in {"open", "expired"} /\ row.sel = None
    BY <1>3, <2>1 DEF Locked, StoredRows
  <2>3. \A p \in Providers :
            offs[p] = IF p = req[r].sel /\ offer[r][p] = "selected"
                      THEN "expired" ELSE offer[r][p]
    BY <1>3 DEF LockedOffers, ExpireSelection
  <2>4. /\ \A p \in Providers : match[r][p].status \notin {"active", "completed"}
        /\ \A p \in Providers : offs[p] # "selected"
    BY <1>1, <2>1, <2>3 DEF Agrees, OfferTaking, JobStatus
  <2>5. \A p \in Providers : offs[p] # offer[r][p] => offer[r][p] = "selected"
    BY <2>3
  <2> HIDE DEF row, offs
  <2>6. \A p \in Providers :
            /\ offs[p] = "accepted" =>
                   match[r][p].status = "cancelled" /\ match[r][p].by = "customer"
            /\ match[r][p].status # "none" => offs[p] \in {"accepted", "rejected"}
            /\ match[r][p].by = "provider" => offs[p] = "rejected"
    BY <1>1, <2>3, <2>4 DEF Agrees
  <2>7. Agrees(row, offs, match[r])
    BY <2>2, <2>4, <2>6, NoneIsNotAProvider DEF Agrees, JobStatus
  <2>8. QED
    BY <1>2, <2>7 DEF row, offs
<1>4. CASE ~Stale(r, now)
  BY <1>1, <1>2, <1>4 DEF Locked, LockedOffers
<1>5. QED
  BY <1>3, <1>4

\* Writing one request's rows in agreement leaves all rows in agreement.
LEMMA StoreAgrees ==
    ASSUME TypeOK, AllAgree, NEW r \in Requests,
           NEW row, NEW offs, NEW event, NEW ms,
           Store(r, row, offs, event),
           match' = [match EXCEPT ![r] = ms],
           Agrees(row, offs, ms)
    PROVE  AllAgree'
<1>1. /\ req' = [req EXCEPT ![r] = row]
      /\ offer' = [offer EXCEPT ![r] = offs]
  BY DEF Store
<1>2. req'[r] = row /\ offer'[r] = offs /\ match'[r] = ms
  BY <1>1 DEF TypeOK
<1>3. \A q \in Requests \ {r} :
          req'[q] = req[q] /\ offer'[q] = offer[q] /\ match'[q] = match[q]
  BY <1>1 DEF TypeOK
<1>4. QED
  BY <1>2, <1>3 DEF AllAgree, Agrees

LEMMA StoreAgreesSameMatch ==
    ASSUME TypeOK, AllAgree, NEW r \in Requests,
           NEW row, NEW offs, NEW event,
           Store(r, row, offs, event), UNCHANGED match,
           Agrees(row, offs, match[r])
    PROVE  AllAgree'
<1>1. match' = [match EXCEPT ![r] = match[r]]
  BY DEF TypeOK
<1>2. QED
  BY <1>1, StoreAgrees

LEMMA RefuseAgrees ==
    ASSUME TypeOK, AllAgree, NEW r \in Requests, NEW now \in Nat, Refuse(r, now)
    PROVE  AllAgree'
BY LockedAgrees, StoreAgreesSameMatch DEF Refuse

LEMMA RollbackAgrees == AllAgree /\ Rollback => AllAgree'
BY DEF AllAgree, Rollback, rows


-----------------------------------------------------------------------------
(* The transactions.                                                       *)

LEMMA CreateAgrees ==
    ASSUME TypeOK, AllAgree, NEW s \in Sessions, CommitCreate(s)
    PROVE  AllAgree'
<1> DEFINE c == call[s]
           row == [status |-> "open", sel |-> None, selUntil |-> 0,
                   expires |-> c.now + RequestTTL]
<1>1. c.req \in Requests
  BY CallFields DEF CommitCreate, TypeOK
<1>2. CASE ~Exists(c.req) /\ Store(c.req, row, offer[c.req], "open")
           /\ UNCHANGED match
  <2>1. req[c.req] = NoRequest
    BY <1>1, <1>2 DEF Exists, TypeOK, RequestRows, StoredRows, Status,
                      JobStatus, ClosedStatus, OfferTaking
  <2>2. Agrees(NoRequest, offer[c.req], match[c.req])
    BY <1>1, <2>1 DEF AllAgree
  <2>3. Agrees(row, offer[c.req], match[c.req])
    BY <2>2 DEF Agrees, NoRequest, JobStatus
  <2>4. QED
    BY <1>1, <1>2, <2>3, StoreAgreesSameMatch
<1>3. CASE Rollback
  BY <1>3, RollbackAgrees
<1>4. QED
  BY <1>2, <1>3 DEF CommitCreate

LEMMA OfferAgrees ==
    ASSUME TypeOK, AllAgree, NEW s \in Sessions, CommitOffer(s)
    PROVE  AllAgree'
<1> DEFINE c == call[s]
           row == Locked(c.req, c.now)
           offs == LockedOffers(c.req, c.now)
<1>1. c.req \in Requests /\ c.prov \in Providers /\ c.now \in Nat
  BY CallFields DEF CommitOffer, TypeOK
<1>2. /\ Agrees(row, offs, match[c.req])
      /\ offs \in [Providers -> OfferStatus]
  BY <1>1, LockedAgrees
<1>3. CASE /\ Editable(offs[c.prov])
           /\ Store(c.req, row, [offs EXCEPT ![c.prov] = "pending"],
                    LockedEvent(c.req, c.now))
           /\ UNCHANGED match
  <2>1. Agrees(row, [offs EXCEPT ![c.prov] = "pending"], match[c.req])
    <3> DEFINE offs2 == [offs EXCEPT ![c.prov] = "pending"]
    <3>1. \A p \in Providers :
              offs2[p] = IF p = c.prov THEN "pending" ELSE offs[p]
      BY <1>2
    <3>2. offs[c.prov] \in {"none", "pending"}
      BY <1>3 DEF Editable
    <3> HIDE DEF offs2
    <3>3. \A p \in Providers : offs2[p] = "selected" <=> row.sel = p
      BY <1>2, <3>1, <3>2 DEF Agrees
    <3>4. \A p \in Providers :
              /\ offs2[p] = "accepted" =>
                     \/ match[c.req][p].status \in {"active", "completed"}
                     \/ match[c.req][p].status = "cancelled"
                        /\ match[c.req][p].by = "customer"
              /\ match[c.req][p].status # "none"
                     => offs2[p] \in {"accepted", "rejected"}
              /\ match[c.req][p].by = "provider" => offs2[p] = "rejected"
              /\ match[c.req][p].status \in {"active", "completed"}
                     => offs2[p] = "accepted"
      BY <1>2, <3>1, <3>2 DEF Agrees
    <3>5. Agrees(row, offs2, match[c.req])
      BY <1>2, <3>3, <3>4 DEF Agrees
    <3>6. QED
      BY <3>5 DEF offs2
  <2>2. QED
    BY <1>1, <1>3, <2>1, StoreAgreesSameMatch
<1>4. CASE Rollback
  BY <1>4, RollbackAgrees
<1>5. CASE Refuse(c.req, c.now)
  BY <1>1, <1>5, RefuseAgrees
<1>6. QED
  BY <1>3, <1>4, <1>5 DEF CommitOffer

LEMMA SelectAgrees ==
    ASSUME TypeOK, AllAgree, NEW s \in Sessions, CommitSelect(s)
    PROVE  AllAgree'
<1> DEFINE c == call[s]
           row == Locked(c.req, c.now)
           offs == LockedOffers(c.req, c.now)
           row2 == [row EXCEPT !.status = "pending_confirmation",
                               !.sel = c.prov,
                               !.selUntil = c.now + ConfirmTimeout]
           offs2 == [offs EXCEPT ![c.prov] = "selected"]
<1>1. c.req \in Requests /\ c.prov \in Providers /\ c.now \in Nat
  BY CallFields DEF CommitSelect, TypeOK
<1>2. /\ Agrees(row, offs, match[c.req])
      /\ offs \in [Providers -> OfferStatus]
      /\ row \in RequestRows
  BY <1>1, LockedAgrees, LockedTypes
<1>3. CASE /\ row.status = "open" /\ offs[c.prov] = "pending"
           /\ Store(c.req, row2, offs2, "pending_confirmation")
           /\ UNCHANGED match
  <2>1. row2.status = "pending_confirmation" /\ row2.sel = c.prov
    BY <1>2 DEF RequestRows, StoredRows, NoRequest
  <2>2. \A p \in Providers :
            offs2[p] = IF p = c.prov THEN "selected" ELSE offs[p]
    BY <1>2
  <2> HIDE DEF row2, offs2
  <2>3. /\ \A p \in Providers : offs[p] = "selected" <=> row.sel = p
        /\ row.sel = None
    BY <1>2, <1>3 DEF Agrees
  <2>4. \A p \in Providers : offs2[p] = "selected" <=> p = c.prov
    BY <2>2, <2>3, NoneIsNotAProvider
  <2>5. \A p \in Providers : match[c.req][p].status \notin {"active", "completed"}
    BY <1>2, <1>3 DEF Agrees, JobStatus
  <2>6. \A p \in Providers :
            /\ offs[p] = "accepted" =>
                   match[c.req][p].status = "cancelled"
                   /\ match[c.req][p].by = "customer"
            /\ match[c.req][p].status # "none"
                   => offs[p] \in {"accepted", "rejected"}
            /\ match[c.req][p].by = "provider" => offs[p] = "rejected"
    BY <1>2, <2>5 DEF Agrees
  <2>7. \A p \in Providers :
            /\ offs2[p] = "accepted" =>
                   match[c.req][p].status = "cancelled"
                   /\ match[c.req][p].by = "customer"
            /\ match[c.req][p].status # "none"
                   => offs2[p] \in {"accepted", "rejected"}
            /\ match[c.req][p].by = "provider" => offs2[p] = "rejected"
    BY <1>3, <2>2, <2>6
  <2>8. Agrees(row2, offs2, match[c.req])
    BY <1>1, <2>1, <2>4, <2>5, <2>7, NoneIsNotAProvider DEF Agrees, JobStatus
  <2>9. QED
    BY <1>1, <1>3, <2>8, StoreAgreesSameMatch
<1>4. CASE Refuse(c.req, c.now)
  BY <1>1, <1>4, RefuseAgrees
<1>5. QED
  BY <1>3, <1>4 DEF CommitSelect

LEMMA RejectAgrees ==
    ASSUME TypeOK, AllAgree, NEW s \in Sessions, CommitReject(s)
    PROVE  AllAgree'
<1> DEFINE c == call[s]
           row == Locked(c.req, c.now)
           offs == LockedOffers(c.req, c.now)
           row2 == [row EXCEPT !.status = "open", !.sel = None, !.selUntil = 0]
           offs2 == [offs EXCEPT ![c.prov] = "rejected"]
<1>1. c.req \in Requests /\ c.prov \in Providers /\ c.now \in Nat
  BY CallFields DEF CommitReject, TypeOK
<1>2. /\ Agrees(row, offs, match[c.req])
      /\ offs \in [Providers -> OfferStatus]
      /\ row \in RequestRows
  BY <1>1, LockedAgrees, LockedTypes
<1>3. CASE /\ AwaitsConfirmation(row, c.prov) /\ offs[c.prov] = "selected"
           /\ Store(c.req, row2, offs2, "open")
           /\ UNCHANGED match
  <2>1. row2.status = "open" /\ row2.sel = None
    BY <1>2 DEF RequestRows, StoredRows, NoRequest
  <2>2. \A p \in Providers :
            offs2[p] = IF p = c.prov THEN "rejected" ELSE offs[p]
    BY <1>2
  <2> HIDE DEF row2, offs2
  <2>3. \A p \in Providers :
            /\ offs2[p] # "selected"
            /\ match[c.req][p].status \notin {"active", "completed"}
            /\ offs2[p] # offs[p] => offs[p] = "selected"
    <3>1. \A p \in Providers : offs[p] = "selected" <=> row.sel = p
      BY <1>2 DEF Agrees
    <3>2. \A p \in Providers : match[c.req][p].status \notin {"active", "completed"}
      BY <1>2, <1>3 DEF Agrees, JobStatus, AwaitsConfirmation
    <3>3. QED
      BY <1>3, <2>2, <3>1, <3>2 DEF AwaitsConfirmation
  <2>4. \A p \in Providers :
            /\ offs2[p] = "accepted" =>
                   match[c.req][p].status = "cancelled"
                   /\ match[c.req][p].by = "customer"
            /\ match[c.req][p].status # "none"
                   => offs2[p] \in {"accepted", "rejected"}
            /\ match[c.req][p].by = "provider" => offs2[p] = "rejected"
    BY SMTT(40), <1>2, <2>2, <2>3 DEF Agrees
  <2>5. Agrees(row2, offs2, match[c.req])
    BY <2>1, <2>3, <2>4, NoneIsNotAProvider DEF Agrees, JobStatus
  <2>6. QED
    BY <1>1, <1>3, <2>5, StoreAgreesSameMatch
<1>4. CASE Refuse(c.req, c.now)
  BY <1>1, <1>4, RefuseAgrees
<1>5. QED
  BY <1>3, <1>4 DEF CommitReject

\* What an accept does when nothing refuses it.
Accepts(s) ==
    LET c == call[s]
        row == Locked(c.req, c.now)
    IN  /\ match[c.req][c.prov].status = "none"
        /\ AwaitsConfirmation(row, c.prov)
        /\ MatchedBy(c.req, "active") = {} /\ CanPay(c)
        /\ match' = [match EXCEPT ![c.req][c.prov] =
               [status |-> "active", fee |-> c.fee, waived |-> ~c.charge,
                by |-> "nobody", travelled |-> FALSE, at |-> c.now]]
        /\ IF FeeDue(c)
           THEN Post(c.prov, Entry("match_fee", c.req, -c.fee))
           ELSE UNCHANGED wallet
        /\ Store(c.req,
                 [row EXCEPT !.status = "matched", !.sel = None, !.selUntil = 0],
                 [LockedOffers(c.req, c.now) EXCEPT ![c.prov] = "accepted"],
                 "matched")

LEMMA AcceptCases ==
    ASSUME TypeOK, NEW s \in Sessions, CommitAccept(s)
    PROVE  /\ call[s].op = "accept" /\ call[s] \in Calls
           /\ \/ Refuse(call[s].req, call[s].now)
              \/ Rollback
              \/ Accepts(s)
BY DEF CommitAccept, Accepts, TypeOK

LEMMA AcceptAgrees ==
    ASSUME TypeOK, AllAgree, NEW s \in Sessions, CommitAccept(s)
    PROVE  AllAgree'
<1> DEFINE c == call[s]
           p == c.prov
           row == Locked(c.req, c.now)
           offs == LockedOffers(c.req, c.now)
           row2 == [row EXCEPT !.status = "matched", !.sel = None, !.selUntil = 0]
           offs2 == [offs EXCEPT ![p] = "accepted"]
           m == [status |-> "active", fee |-> c.fee, waived |-> ~c.charge,
                 by |-> "nobody", travelled |-> FALSE, at |-> c.now]
           ms == [match[c.req] EXCEPT ![p] = m]
<1>1. c.req \in Requests /\ p \in Providers /\ c.now \in Nat
  BY AcceptCases, CallFields
<1>2. /\ Agrees(row, offs, match[c.req])
      /\ offs \in [Providers -> OfferStatus]
      /\ row \in RequestRows
  BY <1>1, LockedAgrees, LockedTypes
<1>3. CASE Accepts(s)
  <2>1. row2.status = "matched" /\ row2.sel = None
    BY <1>2 DEF RequestRows, StoredRows, NoRequest
  <2>2. \A q \in Providers :
            offs2[q] = IF q = p THEN "accepted" ELSE offs[q]
    BY <1>2
  <2>3. \A q \in Providers : ms[q] = IF q = p THEN m ELSE match[c.req][q]
    BY <1>1 DEF TypeOK
  <2>4. m.status = "active" /\ m.by = "nobody"
    OBVIOUS
  <2>5. /\ match' = [match EXCEPT ![c.req] = ms]
        /\ Store(c.req, row2, offs2, "matched")
        /\ AwaitsConfirmation(row, p)
    BY <1>3 DEF Accepts
  <2>6. \A q \in Providers : match[c.req][q].status \notin {"active", "completed"}
    BY <1>2, <2>5 DEF Agrees, AwaitsConfirmation, JobStatus
  <2>7. \A q \in Providers : offs[q] = "selected" <=> q = p
    <3>1. \A q \in Providers : offs[q] = "selected" <=> row.sel = q
      BY <1>2 DEF Agrees
    <3>2. QED
      BY <2>5, <3>1 DEF AwaitsConfirmation
  <2> HIDE DEF row2, offs2, m, ms
  <2>8. Agrees(row2, offs2, ms)
    <3>1. /\ \A q \in Providers : ms[q].status = "active" <=> q = p
          /\ \A q \in Providers : ms[q].status # "completed"
      BY <2>3, <2>4, <2>6
    <3>2. \A q \in Providers : offs2[q] # "selected"
      BY <2>2, <2>7
    <3>3. \A q \in Providers :
              /\ offs2[q] = "accepted" =>
                     \/ ms[q].status \in {"active", "completed"}
                     \/ ms[q].status = "cancelled" /\ ms[q].by = "customer"
              /\ ms[q].status # "none" => offs2[q] \in {"accepted", "rejected"}
              /\ ms[q].by = "provider" => offs2[q] = "rejected"
              /\ ms[q].status \in {"active", "completed"} => offs2[q] = "accepted"
      BY <1>2, <2>2, <2>3, <2>4 DEF Agrees
    <3>4. QED
      BY <1>1, <2>1, <3>1, <3>2, <3>3, NoneIsNotAProvider DEF Agrees, JobStatus
  <2>9. QED
    BY <1>1, <2>5, <2>8, StoreAgrees
<1>4. QED
  BY <1>1, <1>3, AcceptCases, RefuseAgrees, RollbackAgrees

\* A job move leaves the match as it was, on its way, or completed.
LEMMA MovedOnStatus ==
    ASSUME NEW m \in MatchRows, NEW to
    PROVE  LET n == MovedOn(m, to)
           IN  /\ n.by = m.by /\ n.fee = m.fee /\ n.waived = m.waived
               /\ n.status = IF m.status = "active" /\ to = "completed"
                             THEN "completed" ELSE m.status
BY DEF MovedOn, MatchRows

LEMMA CancelledByStatus ==
    ASSUME NEW m \in MatchRows, NEW role
    PROVE  LET n == CancelledBy(m, role)
           IN  /\ n.fee = m.fee /\ n.waived = m.waived
               /\ n.status = IF m.status = "active" THEN "cancelled" ELSE m.status
               /\ n.by = IF m.status = "active" THEN role ELSE m.by
BY DEF CancelledBy, MatchRows

LEMMA UpdateAgrees ==
    ASSUME Coherent, NEW s \in Sessions, CommitUpdate(s)
    PROVE  AllAgree'
<1> DEFINE c == call[s]
           row == req[c.req]
           offs == offer[c.req]
           row2 == [row EXCEPT !.status = c.to]
           ms == [p \in Providers |-> MovedOn(match[c.req][p], c.to)]
<1>1. TypeOK /\ AllAgree /\ Decided(c)
  BY DEF Coherent
<1>2. c \in Calls /\ c.op = "update"
  BY <1>1 DEF TypeOK, CommitUpdate
<1>3. c.req \in Requests /\ <<c.from, c.to, c.role>> \in JobMoves
  BY <1>1, <1>2, CallFields DEF Decided
<1>4. CASE StillAt(row, c.from) /\ Store(c.req, row2, offs, c.to)
           /\ match' = [match EXCEPT ![c.req] = ms]
  <2>1. Agrees(row, offs, match[c.req]) /\ row \in RequestRows
    BY <1>1, <1>3 DEF AllAgree, TypeOK
  <2>2. /\ row.status \in JobStatus
        /\ c.to \in {"on_the_way", "arrived", "completed"}
    BY <1>3, <1>4 DEF StillAt, JobMoves, JobStatus
  <2>3. row2.status = c.to /\ row2.sel = row.sel /\ row.sel = None
    BY <2>1, <2>2 DEF RequestRows, StoredRows, NoRequest, Agrees, JobStatus
  <2>4. \A p \in Providers :
            /\ ms[p].by = match[c.req][p].by
            /\ ms[p].status =
                   IF match[c.req][p].status = "active" /\ c.to = "completed"
                   THEN "completed" ELSE match[c.req][p].status
    BY <1>1, <1>3, MovedOnStatus DEF TypeOK
  <2> HIDE DEF row2, ms
  <2>5. /\ \A p, q \in Providers :
               /\ match[c.req][p].status = "active"
               /\ match[c.req][q].status = "active"
               => p = q
        /\ \E p \in Providers : match[c.req][p].status = "active"
        /\ \A p \in Providers : match[c.req][p].status # "completed"
        /\ \A p \in Providers : offs[p] # "selected"
    BY <2>1, <2>2, <2>3, NoneIsNotAProvider DEF Agrees, JobStatus
  <2>6. \A p \in Providers :
            /\ offs[p] = "accepted" =>
                   \/ ms[p].status \in {"active", "completed"}
                   \/ ms[p].status = "cancelled" /\ ms[p].by = "customer"
            /\ ms[p].status # "none" => offs[p] \in {"accepted", "rejected"}
            /\ ms[p].by = "provider" => offs[p] = "rejected"
            /\ ms[p].status \in {"active", "completed"} => offs[p] = "accepted"
    BY <2>1, <2>4 DEF Agrees
  <2>7. CASE c.to = "completed"
    <3>1. /\ \A p \in Providers :
                 ms[p].status = "completed" <=> match[c.req][p].status = "active"
          /\ \A p \in Providers : ms[p].status # "active"
      BY <2>4, <2>5, <2>7
    <3>2. Agrees(row2, offs, ms)
      BY <2>3, <2>5, <2>6, <2>7, <3>1, NoneIsNotAProvider DEF Agrees, JobStatus
    <3>3. QED
      BY <1>1, <1>3, <1>4, <3>2, StoreAgrees DEF row2, ms
  <2>8. CASE c.to # "completed"
    <3>1. \A p \in Providers : ms[p].status = match[c.req][p].status
      BY <2>4, <2>8
    <3>2. Agrees(row2, offs, ms)
      BY <2>2, <2>3, <2>5, <2>6, <2>8, <3>1, NoneIsNotAProvider
         DEF Agrees, JobStatus
    <3>3. QED
      BY <1>1, <1>3, <1>4, <3>2, StoreAgrees DEF row2, ms
  <2>9. QED
    BY <2>7, <2>8
<1>5. CASE Rollback
  BY <1>1, <1>5, RollbackAgrees
<1>6. QED
  BY <1>4, <1>5 DEF CommitUpdate

\* What a cancel does when nothing refuses it, for each party.
CancelRow(s) ==
    [Locked(call[s].req, call[s].now) EXCEPT !.sel = None, !.selUntil = 0]

CancelOffers(s) ==
    ExpireSelection(LockedOffers(call[s].req, call[s].now),
                    Locked(call[s].req, call[s].now).sel)

CancelMatches(s) ==
    [p \in Providers |-> CancelledBy(match[call[s].req][p], call[s].role)]

Cancels(s) ==
    LET c == call[s]
    IN  /\ StillAt(Locked(c.req, c.now), c.from)
        /\ match' = [match EXCEPT ![c.req] = CancelMatches(s)]
        /\ Refund(c)

BacksOut(s) ==
    LET c == call[s]
    IN  /\ c.role = "provider"
        /\ Cancels(s)
        /\ Store(c.req,
                 [CancelRow(s) EXCEPT !.status = "open", !.expires = c.until],
                 Withdrawn(CancelOffers(s), MatchedBy(c.req, "active")),
                 "open")

CallsOff(s) ==
    LET c == call[s]
    IN  /\ c.role = "customer"
        /\ Cancels(s)
        /\ Store(c.req, [CancelRow(s) EXCEPT !.status = "cancelled"],
                 CancelOffers(s), "cancelled")

LEMMA CancelCases ==
    ASSUME TypeOK, NEW s \in Sessions, CommitCancel(s)
    PROVE  /\ call[s].op = "cancel" /\ call[s] \in Calls
           /\ \/ Refuse(call[s].req, call[s].now)
              \/ Rollback
              \/ BacksOut(s)
              \/ CallsOff(s)
BY DEF CommitCancel, BacksOut, CallsOff, Cancels, CancelRow, CancelOffers,
       CancelMatches, TypeOK

LEMMA CancelAgrees ==
    ASSUME Coherent, NEW s \in Sessions, CommitCancel(s)
    PROVE  AllAgree'
<1> DEFINE c == call[s]
           row == Locked(c.req, c.now)
           locked == LockedOffers(c.req, c.now)
           ms == CancelMatches(s)
           offs == CancelOffers(s)
<1>1. TypeOK /\ AllAgree /\ Decided(c)
  BY DEF Coherent
<1>2. /\ c.req \in Requests /\ c.now \in Nat
      /\ CanCancel(c.from, c.role)
  BY <1>1, CancelCases, CallFields DEF Decided
<1>3. /\ Agrees(row, locked, match[c.req])
      /\ row \in RequestRows /\ locked \in [Providers -> OfferStatus]
  BY <1>1, <1>2, LockedAgrees, LockedTypes
<1>4. \A p \in Providers :
          /\ ms[p].status = IF match[c.req][p].status = "active"
                            THEN "cancelled" ELSE match[c.req][p].status
          /\ ms[p].by = IF match[c.req][p].status = "active"
                        THEN c.role ELSE match[c.req][p].by
  BY <1>1, <1>2, CancelledByStatus DEF TypeOK, CancelMatches
<1>5. \A p \in Providers :
          offs[p] = IF p = row.sel /\ locked[p] = "selected"
                    THEN "expired" ELSE locked[p]
  BY DEF CancelOffers, ExpireSelection
<1>6. \A p \in Providers : offs[p] # "selected"
  BY <1>3, <1>5 DEF Agrees
<1>7. ASSUME StillAt(row, c.from) 
      PROVE  \A p \in Providers : ms[p].status \notin {"active", "completed"}
  <2>1. row.status # "completed"
    BY <1>2, <1>7 DEF StillAt, CanCancel, ClosedStatus
  <2>2. QED
    BY SMTT(40), <1>3, <1>4, <2>1 DEF Agrees
<1>8. CASE BacksOut(s)
  <2> DEFINE row2 == [CancelRow(s) EXCEPT !.status = "open", !.expires = c.until]
             gone == MatchedBy(c.req, "active")
             offs2 == Withdrawn(offs, gone)
  <2>1. /\ StillAt(row, c.from) /\ c.role = "provider"
        /\ match' = [match EXCEPT ![c.req] = ms]
        /\ Store(c.req, row2, offs2, "open")
    BY <1>8 DEF BacksOut, Cancels
  <2>2. row2.status = "open" /\ row2.sel = None
    BY <1>3 DEF CancelRow, RequestRows, StoredRows, NoRequest
  <2>3. \A p \in Providers :
            offs2[p] = IF match[c.req][p].status = "active"
                       THEN "rejected" ELSE offs[p]
    BY DEF Withdrawn, MatchedBy
  <2> HIDE DEF row2, offs2, ms, offs
  <2>4. \A p \in Providers :
            /\ offs2[p] # "selected"
            /\ offs2[p] = "accepted" =>
                   ms[p].status = "cancelled" /\ ms[p].by = "customer"
            /\ ms[p].status # "none" => offs2[p] \in {"accepted", "rejected"}
            /\ ms[p].by = "provider" => offs2[p] = "rejected"
    <3> SUFFICES ASSUME NEW p \in Providers
                 PROVE  /\ offs2[p] # "selected"
                        /\ offs2[p] = "accepted" =>
                               ms[p].status = "cancelled" /\ ms[p].by = "customer"
                        /\ ms[p].status # "none" =>
                               offs2[p] \in {"accepted", "rejected"}
                        /\ ms[p].by = "provider" => offs2[p] = "rejected"
      OBVIOUS
    <3>1. CASE match[c.req][p].status = "active"
      BY <1>4, <2>1, <2>3, <3>1
    <3>2. CASE match[c.req][p].status # "active"
      <4>1. /\ offs2[p] = offs[p] /\ offs[p] # "selected"
            /\ ms[p].status = match[c.req][p].status
            /\ ms[p].by = match[c.req][p].by
            /\ ms[p].status \notin {"active", "completed"}
        BY <1>4, <1>6, <1>7, <2>1, <2>3, <3>2
      <4>2. /\ locked[p] = "accepted" =>
                   \/ match[c.req][p].status \in {"active", "completed"}
                   \/ match[c.req][p].status = "cancelled"
                      /\ match[c.req][p].by = "customer"
            /\ match[c.req][p].status # "none"
                   => locked[p] \in {"accepted", "rejected"}
            /\ match[c.req][p].by = "provider" => locked[p] = "rejected"
        BY <1>3 DEF Agrees
      <4>3. \/ offs[p] = locked[p]
            \/ offs[p] = "expired" /\ locked[p] = "selected"
        BY <1>5
      <4>4. QED
        BY <4>1, <4>2, <4>3
    <3>3. QED
      BY <3>1, <3>2
  <2>5. Agrees(row2, offs2, ms)
    BY <1>7, <2>1, <2>2, <2>4, NoneIsNotAProvider DEF Agrees, JobStatus
  <2>6. QED
    BY <1>1, <1>2, <2>1, <2>5, StoreAgrees
<1>9. CASE CallsOff(s)
  <2> DEFINE row2 == [CancelRow(s) EXCEPT !.status = "cancelled"]
  <2>1. /\ StillAt(row, c.from) /\ c.role = "customer"
        /\ match' = [match EXCEPT ![c.req] = ms]
        /\ Store(c.req, row2, offs, "cancelled")
    BY <1>9 DEF CallsOff, Cancels
  <2>2. row2.status = "cancelled" /\ row2.sel = None
    BY <1>3 DEF CancelRow, RequestRows, StoredRows, NoRequest
  <2> HIDE DEF row2, ms, offs
  <2>3. \A p \in Providers :
            /\ offs[p] = "accepted" =>
                   ms[p].status = "cancelled" /\ ms[p].by = "customer"
            /\ ms[p].status # "none" => offs[p] \in {"accepted", "rejected"}
            /\ ms[p].by = "provider" => offs[p] = "rejected"
    <3> SUFFICES ASSUME NEW p \in Providers
                 PROVE  /\ offs[p] = "accepted" =>
                               ms[p].status = "cancelled" /\ ms[p].by = "customer"
                        /\ ms[p].status # "none" =>
                               offs[p] \in {"accepted", "rejected"}
                        /\ ms[p].by = "provider" => offs[p] = "rejected"
      OBVIOUS
    <3>1. /\ ms[p].status \notin {"active", "completed"}
          /\ ms[p].status = IF match[c.req][p].status = "active"
                            THEN "cancelled" ELSE match[c.req][p].status
          /\ ms[p].by = IF match[c.req][p].status = "active"
                        THEN "customer" ELSE match[c.req][p].by
          /\ offs[p] # "selected"
      BY <1>4, <1>6, <1>7, <2>1
    <3>2. /\ locked[p] = "accepted" =>
                 \/ match[c.req][p].status \in {"active", "completed"}
                 \/ match[c.req][p].status = "cancelled"
                    /\ match[c.req][p].by = "customer"
          /\ match[c.req][p].status # "none"
                 => locked[p] \in {"accepted", "rejected"}
          /\ match[c.req][p].by = "provider" => locked[p] = "rejected"
      BY <1>3 DEF Agrees
    <3>3. \/ offs[p] = locked[p]
          \/ offs[p] = "expired" /\ locked[p] = "selected"
      BY <1>5
    <3>4. QED
      BY <3>1, <3>2, <3>3
  <2>4. Agrees(row2, offs, ms)
    BY <1>6, <1>7, <2>1, <2>2, <2>3, NoneIsNotAProvider DEF Agrees, JobStatus
  <2>5. QED
    BY <1>1, <1>2, <2>1, <2>4, StoreAgrees
<1>10. QED
  BY <1>1, <1>2, <1>8, <1>9, CancelCases, RefuseAgrees, RollbackAgrees

-----------------------------------------------------------------------------
(* Every step.                                                             *)

LEMMA EnteredDecided ==
    ASSUME Coherent, NEW s \in Sessions, NEW c, Decided(c),
           call' = [call EXCEPT ![s] = c]
    PROVE  \A t \in Sessions : Decided(call'[t])
BY DEF Coherent, TypeOK

LEMMA ReturnedDecided ==
    ASSUME Coherent, NEW s \in Sessions, Return(s)
    PROVE  \A t \in Sessions : Decided(call'[t])
<1>1. Decided(Idle)
  BY DEF Decided, Idle
<1>2. QED
  BY <1>1, EnteredDecided DEF Return

LEMMA BeginDecided ==
    ASSUME Coherent, NEW s \in Sessions, Begin(s)
    PROVE  \A t \in Sessions : Decided(call'[t])
<1>1. \A c : c.op \notin {"update", "cancel"} /\ Enter(s, c)
                => \A t \in Sessions : Decided(call'[t])
  BY EnteredDecided DEF Decided, Enter
<1>2. ASSUME NEW r \in Requests, BeginCreate(s, r)
      PROVE  \A t \in Sessions : Decided(call'[t])
  BY <1>1, <1>2 DEF BeginCreate
<1>3. ASSUME NEW r \in Requests, NEW p \in Providers,
             \/ BeginOffer(s, p, r)
             \/ BeginSelect(s, p, r)
             \/ BeginReject(s, p, r)
      PROVE  \A t \in Sessions : Decided(call'[t])
  BY <1>1, <1>3 DEF BeginOffer, BeginSelect, BeginReject
<1>4. ASSUME NEW r \in Requests, NEW p \in Providers, BeginAccept(s, p, r)
      PROVE  \A t \in Sessions : Decided(call'[t])
  BY <1>1, <1>4 DEF BeginAccept
<1>5. ASSUME NEW r \in Requests, NEW u \in Users, NEW want, Load(s, u, r, want)
      PROVE  \A t \in Sessions : Decided(call'[t])
  BY <1>1, <1>5 DEF Load
<1>6. QED
  BY <1>2, <1>3, <1>4, <1>5 DEF Begin

LEMMA DecideDecided ==
    ASSUME Coherent, NEW s \in Sessions, Decide(s)
    PROVE  \A t \in Sessions : Decided(call'[t])
<1>1. ASSUME NEW c, call' = [call EXCEPT ![s] = c], Decided(c)
      PROVE  \A t \in Sessions : Decided(call'[t])
  BY <1>1, EnteredDecided
<1> DEFINE from == Effective(call[s].seen, clock)
           role == RoleOf(call[s].user, call[s].req)
<1>2. CASE DecideUpdate(s)
  <2>1. CASE CanTransition(from, call[s].want, role)
    <3>1. <<from, call[s].want, role>> \in JobMoves
      BY <2>1 DEF CanTransition
    <3> DEFINE c == [op |-> "update", req |-> call[s].req, user |-> call[s].user,
                     from |-> from, to |-> call[s].want, role |-> role,
                     now |-> clock]
    <3>2. Decided(c)
      BY <3>1 DEF Decided
    <3>3. call' = [call EXCEPT ![s] = c]
      BY <1>2, <2>1 DEF DecideUpdate
    <3>4. QED
      BY <1>1, <3>2, <3>3
  <2>2. CASE ~CanTransition(from, call[s].want, role)
    BY <1>2, <2>2, ReturnedDecided DEF DecideUpdate
  <2>3. QED
    BY <2>1, <2>2
<1>3. CASE DecideCancel(s)
  <2>1. CASE CanCancel(from, role)
    <3> DEFINE p == MatchedProvider(call[s].req)
               refunds == p # None
                   /\ RefundEligible(match[call[s].req][p], from, role, clock)
               c == [op |-> "cancel", req |-> call[s].req, user |-> call[s].user,
                     from |-> from, role |-> role, now |-> clock,
                     until |-> IF call[s].seen.expires < clock + RequestTTL
                               THEN clock + RequestTTL ELSE call[s].seen.expires,
                     refund |-> IF refunds THEN p ELSE None]
    <3>1. Decided(c)
      BY <2>1 DEF Decided
    <3>2. call' = [call EXCEPT ![s] = c]
      BY <1>3, <2>1 DEF DecideCancel
    <3>3. QED
      BY <1>1, <3>1, <3>2
  <2>2. CASE ~CanCancel(from, role)
    BY <1>3, <2>2, ReturnedDecided DEF DecideCancel
  <2>3. QED
    BY <2>1, <2>2
<1>4. QED
  BY <1>2, <1>3 DEF Decide

LEMMA CommitAgrees ==
    ASSUME Coherent, NEW s \in Sessions, Commit(s)
    PROVE  AllAgree'
<1>1. TypeOK /\ AllAgree
  BY DEF Coherent
<1>2. QED
  BY <1>1, CreateAgrees, OfferAgrees, SelectAgrees, RejectAgrees,
     AcceptAgrees, UpdateAgrees, CancelAgrees DEF Commit

LEMMA CommitReturns ==
    ASSUME NEW s \in Sessions, Commit(s)
    PROVE  Return(s) /\ Writing
BY DEF Commit, CommitCreate, CommitOffer, CommitSelect, CommitReject,
       CommitAccept, CommitUpdate, CommitCancel

LEMMA SameRowsAgree ==
    AllAgree /\ UNCHANGED <<req, offer, match>> => AllAgree'
BY DEF AllAgree

\* Steps other than the transactions do not touch the rows.
LEMMA OtherStepsKeepRows ==
    ASSUME [Next]_vars
    PROVE  \/ \E s \in Sessions : Commit(s)
           \/ UNCHANGED rows
<1>1. CASE ProfileStep
  BY <1>1 DEF ProfileStep, CreateProvider, UpdateProvider, AdminSetStatus,
              AdminAdjust
<1>2. ASSUME NEW s \in Sessions, Begin(s) PROVE UNCHANGED rows
  BY <1>2 DEF Begin, BeginCreate, BeginOffer, BeginSelect, BeginReject,
              BeginAccept, Load, Reading
<1>3. ASSUME NEW s \in Sessions, Decide(s) \/ Abort(s) PROVE UNCHANGED rows
  BY <1>3 DEF Decide, DecideUpdate, DecideCancel, Abort, Reading
<1>4. CASE Redeploy \/ Tick \/ UNCHANGED vars
  BY <1>4 DEF Redeploy, Tick, vars, rows
<1>5. QED
  BY <1>1, <1>2, <1>3, <1>4 DEF Next

LEMMA NextDecided ==
    ASSUME Coherent, [Next]_vars
    PROVE  \A t \in Sessions : Decided(call'[t])
<1>1. ASSUME UNCHANGED call PROVE \A t \in Sessions : Decided(call'[t])
  BY <1>1 DEF Coherent
<1>2. CASE ProfileStep
  BY <1>1, <1>2 DEF ProfileStep, CreateProvider, UpdateProvider,
                    AdminSetStatus, AdminAdjust
<1>3. ASSUME NEW s \in Sessions, Begin(s) \/ Decide(s) \/ Commit(s) \/ Abort(s)
      PROVE  \A t \in Sessions : Decided(call'[t])
  BY <1>3, BeginDecided, DecideDecided, CommitReturns, ReturnedDecided DEF Abort
<1>4. CASE Redeploy \/ Tick \/ UNCHANGED vars
  BY <1>1, <1>4 DEF Redeploy, Tick, vars
<1>5. QED
  BY <1>2, <1>3, <1>4 DEF Next

LEMMA InitCoherent == Init => Coherent
<1> SUFFICES ASSUME Init PROVE Coherent
  OBVIOUS
<1>1. TypeOK
  BY InitTypes
<1>2. Agrees(NoRequest, [p \in Providers |-> "none"], [p \in Providers |-> NoMatch])
  BY NoneIsNotAProvider DEF Agrees, NoRequest, NoMatch, JobStatus
<1>3. AllAgree
  BY <1>2 DEF AllAgree, Init
<1>4. \A s \in Sessions : Decided(call[s])
  BY DEF Init, Idle, Decided
<1>5. QED
  BY <1>1, <1>3, <1>4 DEF Coherent

LEMMA NextCoherent == Coherent /\ [Next]_vars => Coherent'
<1> SUFFICES ASSUME Coherent, [Next]_vars PROVE Coherent'
  OBVIOUS
<1>1. TypeOK'
  BY NextTypes DEF Coherent
<1>2. AllAgree'
  BY OtherStepsKeepRows, CommitAgrees, SameRowsAgree DEF Coherent, rows
<1>3. \A s \in Sessions : Decided(call'[s])
  BY NextDecided
<1>4. QED
  BY <1>1, <1>2, <1>3 DEF Coherent

LEMMA AlwaysCoherent == Spec => []Coherent
BY InitCoherent, NextCoherent, PTL DEF Spec

\* Two tables and any number of stale calls move a request and its matches,
\* and they still tell the same story: one active match exactly during a job,
\* one completed match exactly after it (MatchAgreesWithStatus, the partial
\* unique index of migration 11 and the comment in CurrentMatch).
THEOREM StatusAndMatchesAgree == Spec => []MatchAgreesWithStatus
BY AlwaysCoherent, CoherentImplies, PTL

\* An offer is selected exactly while its request waits for it, through
\* rejects, timeouts, lazy expiries and cancels.
THEOREM SelectionsAgree == Spec => []SelectionAgreesWithRequest
BY AlwaysCoherent, CoherentImplies, PTL

\* A matched offer is never offered, chosen or accepted a second time, and the
\* offer of a provider who backed out stays rejected.
THEOREM OffersAndMatchesAgree == Spec => []MatchAgreesWithOffer
BY AlwaysCoherent, CoherentImplies, PTL

-----------------------------------------------------------------------------
(***************************************************************************)
(* Part 3: the steps and the timeline.                                     *)
(***************************************************************************)

\* What one transaction may do to the rows of one request.
OffersForward(old, new) ==
    \A p \in Providers : new[p] # old[p] => <<old[p], new[p]>> \in OfferMoves

StaysClosed(old, new) == old.status \in ClosedStatus => new = old

MatchesAgreed(row, offs, old, new) ==
    \A p \in Providers :
        old[p].status = "none" /\ new[p].status # "none"
            => /\ row.status = "pending_confirmation"
               /\ row.sel = p
               /\ offs[p] = "selected"

Lawful(r) ==
    /\ OffersForward(offer[r], offer'[r])
    /\ StaysClosed(req[r], req'[r])
    /\ MatchesAgreed(req[r], offer[r], match[r], match'[r])
    /\ timeline'[r] = req'[r].status

Told == \A r \in Requests : timeline[r] = req[r].status

LEMMA UnchangedLawful ==
    ASSUME Told, NEW r \in Requests,
           req'[r] = req[r], offer'[r] = offer[r], match'[r] = match[r],
           timeline'[r] = timeline[r]
    PROVE  Lawful(r)
BY DEF Lawful, Told, OffersForward, StaysClosed, MatchesAgreed

LEMMA StoreLawful ==
    ASSUME TypeOK, Told, NEW r \in Requests,
           NEW row, NEW offs, NEW event, NEW ms,
           Store(r, row, offs, event),
           match' = [match EXCEPT ![r] = ms],
           OffersForward(offer[r], offs),
           StaysClosed(req[r], row),
           MatchesAgreed(req[r], offer[r], match[r], ms),
           event = row.status
    PROVE  \A q \in Requests : Lawful(q)
<1>1. /\ req'[r] = row /\ offer'[r] = offs /\ match'[r] = ms
      /\ timeline'[r] = event
  BY DEF Store, TypeOK
<1>2. Lawful(r)
  BY <1>1 DEF Lawful
<1>3. \A q \in Requests \ {r} : Lawful(q)
  <2>1. \A q \in Requests \ {r} :
            /\ req'[q] = req[q] /\ offer'[q] = offer[q] /\ match'[q] = match[q]
            /\ timeline'[q] = timeline[q]
    BY DEF Store, TypeOK
  <2>2. QED
    BY <2>1, UnchangedLawful
<1>4. QED
  BY <1>2, <1>3

LEMMA SameMatchAgreed ==
    ASSUME TypeOK, NEW r \in Requests, UNCHANGED match
    PROVE  /\ match' = [match EXCEPT ![r] = match[r]]
           /\ \A row, offs : MatchesAgreed(row, offs, match[r], match[r])
BY DEF TypeOK, MatchesAgreed

\* Bringing a request up to date is lawful, changes no closed request and
\* leaves a request that still waits as it was.
LEMMA LockedLawful ==
    ASSUME TypeOK, AllAgree, Told, NEW r \in Requests, NEW now \in Nat
    PROVE  /\ OffersForward(offer[r], LockedOffers(r, now))
           /\ StaysClosed(req[r], Locked(r, now))
           /\ LockedEvent(r, now) = Locked(r, now).status
           /\ Locked(r, now).status \notin {"open", "expired"} =>
                  /\ Locked(r, now) = req[r]
                  /\ LockedOffers(r, now) = offer[r]
           /\ \A p \in Providers :
                  LockedOffers(r, now)[p] \in
                      {offer[r][p]} \cup (IF offer[r][p] = "selected"
                                          THEN {"expired"} ELSE {})
<1>1. req[r] \in RequestRows /\ offer[r] \in [Providers -> OfferStatus]
  BY DEF TypeOK
<1>2. CASE Stale(r, now)
  <2>1. /\ req[r] \in StoredRows
        /\ req[r].status \in OfferTaking
        /\ Effective(req[r], now) \in {"open", "expired"}
    BY <1>1, <1>2, EffectiveMoves DEF Stale
  <2>2. /\ Locked(r, now).status = Effective(req[r], now)
        /\ LockedEvent(r, now) = Effective(req[r], now)
    BY <1>2, <2>1 DEF Locked, LockedEvent, StoredRows
  <2>3. \A p \in Providers :
            LockedOffers(r, now)[p] =
                IF p = req[r].sel /\ offer[r][p] = "selected"
                THEN "expired" ELSE offer[r][p]
    BY <1>2 DEF LockedOffers, ExpireSelection
  <2>4. OffersForward(offer[r], LockedOffers(r, now))
    BY <2>3 DEF OffersForward, OfferMoves
  <2>5. StaysClosed(req[r], Locked(r, now))
    BY <2>1 DEF StaysClosed, OfferTaking, ClosedStatus
  <2>6. \A p \in Providers :
            LockedOffers(r, now)[p] \in
                {offer[r][p]} \cup (IF offer[r][p] = "selected"
                                    THEN {"expired"} ELSE {})
    BY <2>3
  <2>7. QED
    BY <2>1, <2>2, <2>4, <2>5, <2>6
<1>3. CASE ~Stale(r, now)
  <2>1. /\ Locked(r, now) = req[r] /\ LockedOffers(r, now) = offer[r]
        /\ LockedEvent(r, now) = timeline[r] /\ timeline[r] = req[r].status
    BY <1>3 DEF Locked, LockedOffers, LockedEvent, Told
  <2>2. QED
    BY <2>1 DEF OffersForward, StaysClosed
<1>4. QED
  BY <1>2, <1>3

LEMMA RefuseLawful ==
    ASSUME TypeOK, AllAgree, Told, NEW r \in Requests, NEW now \in Nat,
           Refuse(r, now)
    PROVE  \A q \in Requests : Lawful(q)
<1>1. /\ Store(r, Locked(r, now), LockedOffers(r, now), LockedEvent(r, now))
      /\ UNCHANGED match
  BY DEF Refuse
<1>2. /\ OffersForward(offer[r], LockedOffers(r, now))
      /\ StaysClosed(req[r], Locked(r, now))
      /\ LockedEvent(r, now) = Locked(r, now).status
  BY LockedLawful
<1>3. /\ match' = [match EXCEPT ![r] = match[r]]
      /\ MatchesAgreed(req[r], offer[r], match[r], match[r])
  BY <1>1, SameMatchAgreed
<1>4. QED
  BY <1>1, <1>2, <1>3, StoreLawful

LEMMA RollbackLawful ==
    ASSUME Told, UNCHANGED rows
    PROVE  \A q \in Requests : Lawful(q)
BY UnchangedLawful DEF rows

-----------------------------------------------------------------------------
(* The transactions.                                                       *)

LEMMA SameMatchStoreLawful ==
    ASSUME TypeOK, Told, NEW r \in Requests,
           NEW row, NEW offs, NEW event,
           Store(r, row, offs, event), UNCHANGED match,
           OffersForward(offer[r], offs),
           StaysClosed(req[r], row),
           event = row.status
    PROVE  \A q \in Requests : Lawful(q)
<1>1. /\ match' = [match EXCEPT ![r] = match[r]]
      /\ MatchesAgreed(req[r], offer[r], match[r], match[r])
  BY SameMatchAgreed
<1>2. QED
  BY <1>1, StoreLawful

LEMMA CreateLawful ==
    ASSUME TypeOK, Told, NEW s \in Sessions, CommitCreate(s)
    PROVE  \A q \in Requests : Lawful(q)
<1> DEFINE c == call[s]
           row == [status |-> "open", sel |-> None, selUntil |-> 0,
                   expires |-> c.now + RequestTTL]
<1>1. c.req \in Requests
  BY CallFields DEF CommitCreate, TypeOK
<1>2. CASE ~Exists(c.req) /\ Store(c.req, row, offer[c.req], "open")
           /\ UNCHANGED match
  <2>1. /\ OffersForward(offer[c.req], offer[c.req])
        /\ StaysClosed(req[c.req], row)
        /\ row.status = "open"
    BY <1>2 DEF OffersForward, StaysClosed, Exists, ClosedStatus
  <2>2. QED
    BY <1>1, <1>2, <2>1, SameMatchStoreLawful
<1>3. CASE Rollback
  BY <1>3, RollbackLawful DEF Rollback
<1>4. QED
  BY <1>2, <1>3 DEF CommitCreate

LEMMA OfferLawful ==
    ASSUME TypeOK, AllAgree, Told, NEW s \in Sessions, CommitOffer(s)
    PROVE  \A q \in Requests : Lawful(q)
<1> DEFINE c == call[s]
           row == Locked(c.req, c.now)
           offs == LockedOffers(c.req, c.now)
           offs2 == [offs EXCEPT ![c.prov] = "pending"]
<1>1. c.req \in Requests /\ c.prov \in Providers /\ c.now \in Nat
  BY CallFields DEF CommitOffer, TypeOK
<1>2. CASE /\ Editable(offs[c.prov])
           /\ Store(c.req, row, offs2, LockedEvent(c.req, c.now))
           /\ UNCHANGED match
  <2>1. /\ StaysClosed(req[c.req], row)
        /\ LockedEvent(c.req, c.now) = row.status
        /\ OffersForward(offer[c.req], offs)
        /\ offs \in [Providers -> OfferStatus]
    BY <1>1, LockedLawful, LockedTypes
  <2>2. offer[c.req][c.prov] = offs[c.prov]
    <3>1. offs[c.prov] \in {offer[c.req][c.prov]} \cup
              (IF offer[c.req][c.prov] = "selected" THEN {"expired"} ELSE {})
      BY <1>1, LockedLawful
    <3>2. QED
      BY <1>2, <3>1 DEF Editable
  <2>3. OffersForward(offer[c.req], offs2)
    BY <1>1, <1>2, <2>1, <2>2 DEF OffersForward, OfferMoves, Editable
  <2>4. QED
    BY <1>1, <1>2, <2>1, <2>3, SameMatchStoreLawful
<1>3. CASE Rollback
  BY <1>3, RollbackLawful DEF Rollback
<1>4. CASE Refuse(c.req, c.now)
  BY <1>1, <1>4, RefuseLawful
<1>5. QED
  BY <1>2, <1>3, <1>4 DEF CommitOffer

LEMMA SelectLawful ==
    ASSUME TypeOK, AllAgree, Told, NEW s \in Sessions, CommitSelect(s)
    PROVE  \A q \in Requests : Lawful(q)
<1> DEFINE c == call[s]
           row == Locked(c.req, c.now)
           offs == LockedOffers(c.req, c.now)
           row2 == [row EXCEPT !.status = "pending_confirmation",
                               !.sel = c.prov,
                               !.selUntil = c.now + ConfirmTimeout]
           offs2 == [offs EXCEPT ![c.prov] = "selected"]
<1>1. c.req \in Requests /\ c.prov \in Providers /\ c.now \in Nat
  BY CallFields DEF CommitSelect, TypeOK
<1>2. CASE /\ row.status = "open" /\ offs[c.prov] = "pending"
           /\ Store(c.req, row2, offs2, "pending_confirmation")
           /\ UNCHANGED match
  <2>1. /\ StaysClosed(req[c.req], row)
        /\ OffersForward(offer[c.req], offs)
        /\ offs \in [Providers -> OfferStatus]
        /\ row \in RequestRows
    BY <1>1, LockedLawful, LockedTypes
  <2>2. offer[c.req][c.prov] = "pending"
    <3>1. offs[c.prov] \in {offer[c.req][c.prov]} \cup
              (IF offer[c.req][c.prov] = "selected" THEN {"expired"} ELSE {})
      BY <1>1, LockedLawful
    <3>2. QED
      BY <1>2, <3>1
  <2>3. row2.status = "pending_confirmation"
    BY <2>1 DEF RequestRows, StoredRows, NoRequest
  <2>4. StaysClosed(req[c.req], row2)
    BY <1>2, <2>1 DEF StaysClosed, ClosedStatus
  <2>5. OffersForward(offer[c.req], offs2)
    BY <1>1, <2>1, <2>2 DEF OffersForward, OfferMoves
  <2> HIDE DEF row2, offs2
  <2>6. QED
    BY <1>1, <1>2, <2>3, <2>4, <2>5, SameMatchStoreLawful
<1>3. CASE Refuse(c.req, c.now)
  BY <1>1, <1>3, RefuseLawful
<1>4. QED
  BY <1>2, <1>3 DEF CommitSelect

LEMMA RejectLawful ==
    ASSUME TypeOK, AllAgree, Told, NEW s \in Sessions, CommitReject(s)
    PROVE  \A q \in Requests : Lawful(q)
<1> DEFINE c == call[s]
           row == Locked(c.req, c.now)
           offs == LockedOffers(c.req, c.now)
           row2 == [row EXCEPT !.status = "open", !.sel = None, !.selUntil = 0]
           offs2 == [offs EXCEPT ![c.prov] = "rejected"]
<1>1. c.req \in Requests /\ c.prov \in Providers /\ c.now \in Nat
  BY CallFields DEF CommitReject, TypeOK
<1>2. CASE /\ AwaitsConfirmation(row, c.prov) /\ offs[c.prov] = "selected"
           /\ Store(c.req, row2, offs2, "open")
           /\ UNCHANGED match
  <2>1. row = req[c.req] /\ offs = offer[c.req] /\ row \in RequestRows
        /\ offs \in [Providers -> OfferStatus]
    BY <1>1, <1>2, LockedLawful, LockedTypes DEF AwaitsConfirmation
  <2>2. row2.status = "open"
    BY <2>1 DEF RequestRows, StoredRows, NoRequest
  <2>3. StaysClosed(req[c.req], row2)
    BY <1>2, <2>1 DEF StaysClosed, AwaitsConfirmation, ClosedStatus
  <2>4. OffersForward(offer[c.req], offs2)
    BY <1>1, <1>2, <2>1 DEF OffersForward, OfferMoves
  <2> HIDE DEF row2, offs2
  <2>5. QED
    BY <1>1, <1>2, <2>2, <2>3, <2>4, SameMatchStoreLawful
<1>3. CASE Refuse(c.req, c.now)
  BY <1>1, <1>3, RefuseLawful
<1>4. QED
  BY <1>2, <1>3 DEF CommitReject

LEMMA AcceptLawful ==
    ASSUME TypeOK, AllAgree, Told, NEW s \in Sessions, CommitAccept(s)
    PROVE  \A q \in Requests : Lawful(q)
<1> DEFINE c == call[s]
           p == c.prov
           row == Locked(c.req, c.now)
           offs == LockedOffers(c.req, c.now)
           row2 == [row EXCEPT !.status = "matched", !.sel = None, !.selUntil = 0]
           offs2 == [offs EXCEPT ![p] = "accepted"]
           m == [status |-> "active", fee |-> c.fee, waived |-> ~c.charge,
                 by |-> "nobody", travelled |-> FALSE, at |-> c.now]
           ms == [match[c.req] EXCEPT ![p] = m]
<1>1. c.req \in Requests /\ p \in Providers /\ c.now \in Nat
  BY AcceptCases, CallFields
<1>2. CASE Accepts(s)
  <2>1. /\ AwaitsConfirmation(row, p)
        /\ match' = [match EXCEPT ![c.req] = ms]
        /\ Store(c.req, row2, offs2, "matched")
    BY <1>2 DEF Accepts
  <2>2. row = req[c.req] /\ offs = offer[c.req] /\ row \in RequestRows
        /\ offs \in [Providers -> OfferStatus]
    BY <1>1, <2>1, LockedLawful, LockedTypes DEF AwaitsConfirmation
  <2>3. row2.status = "matched"
    BY <2>2 DEF RequestRows, StoredRows, NoRequest
  <2>4. StaysClosed(req[c.req], row2)
    BY <2>1, <2>2 DEF StaysClosed, AwaitsConfirmation, ClosedStatus
  <2>5. offer[c.req][p] = "selected"
    BY <1>1, <2>1, <2>2 DEF AllAgree, Agrees, AwaitsConfirmation
  <2>6. OffersForward(offer[c.req], offs2)
    BY <1>1, <2>2, <2>5 DEF OffersForward, OfferMoves
  <2>7. \A q \in Providers : q # p => ms[q] = match[c.req][q]
    BY <1>1 DEF TypeOK
  <2> HIDE DEF row2, offs2, ms
  <2>8. MatchesAgreed(req[c.req], offer[c.req], match[c.req], ms)
    BY <2>1, <2>2, <2>5, <2>7 DEF MatchesAgreed, AwaitsConfirmation
  <2>9. QED
    BY <1>1, <2>1, <2>3, <2>4, <2>6, <2>8, StoreLawful
<1>3. CASE Refuse(c.req, c.now)
  BY <1>1, <1>3, RefuseLawful
<1>4. CASE Rollback
  BY <1>4, RollbackLawful DEF Rollback
<1>5. QED
  BY <1>2, <1>3, <1>4, AcceptCases

LEMMA UpdateLawful ==
    ASSUME Coherent, Told, NEW s \in Sessions, CommitUpdate(s)
    PROVE  \A q \in Requests : Lawful(q)
<1> DEFINE c == call[s]
           row == req[c.req]
           row2 == [row EXCEPT !.status = c.to]
           ms == [p \in Providers |-> MovedOn(match[c.req][p], c.to)]
<1>1. TypeOK /\ Decided(c) /\ c \in Calls /\ c.op = "update"
  BY DEF Coherent, TypeOK, CommitUpdate
<1>2. c.req \in Requests /\ <<c.from, c.to, c.role>> \in JobMoves
  BY <1>1, CallFields DEF Decided
<1>3. CASE StillAt(row, c.from) /\ Store(c.req, row2, offer[c.req], c.to)
           /\ match' = [match EXCEPT ![c.req] = ms]
  <2>1. row2.status = c.to
    BY <1>1, <1>2 DEF TypeOK, RequestRows, StoredRows, NoRequest
  <2>2. StaysClosed(row, row2)
    BY <1>2, <1>3 DEF StaysClosed, StillAt, JobMoves, ClosedStatus
  <2>3. \A p \in Providers :
            match[c.req][p].status = "none" => ms[p].status = "none"
    BY ZenonT(60), <1>1, <1>2, MovedOnStatus DEF TypeOK
  <2> HIDE DEF row2, ms
  <2>4. MatchesAgreed(row, offer[c.req], match[c.req], ms)
    BY <2>3 DEF MatchesAgreed
  <2>5. OffersForward(offer[c.req], offer[c.req])
    BY DEF OffersForward
  <2>6. QED
    BY <1>1, <1>2, <1>3, <2>1, <2>2, <2>4, <2>5, StoreLawful
<1>4. CASE Rollback
  BY <1>4, RollbackLawful DEF Rollback
<1>5. QED
  BY <1>3, <1>4 DEF CommitUpdate

LEMMA CancelLawful ==
    ASSUME Coherent, Told, NEW s \in Sessions, CommitCancel(s)
    PROVE  \A q \in Requests : Lawful(q)
<1> DEFINE c == call[s]
           row == Locked(c.req, c.now)
           locked == LockedOffers(c.req, c.now)
           offs == CancelOffers(s)
           ms == CancelMatches(s)
           gone == MatchedBy(c.req, "active")
<1>1. TypeOK /\ AllAgree /\ Decided(c)
  BY DEF Coherent
<1>2. /\ c.req \in Requests /\ c.now \in Nat /\ CanCancel(c.from, c.role)
  BY <1>1, CancelCases, CallFields DEF Decided
<1>3. /\ row \in RequestRows
      /\ StaysClosed(req[c.req], row)
      /\ OffersForward(offer[c.req], locked)
  BY <1>1, <1>2, LockedLawful, LockedTypes
<1>4. \A p \in Providers :
          match[c.req][p].status = "none" => ms[p].status = "none"
  BY ZenonT(60), <1>1, <1>2, CancelledByStatus DEF TypeOK, CancelMatches
<1>5. MatchesAgreed(req[c.req], offer[c.req], match[c.req], ms)
  BY <1>4 DEF MatchesAgreed
<1>6. \A p \in Providers :
          /\ locked[p] \in {offer[c.req][p]} \cup
                 (IF offer[c.req][p] = "selected" THEN {"expired"} ELSE {})
          /\ offs[p] \in {locked[p]} \cup
                 (IF locked[p] = "selected" THEN {"expired"} ELSE {})
  <2>1. \A p \in Providers :
            locked[p] \in {offer[c.req][p]} \cup
                (IF offer[c.req][p] = "selected" THEN {"expired"} ELSE {})
    BY <1>1, <1>2, LockedLawful
  <2>2. \A p \in Providers :
            offs[p] \in {locked[p]} \cup
                (IF locked[p] = "selected" THEN {"expired"} ELSE {})
    BY DEF CancelOffers, ExpireSelection
  <2>3. QED
    BY <2>1, <2>2
<1>7. OffersForward(offer[c.req], offs)
  BY <1>6 DEF OffersForward, OfferMoves
<1>8. ASSUME StillAt(row, c.from) PROVE req[c.req].status \notin ClosedStatus
  <2>1. row.status \notin ClosedStatus
    BY <1>2, <1>8 DEF StillAt, CanCancel, ClosedStatus
  <2>2. QED
    BY <1>3, <2>1 DEF StaysClosed
<1>9. CASE BacksOut(s)
  <2> DEFINE row2 == [CancelRow(s) EXCEPT !.status = "open", !.expires = c.until]
             offs2 == Withdrawn(offs, gone)
  <2>1. /\ StillAt(row, c.from)
        /\ match' = [match EXCEPT ![c.req] = ms]
        /\ Store(c.req, row2, offs2, "open")
    BY <1>9 DEF BacksOut, Cancels
  <2>2. row2.status = "open"
    BY <1>3 DEF CancelRow, RequestRows, StoredRows, NoRequest
  <2>3. StaysClosed(req[c.req], row2)
    BY <1>8, <2>1 DEF StaysClosed
  <2>4. \A p \in Providers :
            offs2[p] = IF match[c.req][p].status = "active"
                       THEN "rejected" ELSE offs[p]
    BY DEF Withdrawn, MatchedBy
  <2>5. \A p \in Providers : match[c.req][p].status = "active"
            => offer[c.req][p] \in {"accepted", "rejected"}
    BY <1>1, <1>2 DEF AllAgree, Agrees
  <2> HIDE DEF row2, offs2, offs, ms
  <2>6. OffersForward(offer[c.req], offs2)
    BY <1>7, <2>4, <2>5 DEF OffersForward, OfferMoves
  <2>7. QED
    BY <1>1, <1>2, <1>5, <2>1, <2>2, <2>3, <2>6, StoreLawful
<1>10. CASE CallsOff(s)
  <2> DEFINE row2 == [CancelRow(s) EXCEPT !.status = "cancelled"]
  <2>1. /\ StillAt(row, c.from)
        /\ match' = [match EXCEPT ![c.req] = ms]
        /\ Store(c.req, row2, offs, "cancelled")
    BY <1>10 DEF CallsOff, Cancels
  <2>2. row2.status = "cancelled"
    BY <1>3 DEF CancelRow, RequestRows, StoredRows, NoRequest
  <2>3. StaysClosed(req[c.req], row2)
    BY <1>8, <2>1 DEF StaysClosed
  <2> HIDE DEF row2, offs, ms
  <2>4. QED
    BY <1>1, <1>2, <1>5, <1>7, <2>1, <2>2, <2>3, StoreLawful
<1>11. CASE Refuse(c.req, c.now)
  BY <1>1, <1>2, <1>11, RefuseLawful
<1>12. CASE Rollback
  BY <1>12, RollbackLawful DEF Rollback
<1>13. QED
  BY <1>1, <1>9, <1>10, <1>11, <1>12, CancelCases

-----------------------------------------------------------------------------
(* Every step.                                                             *)

LEMMA NextLawful ==
    ASSUME Coherent, Told, [Next]_vars
    PROVE  \A r \in Requests : Lawful(r)
<1>1. TypeOK /\ AllAgree
  BY DEF Coherent
<1>2. ASSUME NEW s \in Sessions, Commit(s)
      PROVE  \A r \in Requests : Lawful(r)
  BY <1>1, <1>2, CreateLawful, OfferLawful, SelectLawful, RejectLawful,
     AcceptLawful, UpdateLawful, CancelLawful DEF Commit
<1>3. CASE UNCHANGED rows
  BY <1>3, RollbackLawful
<1>4. QED
  BY <1>2, <1>3, OtherStepsKeepRows

LEMMA AlwaysTold == Spec => [](Coherent /\ Told)
<1>1. Init => Told
  BY DEF Init, Told, NoRequest
<1>2. Coherent /\ Told /\ [Next]_vars => Told'
  BY NextLawful DEF Lawful, Told
<1>3. QED
  BY <1>1, <1>2, AlwaysCoherent, PTL DEF Spec

\* The newest row of a request's timeline is its status, lazy expiries and
\* selection timeouts included (insertRequestEvent in every transaction).
THEOREM TimelinesAgree == Spec => []TimelineAgreesWithStatus
<1>1. Told => TimelineAgreesWithStatus
  BY DEF Told, TimelineAgreesWithStatus
<1>2. QED
  BY <1>1, AlwaysTold, PTL

\* An offer only moves forward, whatever its provider, the customer and the
\* clock do to it at once: what was selected is never edited, what was refused
\* is never chosen (the conditions of the UPDATEs on service_offers).
THEOREM OffersNeverReturn == Spec => OffersOnlyMoveForward
<1>1. (\A r \in Requests : Lawful(r))
      => \A r \in Requests, p \in Providers :
             offer'[r][p] # offer[r][p]
                 => <<offer[r][p], offer'[r][p]>> \in OfferMoves
  BY DEF Lawful, OffersForward
<1>2. Coherent /\ Told /\ [Next]_vars
      => [\A r \in Requests, p \in Providers :
              offer'[r][p] # offer[r][p]
                  => <<offer[r][p], offer'[r][p]>> \in OfferMoves]_vars
  BY <1>1, NextLawful
<1>3. QED
  BY <1>2, AlwaysTold, PTL DEF Spec, OffersOnlyMoveForward

\* A closed request stays closed, whatever calls were under way when it closed
\* (the status checks every transaction repeats under the row lock).
THEOREM ClosedForGood == Spec => ClosedStaysClosed
<1>1. (\A r \in Requests : Lawful(r))
      => \A r \in Requests : req[r].status \in ClosedStatus => req'[r] = req[r]
  BY DEF Lawful, StaysClosed
<1>2. Coherent /\ Told /\ [Next]_vars
      => [\A r \in Requests : req[r].status \in ClosedStatus => req'[r] = req[r]]_vars
  BY <1>1, NextLawful
<1>3. QED
  BY <1>2, AlwaysTold, PTL DEF Spec, ClosedStaysClosed

\* A match needs both parties: it appears only while the request waits for this
\* provider with the customer's selection of their offer standing (AcceptOffer,
\* "the qualified match").
THEOREM MatchesAreAgreed == Spec => MatchNeedsBothParties
<1>1. (\A r \in Requests : Lawful(r))
      => \A r \in Requests, p \in Providers :
             match[r][p].status = "none" /\ match'[r][p].status # "none"
                 => /\ req[r].status = "pending_confirmation"
                    /\ req[r].sel = p
                    /\ offer[r][p] = "selected"
  BY DEF Lawful, MatchesAgreed
<1>2. Coherent /\ Told /\ [Next]_vars
      => [\A r \in Requests, p \in Providers :
              match[r][p].status = "none" /\ match'[r][p].status # "none"
                  => /\ req[r].status = "pending_confirmation"
                     /\ req[r].sel = p
                     /\ offer[r][p] = "selected"]_vars
  BY <1>1, NextLawful
<1>3. QED
  BY <1>2, AlwaysTold, PTL DEF Spec, MatchNeedsBothParties

-----------------------------------------------------------------------------
(***************************************************************************)
(* Part 4: the provider's credit.                                          *)
(***************************************************************************)

Rows == Seq(RowSet(Requests \cup {None}))

-----------------------------------------------------------------------------
(* The cached balance.                                                     *)

LEMMA PostBalances ==
    ASSUME TypeOK, BalanceIsLedger, NEW p \in Providers, NEW type \in TxTypes,
           NEW ref \in Requests \cup {None}, NEW amount \in Int,
           balance[p] + amount >= 0,
           Post(p, Entry(type, ref, amount))
    PROVE  BalanceIsLedger'
<1> DEFINE e == Entry(type, ref, amount)
<1>1. ledger[p] \in Rows /\ balance[p] \in Nat /\ Accounts(ledger[p], balance[p])
  BY DEF TypeOK, BalanceIsLedger, Rows
<1>2. Accounts(Posted(ledger[p], balance[p], e),
               PostedBalance(ledger[p], balance[p], e))
  BY <1>1, PostedAccounts DEF Rows
<1> HIDE DEF e
<1>3. /\ ledger'[p] = Posted(ledger[p], balance[p], e)
      /\ balance'[p] = PostedBalance(ledger[p], balance[p], e)
      /\ \A q \in Providers \ {p} :
             ledger'[q] = ledger[q] /\ balance'[q] = balance[q]
  BY DEF Post, TypeOK, e
<1>4. QED
  BY <1>2, <1>3 DEF BalanceIsLedger

LEMMA SameWalletBalances ==
    BalanceIsLedger /\ UNCHANGED wallet => BalanceIsLedger'
BY DEF BalanceIsLedger, wallet

LEMMA ProfileBalances ==
    ASSUME TypeOK, BalanceIsLedger, ProfileStep
    PROVE  BalanceIsLedger'
<1>1. ASSUME NEW p \in Providers, NEW covers, NEW available,
             CreateProvider(p, covers, available)
      PROVE  BalanceIsLedger'
  <2>1. CASE policy.credit /\ policy.welcome > 0
    <3>1. policy.welcome \in Int /\ balance[p] + policy.welcome >= 0
      BY PoliciesAreBilling DEF TypeOK
    <3>2. Post(p, Entry("welcome_credit", None, policy.welcome))
      BY <1>1, <2>1 DEF CreateProvider
    <3>3. QED
      BY <3>1, <3>2, PostBalances DEF TxTypes
  <2>2. CASE ~(policy.credit /\ policy.welcome > 0)
    BY <1>1, <2>2, SameWalletBalances DEF CreateProvider
  <2>3. QED
    BY <2>1, <2>2
<1>2. ASSUME NEW p \in Providers, NEW amount \in Adjustments,
             AdminAdjust(p, amount)
      PROVE  BalanceIsLedger'
  <2> DEFINE after == balance[p] + amount
             row == [key |-> Key("admin_adjustment", None), amount |-> amount,
                     after |-> after]
  <2>1. /\ ledger[p] \in Rows /\ balance[p] \in Nat /\ amount \in Int
        /\ Accounts(ledger[p], balance[p])
    BY AdjustmentsAreInt DEF TypeOK, BalanceIsLedger, Rows
  <2>2. after \in Nat
    BY <1>2, <2>1 DEF AdminAdjust
  <2>3. row \in RowSet(Requests \cup {None})
    BY <2>1, <2>2 DEF RowSet, Key, TxTypes
  <2>4. row.after = after /\ row.amount = amount
    OBVIOUS
  <2>5. /\ ledger' = [ledger EXCEPT ![p] = Append(ledger[p], row)]
        /\ balance' = [balance EXCEPT ![p] = after]
    BY <1>2 DEF AdminAdjust
  <2> HIDE DEF row
  <2>6. Accounts(Append(ledger[p], row), after)
    BY <2>1, <2>3, <2>4, AppendAccounts DEF Rows
  <2>7. /\ ledger'[p] = Append(ledger[p], row)
        /\ balance'[p] = after
        /\ \A q \in Providers \ {p} :
               ledger'[q] = ledger[q] /\ balance'[q] = balance[q]
    BY <2>5 DEF TypeOK
  <2>8. QED
    BY <2>6, <2>7 DEF BalanceIsLedger
<1>3. ASSUME NEW p \in Providers, NEW covers, NEW available,
             UpdateProvider(p, covers, available) \/ AdminSetStatus(p)
      PROVE  BalanceIsLedger'
  BY <1>3, SameWalletBalances DEF UpdateProvider, AdminSetStatus
<1>4. QED
  BY <1>1, <1>2, <1>3 DEF ProfileStep

\* A call whose fee is due can pay it, so it never takes a balance below zero.
LEMMA AcceptPosts ==
    ASSUME TypeOK, NEW s \in Sessions, CommitAccept(s), Accepts(s)
    PROVE  LET c == call[s]
           IN  /\ c.req \in Requests /\ c.prov \in Providers /\ c.fee \in Nat
               /\ c.charge \in BOOLEAN
               /\ FeeDue(c) => /\ Post(c.prov, Entry("match_fee", c.req, -c.fee))
                               /\ -c.fee \in Int /\ balance[c.prov] + (-c.fee) >= 0
               /\ ~FeeDue(c) => UNCHANGED wallet
<1> DEFINE c == call[s]
<1>1. /\ c.req \in Requests /\ c.prov \in Providers /\ c.fee \in Nat
      /\ c.charge \in BOOLEAN
  BY AcceptCases, CallFields
<1>2. balance[c.prov] \in Nat
  BY <1>1 DEF TypeOK
<1>3. FeeDue(c) => balance[c.prov] + (-c.fee) >= 0
  <2>1. SUFFICES ASSUME FeeDue(c) PROVE balance[c.prov] + (-c.fee) >= 0
    OBVIOUS
  <2>2. ~(balance[c.prov] < c.fee)
    BY <2>1 DEF Accepts, CanPay, FeeDue
  <2>3. QED
    BY <1>1, <1>2, <2>2
<1>4. QED
  BY <1>1, <1>3 DEF Accepts

\* A refund is a fee that a match recorded.
LEMMA CancelPosts ==
    ASSUME TypeOK, NEW s \in Sessions, CommitCancel(s), Cancels(s)
    PROVE  LET c == call[s]
           IN  /\ c.req \in Requests /\ c.refund \in Providers \cup {None}
               /\ c.refund = None => UNCHANGED wallet
               /\ c.refund # None =>
                      LET fee == match[c.req][c.refund].fee
                      IN  /\ fee \in Nat
                          /\ balance[c.refund] + fee >= 0
                          /\ Post(c.refund, Entry("refund", c.req, fee))
<1> DEFINE c == call[s]
<1>1. c.req \in Requests /\ c.refund \in Providers \cup {None}
  BY CancelCases, CallFields
<1>2. /\ c.refund = None => UNCHANGED wallet
      /\ c.refund # None =>
             Post(c.refund, Entry("refund", c.req, match[c.req][c.refund].fee))
  BY DEF Cancels, Refund
<1>3. ASSUME c.refund # None
      PROVE  /\ match[c.req][c.refund].fee \in Nat
             /\ balance[c.refund] \in Nat
  BY <1>1, <1>3 DEF TypeOK, MatchRows
<1>4. QED
  BY <1>1, <1>2, <1>3

LEMMA CommitBalances ==
    ASSUME TypeOK, BalanceIsLedger, NEW s \in Sessions, Commit(s)
    PROVE  BalanceIsLedger'
<1>1. ASSUME \/ CommitCreate(s)
             \/ CommitOffer(s)
             \/ CommitSelect(s)
             \/ CommitReject(s)
             \/ CommitUpdate(s)
      PROVE  BalanceIsLedger'
  BY <1>1, SameWalletBalances
     DEF CommitCreate, CommitOffer, CommitSelect, CommitReject, CommitUpdate,
         Refuse, Rollback
<1>2. CASE CommitAccept(s)
  <2>1. CASE Accepts(s)
    <3>1. CASE FeeDue(call[s])
      BY <1>2, <2>1, <3>1, AcceptPosts, PostBalances DEF TxTypes
    <3>2. CASE ~FeeDue(call[s])
      BY <1>2, <2>1, <3>2, AcceptPosts, SameWalletBalances
    <3>3. QED
      BY <3>1, <3>2
  <2>2. QED
    BY <1>2, <2>1, AcceptCases, SameWalletBalances DEF Refuse, Rollback
<1>3. CASE CommitCancel(s)
  <2>1. CASE Cancels(s)
    <3>1. CASE call[s].refund = None
      BY <1>3, <2>1, <3>1, CancelPosts, SameWalletBalances
    <3>2. CASE call[s].refund # None
      <4> DEFINE fee == match[call[s].req][call[s].refund].fee
      <4>1. /\ call[s].refund \in Providers /\ call[s].req \in Requests
            /\ fee \in Int /\ balance[call[s].refund] + fee >= 0
            /\ Post(call[s].refund, Entry("refund", call[s].req, fee))
        BY <1>3, <2>1, <3>2, CancelPosts
      <4>2. QED
        BY <4>1, PostBalances DEF TxTypes
    <3>3. QED
      BY <3>1, <3>2
  <2>2. QED
    BY <1>3, <2>1, CancelCases, SameWalletBalances
       DEF Refuse, Rollback, BacksOut, CallsOff
<1>4. QED
  BY <1>1, <1>2, <1>3 DEF Commit

\* Only profile steps and transactions touch a wallet.
LEMMA OtherStepsKeepWallets ==
    ASSUME [Next]_vars
    PROVE  \/ ProfileStep
           \/ \E s \in Sessions : Commit(s)
           \/ UNCHANGED wallet
<1>1. ASSUME NEW s \in Sessions, Begin(s) PROVE UNCHANGED wallet
  BY <1>1 DEF Begin, BeginCreate, BeginOffer, BeginSelect, BeginReject,
              BeginAccept, Load, Reading
<1>2. ASSUME NEW s \in Sessions, Decide(s) \/ Abort(s) PROVE UNCHANGED wallet
  BY <1>2 DEF Decide, DecideUpdate, DecideCancel, Abort, Reading
<1>3. CASE Redeploy \/ Tick \/ UNCHANGED vars
  BY <1>3 DEF Redeploy, Tick, vars, wallet
<1>4. QED
  BY <1>1, <1>2, <1>3 DEF Next

\* The cached balance is always what the append-only ledger adds up to, and it
\* was never negative ("the ledger is the source of truth", migration 11),
\* whatever order fees, refunds, adjustments and welcome credits commit in.
THEOREM BalancesHold == Spec => []BalanceIsLedger
<1>1. Init => BalanceIsLedger
  <2>1. Accounts(<<>>, 0)
    BY DEF Accounts, Before
  <2>2. QED
    BY <2>1 DEF Init, BalanceIsLedger
<1>2. TypeOK /\ BalanceIsLedger /\ [Next]_vars => BalanceIsLedger'
  BY OtherStepsKeepWallets, ProfileBalances, CommitBalances, SameWalletBalances
<1>3. QED
  BY <1>1, <1>2, TypeCorrect, PTL DEF Spec

-----------------------------------------------------------------------------
(* Fees and refunds of one match.                                          *)

FeeTaken(rs, r, m) ==
    LET fees == RowsWith(rs, Key("match_fee", r))
    IN  /\ \A i \in fees : rs[i].amount = -m.fee
        /\ \A i, j \in fees : i = j
        /\ fees # {} <=> m.status # "none" /\ Charged(m)

RefundGiven(rs, r, m) ==
    LET refunds == RowsWith(rs, Key("refund", r))
    IN  /\ \A i, j \in refunds : i = j
        /\ \A i \in refunds :
               /\ m.status = "cancelled"
               /\ \E j \in RowsWith(rs, Key("match_fee", r)) :
                      j < i /\ rs[i].amount = -rs[j].amount

Billed(rs, r, m) == FeeTaken(rs, r, m) /\ RefundGiven(rs, r, m)

AllBilled == \A r \in Requests, p \in Providers : Billed(ledger[p], r, match[r][p])

\* The refund a cancel decided on is of a fee that was charged.
RefundDue(c, ms) ==
    c.op = "cancel" /\ c.refund # None
        => /\ c.from = "matched" /\ c.role = "customer"
           /\ ms[c.req][c.refund].status # "none"
           /\ Charged(ms[c.req][c.refund])

RefundsDue == \A s \in Sessions : RefundDue(call[s], match)

LEMMA BilledImplies ==
    AllBilled => FeeExactlyOnce /\ RefundsGiveBackFees
BY DEF AllBilled, Billed, FeeTaken, RefundGiven, RowsWith, FeeExactlyOnce,
       RefundsGiveBackFees, FeeRows, RefundRows

\* What a match may become without its bill changing.
SameBill(m, n) ==
    /\ n.fee = m.fee /\ n.waived = m.waived
    /\ n.status = "none" <=> m.status = "none"
    /\ m.status = "cancelled" => n.status = "cancelled"

LEMMA SameBillBilled ==
    ASSUME NEW rs, NEW r, NEW m, NEW n, Billed(rs, r, m), SameBill(m, n)
    PROVE  Billed(rs, r, n)
BY DEF Billed, FeeTaken, RefundGiven, SameBill, Charged

\* A row of another kind, or about another request, leaves a bill alone.
LEMMA OtherRowBilled ==
    ASSUME NEW rs \in Rows, NEW e \in RowSet(Requests \cup {None}),
           NEW r, NEW m, Billed(rs, r, m),
           e.key # Key("match_fee", r), e.key # Key("refund", r)
    PROVE  Billed(Append(rs, e), r, m)
<1> DEFINE new == Append(rs, e)
           fees == RowsWith(rs, Key("match_fee", r))
           refunds == RowsWith(rs, Key("refund", r))
<1>1. /\ RowsWith(new, Key("match_fee", r)) = fees
      /\ RowsWith(new, Key("refund", r)) = refunds
      /\ \A i \in DOMAIN rs : new[i] = rs[i]
  <2>1. RowsWith(new, Key("match_fee", r)) = fees
    BY OtherKeyRows DEF Rows
  <2>2. RowsWith(new, Key("refund", r)) = refunds
    BY OtherKeyRows DEF Rows
  <2>3. \A i \in DOMAIN rs : new[i] = rs[i]
    BY AppendedRow DEF Rows
  <2>4. QED
    BY <2>1, <2>2, <2>3
<1>2. fees \subseteq DOMAIN rs /\ refunds \subseteq DOMAIN rs
  BY DEF RowsWith
<1> HIDE DEF new
<1>3. FeeTaken(new, r, m)
  BY <1>1, <1>2 DEF Billed, FeeTaken
<1>4. RefundGiven(new, r, m)
  BY <1>1, <1>2 DEF Billed, RefundGiven
<1>5. QED
  BY <1>3, <1>4 DEF Billed, new

\* The first fee row of a new, charging match.
LEMMA FeeRowBilled ==
    ASSUME NEW rs \in Rows, NEW e \in RowSet(Requests \cup {None}),
           NEW r, NEW m, NEW n, Billed(rs, r, m), m.status = "none",
           e.key = Key("match_fee", r), e.amount = -n.fee,
           n.status # "none", Charged(n)
    PROVE  Billed(Append(rs, e), r, n)
<1> DEFINE new == Append(rs, e)
           fees == RowsWith(rs, Key("match_fee", r))
           refunds == RowsWith(rs, Key("refund", r))
<1>1. Key("match_fee", r) # Key("refund", r)
  BY DEF Key
<1>2. fees = {} /\ refunds = {}
  BY DEF Billed, FeeTaken, RefundGiven
<1>3. /\ RowsWith(new, Key("match_fee", r)) = {Len(rs) + 1}
      /\ RowsWith(new, Key("refund", r)) = {}
      /\ new[Len(rs) + 1] = e
  <2>1. RowsWith(new, Key("match_fee", r)) = fees \cup {Len(rs) + 1}
    BY SameKeyRows DEF Rows
  <2>2. RowsWith(new, Key("refund", r)) = refunds
    BY <1>1, OtherKeyRows DEF Rows
  <2>3. new[Len(rs) + 1] = e
    BY AppendedRow DEF Rows
  <2>4. QED
    BY <1>2, <2>1, <2>2, <2>3
<1> HIDE DEF new
<1>4. FeeTaken(new, r, n) /\ RefundGiven(new, r, n)
  BY <1>3 DEF FeeTaken, RefundGiven
<1>5. QED
  BY <1>4 DEF Billed, new

\* A refund row after the fee it gives back.
LEMMA RefundRowBilled ==
    ASSUME NEW rs \in Rows, NEW e \in RowSet(Requests \cup {None}),
           NEW r, NEW m, Billed(rs, r, m), m.status = "cancelled", Charged(m),
           m.fee \in Nat, ~Applied(rs, Key("refund", r)),
           e.key = Key("refund", r), e.amount = m.fee
    PROVE  Billed(Append(rs, e), r, m)
<1> DEFINE new == Append(rs, e)
           fees == RowsWith(rs, Key("match_fee", r))
           last == Len(rs) + 1
<1>1. Key("match_fee", r) # Key("refund", r)
  BY DEF Key
<1>2. RowsWith(rs, Key("refund", r)) = {}
  BY DEF Applied, RowsWith
<1>3. /\ RowsWith(new, Key("match_fee", r)) = fees
      /\ RowsWith(new, Key("refund", r)) = {last}
      /\ new[last] = e
      /\ \A i \in DOMAIN rs : new[i] = rs[i]
      /\ \A i \in DOMAIN rs : i < last
  <2>1. RowsWith(new, Key("match_fee", r)) = fees
    BY <1>1, OtherKeyRows DEF Rows
  <2>2. RowsWith(new, Key("refund", r)) = RowsWith(rs, Key("refund", r)) \cup {last}
    BY SameKeyRows DEF Rows
  <2>3. /\ new[last] = e
        /\ \A i \in DOMAIN rs : new[i] = rs[i]
        /\ \A i \in DOMAIN rs : i < last
    BY AppendedRow DEF Rows
  <2>4. QED
    BY <1>2, <2>1, <2>2, <2>3
<1>4. fees \subseteq DOMAIN rs
  BY DEF RowsWith
<1> HIDE DEF new, last
<1>5. FeeTaken(new, r, m)
  BY <1>3, <1>4 DEF Billed, FeeTaken
<1>6. RefundGiven(new, r, m)
  <2>1. PICK j \in fees : TRUE
    BY DEF Billed, FeeTaken
  <2>2. rs[j].amount = -m.fee /\ j \in DOMAIN rs
    BY <1>4, <2>1 DEF Billed, FeeTaken
  <2>3. new[j].amount = -m.fee /\ j < last
    BY <1>3, <2>2
  <2>4. new[last].amount = -new[j].amount
    BY <1>3, <2>3
  <2>5. QED
    BY <1>3, <2>1, <2>3, <2>4 DEF RefundGiven
<1>7. QED
  BY <1>5, <1>6 DEF Billed, new

-----------------------------------------------------------------------------
(* Bills, step by step.                                                    *)

LEMMA SameWalletBilled ==
    ASSUME AllBilled, UNCHANGED wallet,
           \A r \in Requests, p \in Providers : SameBill(match[r][p], match'[r][p])
    PROVE  AllBilled'
<1>1. \A r \in Requests, p \in Providers : Billed(ledger[p], r, match'[r][p])
  BY SameBillBilled DEF AllBilled
<1>2. ledger' = ledger
  BY DEF wallet
<1>3. QED
  BY <1>1, <1>2 DEF AllBilled

LEMMA SameMatchBilled == AllBilled /\ UNCHANGED <<wallet, match>> => AllBilled'
BY DEF AllBilled, wallet

\* A row that is neither a fee nor a refund.
LEMMA OtherEntryBilled ==
    ASSUME TypeOK, AllBilled, UNCHANGED match, NEW p \in Providers,
           NEW e \in RowSet(Requests \cup {None}),
           e.key.type \notin {"match_fee", "refund"},
           \/ ledger' = [ledger EXCEPT ![p] = Append(ledger[p], e)]
           \/ ledger' = ledger
    PROVE  AllBilled'
<1>1. CASE ledger' = ledger
  BY <1>1 DEF AllBilled
<1>2. CASE ledger' = [ledger EXCEPT ![p] = Append(ledger[p], e)]
  <2>1. /\ ledger'[p] = Append(ledger[p], e) /\ ledger[p] \in Rows
        /\ \A q \in Providers \ {p} : ledger'[q] = ledger[q]
    BY <1>2 DEF TypeOK, Rows
  <2>2. ASSUME NEW r \in Requests
        PROVE  Billed(Append(ledger[p], e), r, match[r][p])
    <3>1. e.key # Key("match_fee", r) /\ e.key # Key("refund", r)
      BY DEF Key
    <3>2. Billed(ledger[p], r, match[r][p])
      BY DEF AllBilled
    <3>3. QED
      BY <2>1, <3>1, <3>2, OtherRowBilled
  <2>3. QED
    BY <2>1, <2>2 DEF AllBilled
<1>3. QED
  BY <1>1, <1>2

LEMMA ProfileBilled ==
    ASSUME TypeOK, AllBilled, ProfileStep
    PROVE  AllBilled'
<1>1. UNCHANGED match
  BY DEF ProfileStep, CreateProvider, UpdateProvider, AdminSetStatus,
         AdminAdjust, rows
<1>2. ASSUME NEW p \in Providers, NEW covers, NEW available,
             CreateProvider(p, covers, available)
      PROVE  AllBilled'
  <2>1. CASE policy.credit /\ policy.welcome > 0
    <3> DEFINE e == [key |-> Key("welcome_credit", None),
                     amount |-> policy.welcome,
                     after |-> balance[p] + policy.welcome]
    <3>1. policy.welcome \in Nat /\ balance[p] \in Nat
      BY PoliciesAreBilling DEF TypeOK
    <3>2. policy.welcome \in Int /\ balance[p] + policy.welcome \in Nat
      BY <3>1
    <3>3. e \in RowSet(Requests \cup {None}) /\ e.key.type = "welcome_credit"
      BY <3>2 DEF RowSet, Key, TxTypes
    <3>4. Post(p, Entry("welcome_credit", None, policy.welcome))
      BY <1>2, <2>1 DEF CreateProvider
    <3>5. \/ ledger' = [ledger EXCEPT ![p] = Append(ledger[p], e)]
          \/ ledger' = [ledger EXCEPT ![p] = ledger[p]]
      BY <3>4 DEF Post, Posted, Entry
    <3>6. [ledger EXCEPT ![p] = ledger[p]] = ledger
      BY DEF TypeOK
    <3> HIDE DEF e
    <3>7. QED
      BY <1>1, <3>3, <3>5, <3>6, OtherEntryBilled
  <2>2. CASE ~(policy.credit /\ policy.welcome > 0)
    BY <1>1, <1>2, <2>2, SameMatchBilled DEF CreateProvider
  <2>3. QED
    BY <2>1, <2>2
<1>3. ASSUME NEW p \in Providers, NEW amount \in Adjustments,
             AdminAdjust(p, amount)
      PROVE  AllBilled'
  <2> DEFINE e == [key |-> Key("admin_adjustment", None), amount |-> amount,
                   after |-> balance[p] + amount]
  <2>1. amount \in Int /\ balance[p] \in Nat
    BY AdjustmentsAreInt DEF TypeOK
  <2>2. balance[p] + amount \in Nat
    BY <1>3, <2>1 DEF AdminAdjust
  <2>3. e \in RowSet(Requests \cup {None}) /\ e.key.type = "admin_adjustment"
    BY <2>1, <2>2 DEF RowSet, Key, TxTypes
  <2>4. ledger' = [ledger EXCEPT ![p] = Append(ledger[p], e)]
    BY <1>3 DEF AdminAdjust
  <2> HIDE DEF e
  <2>5. QED
    BY <1>1, <2>3, <2>4, OtherEntryBilled
<1>4. ASSUME NEW p \in Providers, NEW covers, NEW available,
             UpdateProvider(p, covers, available) \/ AdminSetStatus(p)
      PROVE  AllBilled'
  BY <1>1, <1>4, SameMatchBilled DEF UpdateProvider, AdminSetStatus
<1>5. QED
  BY <1>2, <1>3, <1>4 DEF ProfileStep

LEMMA AcceptBilled ==
    ASSUME TypeOK, AllBilled, NEW s \in Sessions, CommitAccept(s)
    PROVE  AllBilled'
<1> DEFINE c == call[s]
           r == c.req
           p == c.prov
           n == [status |-> "active", fee |-> c.fee, waived |-> ~c.charge,
                 by |-> "nobody", travelled |-> FALSE, at |-> c.now]
           e == [key |-> Key("match_fee", r), amount |-> -c.fee,
                 after |-> balance[p] + (-c.fee)]
<1>1. CASE Accepts(s)
  <2>1. /\ r \in Requests /\ p \in Providers /\ c.fee \in Nat
        /\ c.charge \in BOOLEAN
        /\ FeeDue(c) => /\ Post(p, Entry("match_fee", r, -c.fee))
                        /\ -c.fee \in Int /\ balance[p] + (-c.fee) >= 0
        /\ ~FeeDue(c) => UNCHANGED wallet
    BY <1>1, AcceptPosts
  <2>2. /\ match[r][p].status = "none"
        /\ match' = [match EXCEPT ![r][p] = n]
    BY <1>1 DEF Accepts
  <2>3. /\ match'[r][p] = n
        /\ \A q \in Requests, o \in Providers :
               <<q, o>> # <<r, p>> => match'[q][o] = match[q][o]
    BY <2>1, <2>2 DEF TypeOK
  <2>4. /\ n.status = "active" /\ n.fee = c.fee
        /\ Charged(n) <=> FeeDue(c)
    BY <2>1 DEF Charged, FeeDue
  <2>5. /\ Billed(ledger[p], r, match[r][p])
        /\ RowsWith(ledger[p], Key("match_fee", r)) = {}
    BY <2>1, <2>2 DEF AllBilled, Billed, FeeTaken
  <2>6. CASE FeeDue(c)
    <3>1. /\ e \in RowSet(Requests \cup {None})
          /\ e.key = Key("match_fee", r) /\ e.amount = -c.fee
      <4>1. balance[p] + (-c.fee) \in Nat
        BY <2>1, <2>6 DEF TypeOK
      <4>2. QED
        BY <2>1, <2>6, <4>1 DEF RowSet, Key, TxTypes
    <3>2. ledger' = [ledger EXCEPT ![p] = Append(ledger[p], e)]
      <4>1. ~Applied(ledger[p], Key("match_fee", r))
        BY <2>5 DEF Applied, RowsWith
      <4>2. QED
        BY <2>1, <2>6, <4>1 DEF Post, Posted, Entry
    <3> HIDE DEF e, n
    <3>3. /\ ledger'[p] = Append(ledger[p], e) /\ ledger[p] \in Rows
          /\ \A q \in Providers \ {p} : ledger'[q] = ledger[q]
      BY <2>1, <3>2 DEF TypeOK, Rows
    <3>4. Billed(ledger'[p], r, match'[r][p])
      <4>1. e.amount = -n.fee /\ n.status # "none" /\ Charged(n)
        BY <2>4, <2>6, <3>1
      <4>2. Billed(ledger[p], r, match[r][p]) /\ match[r][p].status = "none"
        BY <2>2, <2>5
      <4>3. Billed(Append(ledger[p], e), r, n)
        BY <3>1, <3>3, <4>1, <4>2, FeeRowBilled
      <4>4. QED
        BY <2>3, <3>3, <4>3
    <3>5. ASSUME NEW q \in Requests \ {r}
          PROVE  Billed(ledger'[p], q, match'[q][p])
      <4>1. e.key # Key("match_fee", q) /\ e.key # Key("refund", q)
        BY <3>1, <3>5 DEF Key
      <4>2. Billed(ledger[p], q, match[q][p]) /\ match'[q][p] = match[q][p]
        BY <2>1, <2>3 DEF AllBilled
      <4>3. QED
        BY <3>1, <3>3, <4>1, <4>2, OtherRowBilled
    <3>6. \A q \in Requests, o \in Providers \ {p} :
              ledger'[o] = ledger[o] /\ match'[q][o] = match[q][o]
      BY <2>3, <3>3
    <3>7. QED
      BY <3>4, <3>5, <3>6 DEF AllBilled
  <2>7. CASE ~FeeDue(c)
    <3>1. ledger' = ledger
      BY <2>1, <2>7 DEF wallet
    <3> HIDE DEF n
    <3>2. Billed(ledger[p], r, n)
      BY <2>2, <2>4, <2>5, <2>7 DEF Billed, FeeTaken, RefundGiven
    <3>3. QED
      BY <2>3, <3>1, <3>2 DEF AllBilled
  <2>8. QED
    BY <2>6, <2>7
<1>2. QED
  BY <1>1, AcceptCases, SameMatchBilled DEF Refuse, Rollback, rows

\* What an update and a cancel do to the matches changes no bill.
LEMMA UpdateBills ==
    ASSUME TypeOK, NEW s \in Sessions, CommitUpdate(s)
    PROVE  \A r \in Requests, p \in Providers : SameBill(match[r][p], match'[r][p])
<1> DEFINE c == call[s]
<1>1. c.req \in Requests
  BY CallFields DEF CommitUpdate, TypeOK
<1>2. \A r \in Requests, p \in Providers : match[r][p] \in MatchRows
  BY DEF TypeOK
<1>3. \A m \in MatchRows : SameBill(m, m) /\ SameBill(m, MovedOn(m, c.to))
  BY MovedOnStatus DEF SameBill
<1>4. CASE match' = [match EXCEPT ![c.req] =
                        [p \in Providers |-> MovedOn(match[c.req][p], c.to)]]
  <2>1. \A r \in Requests, p \in Providers :
            match'[r][p] = IF r = c.req THEN MovedOn(match[r][p], c.to)
                                        ELSE match[r][p]
    BY <1>1, <1>4 DEF TypeOK
  <2>2. QED
    BY <1>2, <1>3, <2>1
<1>5. CASE UNCHANGED match
  BY <1>2, <1>3, <1>5
<1>6. QED
  BY <1>4, <1>5 DEF CommitUpdate, Rollback, rows

LEMMA CancelBills ==
    ASSUME TypeOK, NEW s \in Sessions, CommitCancel(s)
    PROVE  \A r \in Requests, p \in Providers : SameBill(match[r][p], match'[r][p])
<1> DEFINE c == call[s]
<1>1. c.req \in Requests
  BY CancelCases, CallFields
<1>2. \A r \in Requests, p \in Providers : match[r][p] \in MatchRows
  BY DEF TypeOK
<1>3. \A m \in MatchRows : SameBill(m, m) /\ SameBill(m, CancelledBy(m, c.role))
  BY CancelledByStatus DEF SameBill
<1>4. CASE Cancels(s)
  <2>1. \A r \in Requests, p \in Providers :
            match'[r][p] = IF r = c.req THEN CancelledBy(match[r][p], c.role)
                                        ELSE match[r][p]
    BY <1>1, <1>4 DEF TypeOK, Cancels, CancelMatches
  <2>2. QED
    BY <1>2, <1>3, <2>1
<1>5. CASE UNCHANGED match
  BY <1>2, <1>3, <1>5
<1>6. QED
  BY <1>4, <1>5, CancelCases DEF Refuse, Rollback, rows, BacksOut, CallsOff

LEMMA CancelBilled ==
    ASSUME Coherent, AllBilled, RefundsDue, NEW s \in Sessions, CommitCancel(s)
    PROVE  AllBilled'
<1> DEFINE c == call[s]
           r == c.req
           p == c.refund
           fee == match[r][p].fee
           e == [key |-> Key("refund", r), amount |-> fee,
                 after |-> balance[p] + fee]
<1>1. TypeOK
  BY DEF Coherent
<1>2. \A q \in Requests, o \in Providers : SameBill(match[q][o], match'[q][o])
  BY <1>1, CancelBills
<1>3. CASE Cancels(s)
  <2>1. /\ r \in Requests /\ p \in Providers \cup {None}
        /\ p = None => UNCHANGED wallet
        /\ p # None => /\ fee \in Nat
                       /\ balance[p] + fee >= 0
                       /\ Post(p, Entry("refund", r, fee))
    BY <1>1, <1>3, CancelPosts
  <2>2. CASE p = None
    BY <1>2, <2>1, <2>2, SameWalletBilled
  <2>3. CASE p # None
    <3>1. p \in Providers /\ fee \in Nat /\ balance[p] \in Nat
      BY <1>1, <2>1, <2>3 DEF TypeOK
    <3>2. c.from = "matched" /\ match[r][p].status # "none" /\ Charged(match[r][p])
      BY <2>3, CancelCases, <1>1 DEF RefundsDue, RefundDue
    <3>3. CASE Applied(ledger[p], Key("refund", r))
      <4>1. ledger' = [ledger EXCEPT ![p] = ledger[p]]
        BY <2>1, <2>3, <3>3 DEF Post, Posted, Entry
      <4>2. ledger' = ledger
        BY <1>1, <4>1 DEF TypeOK
      <4>3. \A q \in Requests, o \in Providers : Billed(ledger[o], q, match'[q][o])
        BY <1>2, SameBillBilled DEF AllBilled
      <4>4. QED
        BY <4>2, <4>3 DEF AllBilled
    <3>4. CASE ~Applied(ledger[p], Key("refund", r))
      <4>1. /\ e \in RowSet(Requests \cup {None})
            /\ e.key = Key("refund", r) /\ e.amount = fee
        <5>1. balance[p] + fee \in Nat
          BY <3>1
        <5>2. QED
          BY SMTT(40), <2>1, <3>1, <5>1 DEF RowSet, Key, TxTypes
      <4>2. ledger' = [ledger EXCEPT ![p] = Append(ledger[p], e)]
        BY <2>1, <2>3, <3>4 DEF Post, Posted, Entry
      <4> HIDE DEF e
      <4>3. /\ ledger'[p] = Append(ledger[p], e) /\ ledger[p] \in Rows
            /\ \A o \in Providers \ {p} : ledger'[o] = ledger[o]
        BY <1>1, <3>1, <4>2 DEF TypeOK, Rows
      <4>4. Billed(ledger[p], r, match'[r][p])
        <5>1. Billed(ledger[p], r, match[r][p]) /\ SameBill(match[r][p], match'[r][p])
          BY <1>2, <2>1, <3>1 DEF AllBilled
        <5>2. QED
          BY <5>1, SameBillBilled
      <4>5. /\ match'[r][p].status = "cancelled"
            /\ Charged(match'[r][p])
            /\ match'[r][p].fee = fee
        <5>1. SameBill(match[r][p], match'[r][p])
          BY <1>2, <2>1, <3>1
        <5>2. match'[r][p] = CancelledBy(match[r][p], c.role)
          BY <1>1, <1>3, <2>1, <3>1 DEF Cancels, CancelMatches, TypeOK
        <5>3. match[r][p] \in MatchRows
          BY <1>1, <2>1, <3>1 DEF TypeOK
        <5>4. match[r][p].status # "completed"
          <6>1. c.now \in Nat
            BY <1>1, CancelCases, CallFields
          <6>2. Agrees(Locked(r, c.now), LockedOffers(r, c.now), match[r])
            BY <2>1, <6>1, LockedAgrees DEF Coherent
          <6>3. Locked(r, c.now).status = "matched"
            BY <1>3, <3>2 DEF Cancels, StillAt
          <6>4. QED
            BY <3>1, <6>2, <6>3 DEF Agrees
        <5>5. match'[r][p].status = "cancelled"
          BY SMTT(40), <3>2, <5>2, <5>3, <5>4, CancelledByStatus DEF MatchRows
        <5>6. QED
          BY <3>2, <5>1, <5>5 DEF SameBill, Charged
      <4>6. Billed(ledger'[p], r, match'[r][p])
        <5>1. Billed(Append(ledger[p], e), r, match'[r][p])
          BY <3>1, <3>4, <4>1, <4>3, <4>4, <4>5, RefundRowBilled
        <5>2. QED
          BY <4>3, <5>1
      <4>7. ASSUME NEW q \in Requests \ {r}
            PROVE  Billed(ledger'[p], q, match'[q][p])
        <5>1. e.key # Key("match_fee", q) /\ e.key # Key("refund", q)
          BY <4>1, <4>7 DEF Key
        <5>2. Billed(ledger[p], q, match[q][p]) /\ SameBill(match[q][p], match'[q][p])
          BY <1>2, <3>1 DEF AllBilled
        <5>3. Billed(ledger[p], q, match'[q][p])
          BY <5>2, SameBillBilled
        <5>4. Billed(Append(ledger[p], e), q, match'[q][p])
          BY <4>1, <4>3, <5>1, <5>3, OtherRowBilled
        <5>5. QED
          BY <4>3, <5>4
      <4>8. ASSUME NEW q \in Requests, NEW o \in Providers \ {p}
            PROVE  Billed(ledger'[o], q, match'[q][o])
        <5>1. Billed(ledger[o], q, match[q][o]) /\ SameBill(match[q][o], match'[q][o])
          BY <1>2 DEF AllBilled
        <5>2. QED
          BY <4>3, <5>1, SameBillBilled
      <4>9. QED
        BY <4>6, <4>7, <4>8 DEF AllBilled
    <3>5. QED
      BY <3>3, <3>4
  <2>4. QED
    BY <2>2, <2>3
<1>4. QED
  BY <1>1, <1>3, CancelCases, SameMatchBilled
     DEF Refuse, Rollback, rows, BacksOut, CallsOff

LEMMA CommitBilled ==
    ASSUME Coherent, AllBilled, RefundsDue, NEW s \in Sessions, Commit(s)
    PROVE  AllBilled'
<1>1. TypeOK
  BY DEF Coherent
<1>2. ASSUME \/ CommitCreate(s)
             \/ CommitOffer(s)
             \/ CommitSelect(s)
             \/ CommitReject(s)
      PROVE  AllBilled'
  BY <1>2, SameMatchBilled
     DEF CommitCreate, CommitOffer, CommitSelect, CommitReject, Refuse,
         Rollback, rows
<1>3. CASE CommitUpdate(s)
  <2>1. UNCHANGED wallet
    BY <1>3 DEF CommitUpdate, Rollback
  <2>2. QED
    BY <1>1, <1>3, <2>1, UpdateBills, SameWalletBilled
<1>4. CASE CommitAccept(s)
  BY <1>1, <1>4, AcceptBilled
<1>5. CASE CommitCancel(s)
  BY <1>5, CancelBilled
<1>6. QED
  BY <1>2, <1>3, <1>4, <1>5 DEF Commit

\* A match, once there, stays, and so does whether it charged.
Lasts(m, n) ==
    m.status # "none" => n.status # "none" /\ (Charged(n) <=> Charged(m))

LEMMA MatchesLast ==
    ASSUME TypeOK, [Next]_vars
    PROVE  \A r \in Requests, p \in Providers : Lasts(match[r][p], match'[r][p])
<1>1. CASE UNCHANGED match
  BY <1>1 DEF Lasts
<1>2. ASSUME NEW s \in Sessions, CommitUpdate(s) \/ CommitCancel(s)
      PROVE  \A r \in Requests, p \in Providers : Lasts(match[r][p], match'[r][p])
  BY <1>2, UpdateBills, CancelBills DEF Lasts, SameBill, Charged
<1>3. ASSUME NEW s \in Sessions, CommitAccept(s), ~UNCHANGED match
      PROVE  \A r \in Requests, p \in Providers : Lasts(match[r][p], match'[r][p])
  <2>1. Accepts(s)
    BY <1>3, AcceptCases DEF Refuse, Rollback, rows
  <2>2. call[s].req \in Requests /\ call[s].prov \in Providers
    BY <1>3, <2>1, AcceptPosts
  <2>3. /\ match[call[s].req][call[s].prov].status = "none"
        /\ \A r \in Requests, p \in Providers :
               <<r, p>> # <<call[s].req, call[s].prov>> => match'[r][p] = match[r][p]
    BY <2>1, <2>2 DEF Accepts, TypeOK
  <2>4. QED
    BY <2>3 DEF Lasts
<1>4. ASSUME NEW s \in Sessions,
             \/ CommitCreate(s)
             \/ CommitOffer(s)
             \/ CommitSelect(s)
             \/ CommitReject(s)
      PROVE  UNCHANGED match
  BY <1>4 DEF CommitCreate, CommitOffer, CommitSelect, CommitReject, Refuse,
              Rollback, rows
<1>5. QED
  BY <1>1, <1>2, <1>3, <1>4, OtherStepsKeepRows DEF Commit, rows

LEMMA RefundDueLasts ==
    ASSUME NEW c \in Calls, RefundDue(c, match),
           \A r \in Requests, p \in Providers : Lasts(match[r][p], match'[r][p])
    PROVE  RefundDue(c, match')
<1>1. CASE c.op = "cancel" /\ c.refund # None
  <2>1. c.req \in Requests /\ c.refund \in Providers
    BY <1>1, CallFields
  <2>2. QED
    BY <1>1, <2>1 DEF RefundDue, Lasts
<1>2. CASE ~(c.op = "cancel" /\ c.refund # None)
  BY <1>2 DEF RefundDue
<1>3. QED
  BY <1>1, <1>2

\* The refund that a cancel decides on is of a charged match.
LEMMA DecideCancelDue ==
    ASSUME TypeOK, NEW s \in Sessions, DecideCancel(s)
    PROVE  RefundDue(call'[s], match)
<1> DEFINE c == call[s]
           from == Effective(c.seen, clock)
           role == RoleOf(c.user, c.req)
           p == MatchedProvider(c.req)
           refunds == p # None /\ RefundEligible(match[c.req][p], from, role, clock)
<1>1. CASE CanCancel(from, role)
  <2>1. call'[s] = [op |-> "cancel", req |-> c.req, user |-> c.user,
                    from |-> from, role |-> role, now |-> clock,
                    until |-> IF c.seen.expires < clock + RequestTTL
                              THEN clock + RequestTTL ELSE c.seen.expires,
                    refund |-> IF refunds THEN p ELSE None]
    BY <1>1 DEF DecideCancel, TypeOK
  <2>2. /\ call'[s].from = from /\ call'[s].role = role /\ call'[s].req = c.req
        /\ call'[s].refund = IF refunds THEN p ELSE None
    BY <2>1
  <2>3. ASSUME call'[s].refund # None
        PROVE  /\ from = "matched" /\ role = "customer"
               /\ match[c.req][p].status # "none"
               /\ Charged(match[c.req][p])
    BY <2>2, <2>3 DEF RefundEligible
  <2>4. QED
    BY <2>2, <2>3 DEF RefundDue
<1>2. CASE ~CanCancel(from, role)
  <2>1. call'[s] = Idle
    BY <1>2 DEF DecideCancel, Return, TypeOK
  <2>2. QED
    BY <2>1 DEF RefundDue, Idle
<1>3. QED
  BY <1>1, <1>2

\* Only DecideCancel makes a call a cancel that waits for its transaction.
LEMMA CallSteps ==
    ASSUME TypeOK, [Next]_vars, NEW t \in Sessions
    PROVE  \/ call'[t] = call[t]
           \/ call'[t].op # "cancel"
           \/ DecideCancel(t)
<1>1. ASSUME NEW s \in Sessions, Return(s)
      PROVE  call'[t] = call[t] \/ call'[t].op # "cancel"
  BY <1>1 DEF Return, Idle, TypeOK
<1>2. ASSUME NEW s \in Sessions, NEW c, c.op # "cancel", call' = [call EXCEPT ![s] = c]
      PROVE  call'[t] = call[t] \/ call'[t].op # "cancel"
  BY <1>2 DEF TypeOK
<1>3. ASSUME NEW s \in Sessions, Begin(s)
      PROVE  call'[t] = call[t] \/ call'[t].op # "cancel"
  <2>1. \A c : c.op # "cancel" /\ Enter(s, c)
                   => call'[t] = call[t] \/ call'[t].op # "cancel"
    BY <1>2 DEF Enter
  <2>2. ASSUME NEW r \in Requests, BeginCreate(s, r)
        PROVE  call'[t] = call[t] \/ call'[t].op # "cancel"
    BY <2>1, <2>2 DEF BeginCreate
  <2>3. ASSUME NEW r \in Requests, NEW p \in Providers,
               \/ BeginOffer(s, p, r)
               \/ BeginSelect(s, p, r)
               \/ BeginReject(s, p, r)
        PROVE  call'[t] = call[t] \/ call'[t].op # "cancel"
    BY <2>1, <2>3 DEF BeginOffer, BeginSelect, BeginReject
  <2>4. ASSUME NEW r \in Requests, NEW p \in Providers, BeginAccept(s, p, r)
        PROVE  call'[t] = call[t] \/ call'[t].op # "cancel"
    BY <2>1, <2>4 DEF BeginAccept
  <2>5. ASSUME NEW r \in Requests, NEW u \in Users, NEW want, Load(s, u, r, want)
        PROVE  call'[t] = call[t] \/ call'[t].op # "cancel"
    BY <2>1, <2>5 DEF Load
  <2>6. QED
    BY <1>3, <2>2, <2>3, <2>4, <2>5 DEF Begin
<1>4. ASSUME NEW s \in Sessions, DecideUpdate(s)
      PROVE  call'[t] = call[t] \/ call'[t].op # "cancel"
  BY <1>1, <1>4 DEF DecideUpdate, TypeOK
<1>5. ASSUME NEW s \in Sessions, DecideCancel(s), s # t
      PROVE  call'[t] = call[t]
  BY <1>5 DEF DecideCancel, Return, TypeOK
<1>6. ASSUME NEW s \in Sessions, Commit(s) \/ Abort(s)
      PROVE  call'[t] = call[t] \/ call'[t].op # "cancel"
  BY <1>1, <1>6, CommitReturns DEF Abort
<1>7. CASE ProfileStep \/ Redeploy \/ Tick \/ UNCHANGED vars
  BY <1>7 DEF ProfileStep, CreateProvider, UpdateProvider, AdminSetStatus,
              AdminAdjust, Redeploy, Tick, vars
<1>8. QED
  BY <1>3, <1>4, <1>5, <1>6, <1>7 DEF Next, Decide

LEMMA NextDue ==
    ASSUME TypeOK, RefundsDue, [Next]_vars
    PROVE  RefundsDue'
<1> SUFFICES ASSUME NEW t \in Sessions PROVE RefundDue(call'[t], match')
  BY DEF RefundsDue
<1>1. \A r \in Requests, p \in Providers : Lasts(match[r][p], match'[r][p])
  BY MatchesLast
<1>2. CASE call'[t] = call[t]
  <2>1. call[t] \in Calls /\ RefundDue(call[t], match)
    BY DEF TypeOK, RefundsDue
  <2>2. QED
    BY <1>1, <1>2, <2>1, RefundDueLasts
<1>3. CASE call'[t].op # "cancel"
  BY <1>3 DEF RefundDue
<1>4. CASE DecideCancel(t)
  <2>1. call'[t] \in Calls
    BY NextTypes DEF TypeOK
  <2>2. QED
    BY <1>1, <1>4, <2>1, DecideCancelDue, MatchesLast DEF DecideCancel, Reading, rows
<1>5. QED
  BY <1>2, <1>3, <1>4, CallSteps

\* Fees and refunds rest on coherence (what a cancel may meet) and on what the
\* calls under way decided to give back.
Settled == Coherent /\ AllBilled /\ RefundsDue

LEMMA AlwaysSettled == Spec => []Settled
<1>1. Init => Settled
  <2> SUFFICES ASSUME Init PROVE Settled
    OBVIOUS
  <2>1. Coherent
    BY InitCoherent
  <2>2. \A r : Billed(<<>>, r, NoMatch)
    BY DEF Billed, FeeTaken, RefundGiven, RowsWith, NoMatch
  <2>3. AllBilled
    BY <2>2 DEF Init, AllBilled
  <2>4. RefundsDue
    BY DEF Init, RefundsDue, RefundDue, Idle
  <2>5. QED
    BY <2>1, <2>3, <2>4 DEF Settled
<1>2. Settled /\ [Next]_vars => Settled'
  <2> SUFFICES ASSUME Settled, [Next]_vars PROVE Settled'
    OBVIOUS
  <2>1. Coherent /\ TypeOK /\ AllBilled /\ RefundsDue
    BY DEF Settled, Coherent
  <2>2. Coherent'
    BY <2>1, NextCoherent
  <2>3. AllBilled'
    BY <2>1, OtherStepsKeepRows, OtherStepsKeepWallets, ProfileBilled,
       CommitBilled, SameMatchBilled DEF rows
  <2>4. RefundsDue'
    BY <2>1, NextDue
  <2>5. QED
    BY <2>2, <2>3, <2>4 DEF Settled
<1>3. QED
  BY <1>1, <1>2, PTL DEF Spec

\* The match fee is deducted exactly once for every match that charges, and
\* never for a waived one, an unconfirmed selection or a repeated accept
\* (AcceptOffer, "key per offer - can't apply twice").
THEOREM FeesExact == Spec => []FeeExactlyOnce
<1>1. Settled => FeeExactlyOnce
  BY BilledImplies DEF Settled
<1>2. QED
  BY <1>1, AlwaysSettled, PTL

\* A refund gives back once exactly a fee that was taken, and only for a match
\* that is cancelled by then, whatever the cancel that decided on it has met.
THEOREM RefundsExact == Spec => []RefundsGiveBackFees
<1>1. Settled => RefundsGiveBackFees
  BY BilledImplies DEF Settled
<1>2. QED
  BY <1>1, AlwaysSettled, PTL

-----------------------------------------------------------------------------
(***************************************************************************)
(* Part 5: the contract.                                                   *)
(***************************************************************************)

LEMMA PhaseIs ==
    /\ Phase("absent") = "absent"
    /\ Phase("open") = "open"
    /\ Phase("pending_confirmation") = "asked"
    /\ \A status \in JobStatus : Phase(status) = "engaged"
    /\ Phase("completed") = "done"
    /\ Phase("cancelled") = "over"
    /\ Phase("expired") = "over"
BY DEF Phase, JobStatus

\* Who a request is with, told by its rows alone.
IsWith(row, ms, w) ==
    /\ row.status = "pending_confirmation" => w = row.sel
    /\ row.status \in JobStatus \cup {"completed"}
           => w \in Providers /\ ms[w].status \in {"active", "completed"}
    /\ row.status \notin JobStatus \cup {"completed", "pending_confirmation"}
           => w = None

LEMMA OnePartyOnly ==
    ASSUME NEW row, NEW offs, NEW ms, NEW w, NEW v,
           Agrees(row, offs, ms), IsWith(row, ms, w), IsWith(row, ms, v)
    PROVE  w = v
BY DEF Agrees, IsWith

LEMMA PartiesKnown ==
    AllAgree => \A r \in Requests : IsWith(req[r], match[r], With(r))
<1> SUFFICES ASSUME AllAgree, NEW r \in Requests
             PROVE  IsWith(req[r], match[r], With(r))
  OBVIOUS
<1>1. Agrees(req[r], offer[r], match[r])
  BY DEF AllAgree
<1>2. CASE req[r].status \in JobStatus \cup {"completed"}
  <2>1. \E p \in Providers : match[r][p].status \in {"active", "completed"}
    BY <1>1, <1>2 DEF Agrees
  <2>2. MatchedBy(r, "active") # {} \/ MatchedBy(r, "completed") # {}
    BY <2>1 DEF MatchedBy
  <2>3. MatchedProvider(r) \in MatchedBy(r, "active") \cup MatchedBy(r, "completed")
    BY <2>2 DEF MatchedProvider
  <2>4. /\ MatchedProvider(r) \in Providers
        /\ match[r][MatchedProvider(r)].status \in {"active", "completed"}
    BY <2>3 DEF MatchedBy
  <2>5. With(r) = MatchedProvider(r)
    BY <1>2 DEF With
  <2>6. QED
    BY <1>2, <2>4, <2>5 DEF IsWith, JobStatus
<1>3. CASE req[r].status \notin JobStatus \cup {"completed"}
  BY <1>3 DEF With, IsWith
<1>4. QED
  BY <1>2, <1>3

LEMMA PartiesKnownNext ==
    (AllAgree => \A r \in Requests : IsWith(req[r], match[r], With(r)))'
BY PartiesKnown, PTL

SpentOf(offs) == {p \in Providers : offs[p] \in {"accepted", "rejected", "expired"}}

\* The steps of MatchContract as they show on one request.
Spending(sp, w) == sp \cup ({w} \ {None})

ContractStep(ph, w, sp, ph2, w2, sp2) ==
    \/ ph2 = ph /\ w2 = w /\ sp2 = sp
    \/ ph = "absent" /\ ph2 = "open" /\ w2 = None /\ sp2 = sp
    \/ /\ ph \in {"open", "asked"} /\ ph2 = "asked"
       /\ w2 \in Providers \ (sp \cup {w}) /\ sp2 = Spending(sp, w)
    \/ ph = "asked" /\ ph2 = "engaged" /\ w2 = w /\ sp2 = Spending(sp, w)
    \/ /\ ph \in {"asked", "engaged"} /\ ph2 = "open"
       /\ w2 = None /\ sp2 = Spending(sp, w)
    \/ ph = "engaged" /\ ph2 = "done" /\ w2 = w /\ sp2 = sp
    \/ /\ ph \in {"open", "asked", "engaged"} /\ ph2 = "over"
       /\ w2 = None /\ sp2 = Spending(sp, w)

LEMMA OneRequestKeeps ==
    ASSUME NEW r \in Requests,
           \A q \in Requests \ {r} :
               /\ phases'[q] = phases[q]
               /\ parties'[q] = parties[q]
               /\ spents'[q] = spents[q],
           ContractStep(phases[r], parties[r], spents[r],
                        phases'[r], parties'[r], spents'[r])
    PROVE  [Contract!Next]_(Contract!vars)
<1>1. /\ phases' = [phases EXCEPT ![r] = phases'[r]]
      /\ parties' = [parties EXCEPT ![r] = parties'[r]]
      /\ spents' = [spents EXCEPT ![r] = spents'[r]]
  BY DEF phases, parties, spents
<1>2. /\ phases'[r] = phases[r] => phases' = phases
      /\ parties'[r] = parties[r] => parties' = parties
      /\ spents'[r] = spents[r] => spents' = spents
  BY DEF phases, parties, spents
<1>3. CASE /\ phases'[r] = phases[r]
           /\ parties'[r] = parties[r]
           /\ spents'[r] = spents[r]
  BY <1>2, <1>3 DEF Contract!vars
<1>4. CASE phases[r] = "absent" /\ phases'[r] = "open" /\ parties'[r] = None
           /\ spents'[r] = spents[r]
  <2>1. Contract!Publish(r)
    BY <1>1, <1>2, <1>4 DEF Contract!Publish, Contract!Move
  <2>2. QED
    BY <2>1 DEF Contract!Next
<1>5. CASE /\ phases[r] \in {"open", "asked"} /\ phases'[r] = "asked"
           /\ parties'[r] \in Providers \ (spents[r] \cup {parties[r]})
           /\ spents'[r] = Spending(spents[r], parties[r])
  <2>1. Contract!Ask(r, parties'[r])
    BY <1>1, <1>5 DEF Contract!Ask, Contract!Move, Contract!Spend, Spending
  <2>2. QED
    BY <1>5, <2>1 DEF Contract!Next
<1>6. CASE /\ phases[r] = "asked" /\ phases'[r] = "engaged"
           /\ parties'[r] = parties[r]
           /\ spents'[r] = Spending(spents[r], parties[r])
  <2>1. Contract!Agree(r)
    BY <1>1, <1>6 DEF Contract!Agree, Contract!Move, Contract!Spend, Spending
  <2>2. QED
    BY <2>1 DEF Contract!Next
<1>7. CASE /\ phases[r] \in {"asked", "engaged"} /\ phases'[r] = "open"
           /\ parties'[r] = None
           /\ spents'[r] = Spending(spents[r], parties[r])
  <2>1. Contract!Release(r)
    BY <1>1, <1>7 DEF Contract!Release, Contract!Move, Contract!Spend, Spending
  <2>2. QED
    BY <2>1 DEF Contract!Next
<1>8. CASE phases[r] = "engaged" /\ phases'[r] = "done"
           /\ parties'[r] = parties[r] /\ spents'[r] = spents[r]
  <2>1. Contract!Finish(r)
    BY <1>1, <1>2, <1>8 DEF Contract!Finish, Contract!Move
  <2>2. QED
    BY <2>1 DEF Contract!Next
<1>9. CASE /\ phases[r] \in {"open", "asked", "engaged"} /\ phases'[r] = "over"
           /\ parties'[r] = None
           /\ spents'[r] = Spending(spents[r], parties[r])
  <2>1. Contract!Close(r)
    BY <1>1, <1>9 DEF Contract!Close, Contract!Move, Contract!Spend, Spending
  <2>2. QED
    BY <2>1 DEF Contract!Next
<1>10. QED
  BY <1>3, <1>4, <1>5, <1>6, <1>7, <1>8, <1>9 DEF ContractStep

-----------------------------------------------------------------------------
(* The transactions.                                                       *)

\* What a transaction writes to one request is a step of the contract when
\* the new rows agree.
LEMMA StoreKeeps ==
    ASSUME TypeOK, AllAgree, AllAgree', NEW r \in Requests,
           NEW row, NEW offs, NEW event, NEW ms,
           Store(r, row, offs, event),
           match' = [match EXCEPT ![r] = ms],
           \A w : Agrees(row, offs, ms) /\ IsWith(row, ms, w) =>
                   ContractStep(Phase(req[r].status), With(r), SpentOf(offer[r]),
                                Phase(row.status), w, SpentOf(offs))
    PROVE  [Contract!Next]_(Contract!vars)
<1>1. /\ req'[r] = row /\ offer'[r] = offs /\ match'[r] = ms
      /\ \A q \in Requests \ {r} :
             req'[q] = req[q] /\ offer'[q] = offer[q] /\ match'[q] = match[q]
  BY DEF Store, TypeOK
<1>2. \A q \in Requests : /\ IsWith(req[q], match[q], With(q))
                           /\ Agrees(req[q], offer[q], match[q])
  BY PartiesKnown DEF AllAgree
<1>3. \A q \in Requests : /\ IsWith(req'[q], match'[q], With(q)')
                           /\ Agrees(req'[q], offer'[q], match'[q])
  BY PartiesKnownNext DEF AllAgree
<1>4. \A q \in Requests : phases[q] = Phase(req[q].status)
                           /\ phases'[q] = Phase(req'[q].status)
  BY DEF phases
<1>5. \A q \in Requests : parties[q] = With(q) /\ parties'[q] = With(q)'
  BY DEF parties
<1>6. \A q \in Requests : spents[q] = SpentOf(offer[q])
                           /\ spents'[q] = SpentOf(offer'[q])
  BY DEF spents, Spent, SpentOf
<1>7. ASSUME NEW q \in Requests \ {r}
      PROVE  /\ phases'[q] = phases[q]
             /\ parties'[q] = parties[q]
             /\ spents'[q] = spents[q]
  <2>1. With(q)' = With(q)
    BY <1>1, <1>2, <1>3, OnePartyOnly
  <2>2. QED
    BY <1>1, <1>4, <1>5, <1>6, <2>1
<1>8. ContractStep(Phase(req[r].status), With(r), SpentOf(offer[r]),
                   Phase(row.status), With(r)', SpentOf(offs))
  BY <1>1, <1>3
<1>9. ContractStep(phases[r], parties[r], spents[r],
                   phases'[r], parties'[r], spents'[r])
  BY <1>1, <1>4, <1>5, <1>6, <1>8
<1>10. QED
  BY <1>7, <1>9, OneRequestKeeps

LEMMA RollbackKeeps ==
    ASSUME AllAgree, AllAgree', UNCHANGED rows
    PROVE  [Contract!Next]_(Contract!vars)
<1>1. UNCHANGED <<req, offer, match>>
  BY DEF rows
<1>2. \A q \in Requests : With(q)' = With(q)
  BY <1>1, PartiesKnown, PartiesKnownNext, OnePartyOnly DEF AllAgree
<1>3. UNCHANGED <<phases, parties, spents>>
  BY <1>1, <1>2 DEF phases, parties, spents, Spent
<1>4. QED
  BY <1>3 DEF Contract!vars

\* Bringing a request up to date changes nothing, or the one asked has had the
\* chance.
LEMMA LockedSpends ==
    ASSUME TypeOK, AllAgree, NEW r \in Requests, NEW now \in Nat
    PROVE  \/ /\ Locked(r, now) = req[r]
              /\ LockedOffers(r, now) = offer[r]
           \/ /\ Phase(req[r].status) \in {"open", "asked"}
              /\ \/ Locked(r, now).status = "open"
                    /\ Phase(req[r].status) = "asked"
                 \/ Locked(r, now).status = "expired"
              /\ SpentOf(LockedOffers(r, now))
                     = Spending(SpentOf(offer[r]), With(r))
<1> DEFINE row == Locked(r, now)
           offs == LockedOffers(r, now)
<1>1. /\ req[r] \in RequestRows /\ offer[r] \in [Providers -> OfferStatus]
      /\ Agrees(req[r], offer[r], match[r])
      /\ IsWith(req[r], match[r], With(r))
  BY PartiesKnown DEF TypeOK, AllAgree
<1>2. CASE ~Stale(r, now)
  BY <1>2 DEF Locked, LockedOffers
<1>3. CASE Stale(r, now)
  <2>1. /\ req[r] \in StoredRows
        /\ req[r].status \in OfferTaking
        /\ Effective(req[r], now) \in {"open", "expired"}
        /\ Effective(req[r], now) # req[r].status
    BY <1>1, <1>3, EffectiveMoves DEF Stale
  <2>2. row.status = Effective(req[r], now)
    BY <1>3, <2>1 DEF Locked, StoredRows
  <2>3. \A p \in Providers :
            offs[p] = IF p = req[r].sel /\ offer[r][p] = "selected"
                      THEN "expired" ELSE offer[r][p]
    BY <1>3 DEF LockedOffers, ExpireSelection
  <2>4. With(r) = req[r].sel
    BY <1>1, <2>1 DEF IsWith, Agrees, OfferTaking, JobStatus
  <2>5. req[r].sel \in Providers \cup {None}
    BY <2>1 DEF StoredRows
  <2>6. SpentOf(offs) = Spending(SpentOf(offer[r]), With(r))
    BY <1>1, <2>3, <2>4, <2>5, NoneIsNotAProvider DEF SpentOf, Spending, Agrees
  <2>7. CASE req[r].status = "open"
    BY <2>1, <2>2, <2>6, <2>7, PhaseIs
  <2>8. CASE req[r].status = "pending_confirmation"
    BY <2>1, <2>2, <2>6, <2>8, PhaseIs
  <2>9. QED
    BY <2>1, <2>7, <2>8 DEF OfferTaking
<1>4. QED
  BY <1>2, <1>3

\* ... which is a step of the contract.
LEMMA LockedKeeps ==
    ASSUME TypeOK, AllAgree, NEW r \in Requests, NEW now \in Nat, NEW w,
           IsWith(Locked(r, now), match[r], w)
    PROVE  ContractStep(Phase(req[r].status), With(r), SpentOf(offer[r]),
                        Phase(Locked(r, now).status), w,
                        SpentOf(LockedOffers(r, now)))
<1>1. CASE Locked(r, now) = req[r] /\ LockedOffers(r, now) = offer[r]
  <2>1. w = With(r)
    BY <1>1, PartiesKnown, OnePartyOnly DEF AllAgree
  <2>2. QED
    BY <1>1, <2>1 DEF ContractStep
<1>2. CASE Locked(r, now).status \in {"open", "expired"}
  <2>1. w = None
    BY <1>2 DEF IsWith, JobStatus
  <2>2. QED
    BY <1>1, <1>2, <2>1, LockedSpends, PhaseIs DEF ContractStep
<1>3. QED
  BY <1>1, <1>2, LockedSpends

LEMMA SameMatchStoreKeeps ==
    ASSUME TypeOK, AllAgree, AllAgree', NEW r \in Requests,
           NEW row, NEW offs, NEW event,
           Store(r, row, offs, event), UNCHANGED match,
           \A w : Agrees(row, offs, match[r]) /\ IsWith(row, match[r], w) =>
                   ContractStep(Phase(req[r].status), With(r), SpentOf(offer[r]),
                                Phase(row.status), w, SpentOf(offs))
    PROVE  [Contract!Next]_(Contract!vars)
<1>1. match' = [match EXCEPT ![r] = match[r]]
  BY DEF TypeOK
<1>2. QED
  BY <1>1, StoreKeeps

LEMMA RefuseKeeps ==
    ASSUME TypeOK, AllAgree, AllAgree', NEW r \in Requests, NEW now \in Nat,
           Refuse(r, now)
    PROVE  [Contract!Next]_(Contract!vars)
BY LockedKeeps, SameMatchStoreKeeps DEF Refuse

LEMMA CreateKeeps ==
    ASSUME TypeOK, AllAgree, AllAgree', NEW s \in Sessions, CommitCreate(s)
    PROVE  [Contract!Next]_(Contract!vars)
<1> DEFINE c == call[s]
           row == [status |-> "open", sel |-> None, selUntil |-> 0,
                   expires |-> c.now + RequestTTL]
<1>1. c.req \in Requests
  BY CallFields DEF CommitCreate, TypeOK
<1>2. CASE ~Exists(c.req) /\ Store(c.req, row, offer[c.req], "open")
           /\ UNCHANGED match
  <2>1. Phase(req[c.req].status) = "absent" /\ Phase(row.status) = "open"
    BY <1>2, PhaseIs DEF Exists
  <2>2. \A w : IsWith(row, match[c.req], w) => w = None
    BY DEF IsWith, JobStatus
  <2> HIDE DEF row
  <2>3. \A w : IsWith(row, match[c.req], w) =>
                ContractStep(Phase(req[c.req].status), With(c.req),
                             SpentOf(offer[c.req]),
                             Phase(row.status), w, SpentOf(offer[c.req]))
    BY <2>1, <2>2 DEF ContractStep
  <2>4. QED
    BY <1>1, <1>2, <2>3, SameMatchStoreKeeps
<1>3. CASE Rollback
  BY <1>3, RollbackKeeps DEF Rollback
<1>4. QED
  BY <1>2, <1>3 DEF CommitCreate

LEMMA OfferKeeps ==
    ASSUME TypeOK, AllAgree, AllAgree', NEW s \in Sessions, CommitOffer(s)
    PROVE  [Contract!Next]_(Contract!vars)
<1> DEFINE c == call[s]
           row == Locked(c.req, c.now)
           offs == LockedOffers(c.req, c.now)
           offs2 == [offs EXCEPT ![c.prov] = "pending"]
<1>1. c.req \in Requests /\ c.prov \in Providers /\ c.now \in Nat
  BY CallFields DEF CommitOffer, TypeOK
<1>2. CASE /\ Editable(offs[c.prov])
           /\ Store(c.req, row, offs2, LockedEvent(c.req, c.now))
           /\ UNCHANGED match
  <2>1. offs \in [Providers -> OfferStatus]
    BY <1>1, LockedTypes
  <2>2. SpentOf(offs2) = SpentOf(offs)
    BY <1>1, <1>2, <2>1 DEF SpentOf, Editable
  <2>3. \A w : IsWith(row, match[c.req], w) =>
                ContractStep(Phase(req[c.req].status), With(c.req),
                             SpentOf(offer[c.req]),
                             Phase(row.status), w, SpentOf(offs2))
    BY <1>1, <2>2, LockedKeeps
  <2>4. QED
    BY <1>1, <1>2, <2>3, SameMatchStoreKeeps
<1>3. CASE Rollback
  BY <1>3, RollbackKeeps DEF Rollback
<1>4. CASE Refuse(c.req, c.now)
  BY <1>1, <1>4, RefuseKeeps
<1>5. QED
  BY <1>2, <1>3, <1>4 DEF CommitOffer

\* The customer asks: of an open request, or of one whose selection has just
\* timed out under the lock.
LEMMA SelectKeeps ==
    ASSUME TypeOK, AllAgree, AllAgree', NEW s \in Sessions, CommitSelect(s)
    PROVE  [Contract!Next]_(Contract!vars)
<1> DEFINE c == call[s]
           row == Locked(c.req, c.now)
           offs == LockedOffers(c.req, c.now)
           row2 == [row EXCEPT !.status = "pending_confirmation",
                               !.sel = c.prov,
                               !.selUntil = c.now + ConfirmTimeout]
           offs2 == [offs EXCEPT ![c.prov] = "selected"]
<1>1. c.req \in Requests /\ c.prov \in Providers /\ c.now \in Nat
  BY CallFields DEF CommitSelect, TypeOK
<1>2. CASE /\ row.status = "open" /\ offs[c.prov] = "pending"
           /\ Store(c.req, row2, offs2, "pending_confirmation")
           /\ UNCHANGED match
  <2>1. offs \in [Providers -> OfferStatus] /\ row \in RequestRows
    BY <1>1, LockedTypes
  <2>2. row2.status = "pending_confirmation" /\ row2.sel = c.prov
    BY <1>2, <2>1 DEF RequestRows, StoredRows, NoRequest
  <2>3. /\ Phase(row2.status) = "asked"
        /\ \A w : IsWith(row2, match[c.req], w) => w = c.prov
    BY <2>2, PhaseIs DEF IsWith
  <2>4. SpentOf(offs2) = SpentOf(offs) /\ c.prov \notin SpentOf(offs)
    BY <1>1, <1>2, <2>1 DEF SpentOf
  <2>5. /\ Phase(req[c.req].status) \in {"open", "asked"}
        /\ SpentOf(offs) = Spending(SpentOf(offer[c.req]), With(c.req))
    <3>1. CASE row = req[c.req] /\ offs = offer[c.req]
      <4>1. With(c.req) = None
        BY <1>1, <1>2, <3>1, PartiesKnown DEF IsWith, JobStatus
      <4>2. QED
        BY <1>2, <3>1, <4>1, PhaseIs DEF Spending
    <3>2. QED
      BY <1>1, <3>1, LockedSpends
  <2>6. c.prov \notin SpentOf(offer[c.req]) \cup {With(c.req)}
    BY <1>1, <2>4, <2>5, NoneIsNotAProvider DEF Spending
  <2> HIDE DEF row2, offs2, row, offs
  <2>8. \A w : IsWith(row2, match[c.req], w) =>
                ContractStep(Phase(req[c.req].status), With(c.req),
                             SpentOf(offer[c.req]),
                             Phase(row2.status), w, SpentOf(offs2))
    BY <1>1, <2>3, <2>4, <2>5, <2>6 DEF ContractStep
  <2>9. QED
    BY <1>1, <1>2, <2>8, SameMatchStoreKeeps
<1>3. CASE Refuse(c.req, c.now)
  BY <1>1, <1>3, RefuseKeeps
<1>4. QED
  BY <1>2, <1>3 DEF CommitSelect

LEMMA RejectKeeps ==
    ASSUME TypeOK, AllAgree, AllAgree', NEW s \in Sessions, CommitReject(s)
    PROVE  [Contract!Next]_(Contract!vars)
<1> DEFINE c == call[s]
           row == Locked(c.req, c.now)
           offs == LockedOffers(c.req, c.now)
           row2 == [row EXCEPT !.status = "open", !.sel = None, !.selUntil = 0]
           offs2 == [offs EXCEPT ![c.prov] = "rejected"]
<1>1. c.req \in Requests /\ c.prov \in Providers /\ c.now \in Nat
  BY CallFields DEF CommitReject, TypeOK
<1>2. CASE /\ AwaitsConfirmation(row, c.prov) /\ offs[c.prov] = "selected"
           /\ Store(c.req, row2, offs2, "open")
           /\ UNCHANGED match
  <2>1. /\ row.status = "pending_confirmation" /\ row.sel = c.prov
        /\ offs \in [Providers -> OfferStatus] /\ row \in RequestRows
    BY <1>1, <1>2, LockedTypes DEF AwaitsConfirmation
  <2>2. row = req[c.req] /\ offs = offer[c.req]
    BY <1>1, <2>1, LockedSpends
  <2>3. With(c.req) = c.prov /\ Phase(req[c.req].status) = "asked"
    BY <1>1, <2>1, <2>2, PartiesKnown, PhaseIs DEF IsWith
  <2>4. row2.status = "open"
    BY <2>1 DEF RequestRows, StoredRows, NoRequest
  <2>5. /\ Phase(row2.status) = "open"
        /\ \A w : IsWith(row2, match[c.req], w) => w = None
    BY <2>4, PhaseIs DEF IsWith, JobStatus
  <2>6. SpentOf(offs2) = Spending(SpentOf(offer[c.req]), With(c.req))
    BY <1>1, <2>1, <2>2, <2>3, NoneIsNotAProvider DEF SpentOf, Spending
  <2> HIDE DEF row2, offs2
  <2>7. \A w : IsWith(row2, match[c.req], w) =>
                ContractStep(Phase(req[c.req].status), With(c.req),
                             SpentOf(offer[c.req]),
                             Phase(row2.status), w, SpentOf(offs2))
    BY <2>3, <2>5, <2>6 DEF ContractStep
  <2>8. QED
    BY <1>1, <1>2, <2>7, SameMatchStoreKeeps
<1>3. CASE Refuse(c.req, c.now)
  BY <1>1, <1>3, RefuseKeeps
<1>4. QED
  BY <1>2, <1>3 DEF CommitReject

LEMMA AcceptKeeps ==
    ASSUME TypeOK, AllAgree, AllAgree', NEW s \in Sessions, CommitAccept(s)
    PROVE  [Contract!Next]_(Contract!vars)
<1> DEFINE c == call[s]
           p == c.prov
           row == Locked(c.req, c.now)
           offs == LockedOffers(c.req, c.now)
           row2 == [row EXCEPT !.status = "matched", !.sel = None, !.selUntil = 0]
           offs2 == [offs EXCEPT ![p] = "accepted"]
           m == [status |-> "active", fee |-> c.fee, waived |-> ~c.charge,
                 by |-> "nobody", travelled |-> FALSE, at |-> c.now]
           ms == [match[c.req] EXCEPT ![p] = m]
<1>1. c.req \in Requests /\ p \in Providers /\ c.now \in Nat
  BY AcceptCases, CallFields
<1>2. CASE Accepts(s)
  <2>1. /\ row.status = "pending_confirmation" /\ row.sel = p
        /\ match' = [match EXCEPT ![c.req] = ms]
        /\ Store(c.req, row2, offs2, "matched")
        /\ offs \in [Providers -> OfferStatus] /\ row \in RequestRows
    BY <1>1, <1>2, LockedTypes DEF Accepts, AwaitsConfirmation
  <2>2. row = req[c.req] /\ offs = offer[c.req]
    BY <1>1, <2>1, LockedSpends
  <2>3. With(c.req) = p /\ Phase(req[c.req].status) = "asked"
    BY <1>1, <2>1, <2>2, PartiesKnown, PhaseIs DEF IsWith
  <2>4. row2.status = "matched" /\ ms[p].status = "active"
    BY <1>1, <2>1 DEF RequestRows, StoredRows, NoRequest, TypeOK
  <2>5. /\ Phase(row2.status) = "engaged"
        /\ IsWith(row2, ms, p)
    BY <1>1, <2>4, PhaseIs DEF IsWith, JobStatus
  <2>6. SpentOf(offs2) = Spending(SpentOf(offer[c.req]), With(c.req))
    BY <1>1, <2>1, <2>2, <2>3, NoneIsNotAProvider DEF SpentOf, Spending
  <2> HIDE DEF row2, offs2, ms
  <2>7. \A w : Agrees(row2, offs2, ms) /\ IsWith(row2, ms, w) =>
                ContractStep(Phase(req[c.req].status), With(c.req),
                             SpentOf(offer[c.req]),
                             Phase(row2.status), w, SpentOf(offs2))
    BY <2>3, <2>5, <2>6, OnePartyOnly DEF ContractStep
  <2>8. QED
    BY <1>1, <2>1, <2>7, StoreKeeps
<1>3. CASE Refuse(c.req, c.now)
  BY <1>1, <1>3, RefuseKeeps
<1>4. CASE Rollback
  BY <1>4, RollbackKeeps DEF Rollback
<1>5. QED
  BY <1>2, <1>3, <1>4, AcceptCases

LEMMA UpdateKeeps ==
    ASSUME Coherent, AllAgree', NEW s \in Sessions, CommitUpdate(s)
    PROVE  [Contract!Next]_(Contract!vars)
<1> DEFINE c == call[s]
           row == req[c.req]
           row2 == [row EXCEPT !.status = c.to]
           ms == [p \in Providers |-> MovedOn(match[c.req][p], c.to)]
<1>1. TypeOK /\ AllAgree /\ Decided(c) /\ c \in Calls /\ c.op = "update"
  BY DEF Coherent, TypeOK, CommitUpdate
<1>2. c.req \in Requests /\ <<c.from, c.to, c.role>> \in JobMoves
  BY <1>1, CallFields DEF Decided
<1>3. CASE StillAt(row, c.from) /\ Store(c.req, row2, offer[c.req], c.to)
           /\ match' = [match EXCEPT ![c.req] = ms]
  <2>1. /\ row.status \in JobStatus /\ row2.status = c.to
        /\ c.to \in {"on_the_way", "arrived", "completed"}
    BY <1>1, <1>2, <1>3
       DEF StillAt, JobMoves, JobStatus, TypeOK, RequestRows, StoredRows, NoRequest
  <2>2. /\ Phase(row.status) = "engaged"
        /\ Phase(row2.status) = IF c.to = "completed" THEN "done" ELSE "engaged"
    BY <2>1, PhaseIs DEF JobStatus
  <2>3. /\ With(c.req) \in Providers
        /\ match[c.req][With(c.req)].status \in {"active", "completed"}
    BY <1>1, <1>2, <2>1, PartiesKnown DEF IsWith
  <2>4. ms[With(c.req)].status \in {"active", "completed"}
    BY <1>1, <1>2, <2>3, MovedOnStatus DEF TypeOK
  <2>5. IsWith(row2, ms, With(c.req))
    BY <2>1, <2>3, <2>4 DEF IsWith, JobStatus
  <2> HIDE DEF row2, ms
  <2>6. \A w : Agrees(row2, offer[c.req], ms) /\ IsWith(row2, ms, w) =>
                ContractStep(Phase(req[c.req].status), With(c.req),
                             SpentOf(offer[c.req]),
                             Phase(row2.status), w, SpentOf(offer[c.req]))
    BY <2>2, <2>5, OnePartyOnly DEF ContractStep
  <2>7. QED
    BY <1>1, <1>2, <1>3, <2>6, StoreKeeps
<1>4. CASE Rollback
  BY <1>1, <1>4, RollbackKeeps DEF Rollback
<1>5. QED
  BY <1>3, <1>4 DEF CommitUpdate

LEMMA CancelKeeps ==
    ASSUME Coherent, AllAgree', NEW s \in Sessions, CommitCancel(s)
    PROVE  [Contract!Next]_(Contract!vars)
<1> DEFINE c == call[s]
           row == Locked(c.req, c.now)
           locked == LockedOffers(c.req, c.now)
           offs == CancelOffers(s)
           ms == CancelMatches(s)
           gone == MatchedBy(c.req, "active")
<1>1. TypeOK /\ AllAgree /\ Decided(c)
  BY DEF Coherent
<1>2. /\ c.req \in Requests /\ c.now \in Nat /\ CanCancel(c.from, c.role)
      /\ c.from \in Status
  BY <1>1, CancelCases, CallFields DEF Decided
<1>3. /\ Agrees(row, locked, match[c.req])
      /\ row \in RequestRows
      /\ IsWith(req[c.req], match[c.req], With(c.req))
      /\ Agrees(req[c.req], offer[c.req], match[c.req])
  BY <1>1, <1>2, LockedAgrees, LockedTypes, PartiesKnown DEF AllAgree
<1>4. \A p \in Providers :
          offs[p] = IF p = row.sel /\ locked[p] = "selected"
                    THEN "expired" ELSE locked[p]
  BY DEF CancelOffers, ExpireSelection
<1>5. ASSUME StillAt(row, c.from)
      PROVE  /\ Phase(req[c.req].status) \in {"open", "asked", "engaged"}
             /\ SpentOf(offs) = Spending(SpentOf(offer[c.req]), With(c.req))
             /\ c.role = "provider" => Phase(req[c.req].status) = "engaged"
  <2>1. /\ row.status \in OfferTaking \cup JobStatus
        /\ c.role = "provider" => row.status \in {"matched", "on_the_way"}
    BY <1>2, <1>5 DEF StillAt, CanCancel, Status, ClosedStatus
  <2>2. CASE row.status = "pending_confirmation"
    <3>1. row = req[c.req] /\ locked = offer[c.req]
      BY <1>1, <1>2, <2>2, LockedSpends
    <3>2. row.sel = With(c.req) /\ row.sel \in Providers
      <4>1. row.sel = With(c.req)
        BY <1>3, <2>2, <3>1 DEF IsWith
      <4>2. row.sel # None
        BY <1>3, <2>2 DEF Agrees
      <4>3. row.sel \in Providers \cup {None}
        BY <1>3, <2>2 DEF RequestRows, StoredRows, NoRequest
      <4> QED
        BY <4>1, <4>2, <4>3
    <3>3. \A p \in Providers : locked[p] = "selected" <=> row.sel = p
      BY <1>3 DEF Agrees
    <3>4. SpentOf(offs) = Spending(SpentOf(offer[c.req]), With(c.req))
      BY <1>4, <3>1, <3>2, <3>3, NoneIsNotAProvider DEF SpentOf, Spending
    <3>5. QED
      BY <2>1, <2>2, <3>1, <3>4, PhaseIs
  <2>3. CASE row.status # "pending_confirmation"
    <3>1. row.sel = None
      BY <1>3, <2>3 DEF Agrees
    <3>2. SpentOf(offs) = SpentOf(locked)
      BY <1>4, <3>1, NoneIsNotAProvider DEF SpentOf
    <3>3. CASE row.status \in JobStatus
      <4>1. row = req[c.req] /\ locked = offer[c.req]
        BY <1>1, <1>2, <3>3, LockedSpends DEF JobStatus
      <4>2. /\ With(c.req) \in Providers
            /\ match[c.req][With(c.req)].status \in {"active", "completed"}
        BY <1>3, <3>3, <4>1 DEF IsWith
      <4>3. locked[With(c.req)] \in {"accepted", "rejected"}
        BY <1>3, <4>2 DEF Agrees
      <4>4. SpentOf(offs) = Spending(SpentOf(offer[c.req]), With(c.req))
        BY <3>2, <4>1, <4>2, <4>3 DEF SpentOf, Spending
      <4>5. QED
        BY <3>3, <4>1, <4>4, PhaseIs
    <3>4. CASE row.status = "open"
      <4>1. CASE row = req[c.req] /\ locked = offer[c.req]
        <5>1. With(c.req) = None
          BY <1>3, <3>4, <4>1 DEF IsWith, JobStatus
        <5>2. QED
          BY <2>1, <3>2, <3>4, <4>1, <5>1, PhaseIs DEF Spending
      <4>2. QED
        BY <1>1, <1>2, <2>1, <3>2, <3>4, <4>1, LockedSpends
    <3>5. QED
      BY <2>1, <2>3, <3>3, <3>4 DEF OfferTaking
  <2>4. QED
    BY <2>2, <2>3
<1>6. CASE BacksOut(s)
  <2> DEFINE row2 == [CancelRow(s) EXCEPT !.status = "open", !.expires = c.until]
             offs2 == Withdrawn(offs, gone)
  <2>1. /\ StillAt(row, c.from) /\ c.role = "provider"
        /\ match' = [match EXCEPT ![c.req] = ms]
        /\ Store(c.req, row2, offs2, "open")
    BY <1>6 DEF BacksOut, Cancels
  <2>2. row2.status = "open"
    BY <1>3 DEF CancelRow, RequestRows, StoredRows, NoRequest
  <2>3. /\ Phase(row2.status) = "open"
        /\ \A w : IsWith(row2, ms, w) => w = None
    BY <2>2, PhaseIs DEF IsWith, JobStatus
  <2>4. \A p \in Providers : p \in gone => offs[p] \in {"accepted", "rejected"}
    BY <1>3, <1>4 DEF Agrees, MatchedBy
  <2>5. SpentOf(offs2) = SpentOf(offs)
    BY <2>4 DEF SpentOf, Withdrawn
  <2> HIDE DEF row2, offs2, offs, ms
  <2>6. \A w : Agrees(row2, offs2, ms) /\ IsWith(row2, ms, w) =>
                ContractStep(Phase(req[c.req].status), With(c.req),
                             SpentOf(offer[c.req]),
                             Phase(row2.status), w, SpentOf(offs2))
    BY <1>5, <2>1, <2>3, <2>5 DEF ContractStep
  <2>7. QED
    BY <1>1, <1>2, <2>1, <2>6, StoreKeeps
<1>7. CASE CallsOff(s)
  <2> DEFINE row2 == [CancelRow(s) EXCEPT !.status = "cancelled"]
  <2>1. /\ StillAt(row, c.from)
        /\ match' = [match EXCEPT ![c.req] = ms]
        /\ Store(c.req, row2, offs, "cancelled")
    BY <1>7 DEF CallsOff, Cancels
  <2>2. row2.status = "cancelled"
    BY <1>3 DEF CancelRow, RequestRows, StoredRows, NoRequest
  <2>3. /\ Phase(row2.status) = "over"
        /\ \A w : IsWith(row2, ms, w) => w = None
    BY <2>2, PhaseIs DEF IsWith, JobStatus
  <2> HIDE DEF row2, offs, ms
  <2>4. \A w : Agrees(row2, offs, ms) /\ IsWith(row2, ms, w) =>
                ContractStep(Phase(req[c.req].status), With(c.req),
                             SpentOf(offer[c.req]),
                             Phase(row2.status), w, SpentOf(offs))
    BY <1>5, <2>1, <2>3 DEF ContractStep
  <2>5. QED
    BY <1>1, <1>2, <2>1, <2>4, StoreKeeps
<1>8. QED
  BY <1>1, <1>2, <1>6, <1>7, CancelCases, RefuseKeeps, RollbackKeeps DEF Rollback

LEMMA NextKeeps ==
    ASSUME Coherent, Coherent', [Next]_vars
    PROVE  [Contract!Next]_(Contract!vars)
<1>1. TypeOK /\ AllAgree /\ AllAgree'
  BY DEF Coherent
<1>2. ASSUME NEW s \in Sessions, Commit(s)
      PROVE  [Contract!Next]_(Contract!vars)
  BY <1>1, <1>2, CreateKeeps, OfferKeeps, SelectKeeps, RejectKeeps,
     AcceptKeeps, UpdateKeeps, CancelKeeps DEF Commit
<1>3. QED
  BY <1>1, <1>2, OtherStepsKeepRows, RollbackKeeps

\* Every transaction on the three tables is one step of the contract between a
\* customer and the providers, or none of its business (MatchContract).
THEOREM ContractHolds == Spec => ContractIsKept
<1>1. Init => Contract!Init
  <2> SUFFICES ASSUME Init PROVE Contract!Init
    OBVIOUS
  <2>1. \A r \in Requests : /\ Phase(req[r].status) = "absent"
                             /\ With(r) = None
                             /\ Spent(r) = {}
    BY PhaseIs DEF Init, NoRequest, With, Spent, JobStatus
  <2>2. QED
    BY <2>1 DEF Contract!Init, phases, parties, spents
<1>2. Coherent /\ Coherent' /\ [Next]_vars => [Contract!Next]_(Contract!vars)
  BY NextKeeps
<1>3. QED
  BY <1>1, <1>2, AlwaysCoherent, PTL DEF Spec, ContractIsKept, Contract!Spec

-----------------------------------------------------------------------------
(***************************************************************************)
(* Part 6: the screens.                                                    *)
(***************************************************************************)

-----------------------------------------------------------------------------
(* Nobody has an offer on a request of their own.                          *)

OwnWorkLeft ==
    /\ \A r \in Requests :
           CustomerOf[r] \in Providers => offer[r][CustomerOf[r]] = "none"
    /\ \A s \in Sessions :
           call[s].op = "offer" => call[s].prov # CustomerOf[call[s].req]

\* What is not offered is not brought up by anything but an offer.
StaysUnoffered(old, new) ==
    \A p \in Providers : old[p] = "none" => new[p] = "none"

LEMMA LockedUnoffered ==
    ASSUME NEW r \in Requests, NEW now
    PROVE  StaysUnoffered(offer[r], LockedOffers(r, now))
BY DEF StaysUnoffered, LockedOffers, ExpireSelection

LEMMA StoreUnoffered ==
    ASSUME TypeOK, NEW r \in Requests, NEW row, NEW offs, NEW event,
           Store(r, row, offs, event), StaysUnoffered(offer[r], offs)
    PROVE  \A q \in Requests : StaysUnoffered(offer[q], offer'[q])
BY DEF Store, TypeOK, StaysUnoffered

LEMMA RefuseUnoffered ==
    ASSUME TypeOK, NEW r \in Requests, NEW now, Refuse(r, now)
    PROVE  \A q \in Requests : StaysUnoffered(offer[q], offer'[q])
BY LockedUnoffered, StoreUnoffered DEF Refuse

LEMMA RollbackUnoffered ==
    ASSUME UNCHANGED rows
    PROVE  \A q \in Requests : StaysUnoffered(offer[q], offer'[q])
BY DEF rows, StaysUnoffered

LEMMA OthersUnoffered ==
    ASSUME Coherent, NEW s \in Sessions, Commit(s), ~CommitOffer(s)
    PROVE  \A q \in Requests : StaysUnoffered(offer[q], offer'[q])
<1> DEFINE c == call[s]
           offs == LockedOffers(c.req, c.now)
           Kept == \A q \in Requests : StaysUnoffered(offer[q], offer'[q])
<1>1. TypeOK /\ c \in Calls
  BY DEF Coherent, TypeOK
<1>2. ASSUME c.req \in Requests PROVE StaysUnoffered(offer[c.req], offs)
  BY <1>2, LockedUnoffered
<1>3. CASE CommitCreate(s)
  <2>1. c.req \in Requests
    BY <1>1, <1>3, CallFields DEF CommitCreate
  <2>2. StaysUnoffered(offer[c.req], offer[c.req])
    BY DEF StaysUnoffered
  <2>3. QED
    BY <1>1, <1>3, <2>1, <2>2, StoreUnoffered, RollbackUnoffered
       DEF CommitCreate, Rollback
<1>4. CASE CommitSelect(s)
  <2>1. c.req \in Requests /\ c.prov \in Providers /\ c.now \in Nat
    BY <1>1, <1>4, CallFields DEF CommitSelect
  <2>2. CASE Refuse(c.req, c.now)
    BY <1>1, <2>1, <2>2, RefuseUnoffered
  <2>3. CASE ~Refuse(c.req, c.now)
    <3>1. offs[c.prov] = "pending"
      BY <1>4, <2>3 DEF CommitSelect
    <3>2. \E row, event : Store(c.req, row, [offs EXCEPT ![c.prov] = "selected"], event)
      BY <1>4, <2>3 DEF CommitSelect
    <3>3. offs \in [Providers -> OfferStatus]
      BY <1>1, <2>1, LockedTypes
    <3>4. offer[c.req][c.prov] # "none"
      BY <1>2, <2>1, <3>1 DEF StaysUnoffered
    <3>5. StaysUnoffered(offer[c.req], [offs EXCEPT ![c.prov] = "selected"])
      BY <1>2, <2>1, <3>3, <3>4 DEF StaysUnoffered
    <3>6. QED
      BY <1>1, <2>1, <3>2, <3>5, StoreUnoffered
  <2>4. QED
    BY <2>2, <2>3
<1>5. CASE CommitReject(s)
  <2>1. c.req \in Requests /\ c.prov \in Providers /\ c.now \in Nat
    BY <1>1, <1>5, CallFields DEF CommitReject
  <2>2. CASE Refuse(c.req, c.now)
    BY <1>1, <2>1, <2>2, RefuseUnoffered
  <2>3. CASE ~Refuse(c.req, c.now)
    <3>1. offs[c.prov] = "selected"
      BY <1>5, <2>3 DEF CommitReject
    <3>2. \E row, event : Store(c.req, row, [offs EXCEPT ![c.prov] = "rejected"], event)
      BY <1>5, <2>3 DEF CommitReject
    <3>3. offs \in [Providers -> OfferStatus]
      BY <1>1, <2>1, LockedTypes
    <3>4. offer[c.req][c.prov] # "none"
      BY <1>2, <2>1, <3>1 DEF StaysUnoffered
    <3>5. StaysUnoffered(offer[c.req], [offs EXCEPT ![c.prov] = "rejected"])
      BY <1>2, <2>1, <3>3, <3>4 DEF StaysUnoffered
    <3>6. QED
      BY <1>1, <2>1, <3>2, <3>5, StoreUnoffered
  <2>4. QED
    BY <2>2, <2>3
<1>6. CASE CommitAccept(s)
  <2>1. c.req \in Requests /\ c.prov \in Providers /\ c.now \in Nat
    BY <1>1, <1>6, AcceptCases, CallFields
  <2>2. CASE Accepts(s)
    <3>1. AwaitsConfirmation(Locked(c.req, c.now), c.prov)
      BY <2>2 DEF Accepts
    <3>2. \E row, event : Store(c.req, row, [offs EXCEPT ![c.prov] = "accepted"], event)
      BY <2>2 DEF Accepts
    <3>3. offs \in [Providers -> OfferStatus]
      BY <1>1, <2>1, LockedTypes
    <3>4. offs[c.prov] = "selected"
      BY <2>1, <3>1, LockedAgrees DEF Coherent, Agrees, AwaitsConfirmation
    <3>5. offer[c.req][c.prov] # "none"
      BY <1>2, <2>1, <3>4 DEF StaysUnoffered
    <3>6. StaysUnoffered(offer[c.req], [offs EXCEPT ![c.prov] = "accepted"])
      BY <1>2, <2>1, <3>3, <3>5 DEF StaysUnoffered
    <3>7. QED
      BY <1>1, <2>1, <3>2, <3>6, StoreUnoffered
  <2>3. QED
    BY <1>1, <1>6, <2>1, <2>2, AcceptCases, RefuseUnoffered, RollbackUnoffered
       DEF Rollback
<1>7. CASE CommitUpdate(s)
  <2>1. c.req \in Requests
    BY <1>1, <1>7, CallFields DEF CommitUpdate
  <2>2. StaysUnoffered(offer[c.req], offer[c.req])
    BY DEF StaysUnoffered
  <2>3. QED
    BY <1>1, <1>7, <2>1, <2>2, StoreUnoffered, RollbackUnoffered
       DEF CommitUpdate, Rollback
<1>8. CASE CommitCancel(s)
  <2>1. c.req \in Requests /\ c.now \in Nat
    BY <1>1, <1>8, CancelCases, CallFields
  <2>2. StaysUnoffered(offer[c.req], CancelOffers(s))
    BY <1>2, <2>1 DEF StaysUnoffered, CancelOffers, ExpireSelection
  <2>3. \A p \in MatchedBy(c.req, "active") : offer[c.req][p] # "none"
    BY <2>1 DEF MatchedBy, Coherent, AllAgree, Agrees
  <2>4. StaysUnoffered(offer[c.req],
                       Withdrawn(CancelOffers(s), MatchedBy(c.req, "active")))
    BY <2>2, <2>3 DEF StaysUnoffered, Withdrawn
  <2>5. CASE BacksOut(s)
    BY <1>1, <2>1, <2>4, <2>5, StoreUnoffered DEF BacksOut
  <2>6. CASE CallsOff(s)
    BY <1>1, <2>1, <2>2, <2>6, StoreUnoffered DEF CallsOff
  <2>7. QED
    BY <1>1, <1>8, <2>1, <2>5, <2>6, CancelCases, RefuseUnoffered,
       RollbackUnoffered DEF Rollback
<1>9. QED
  BY <1>3, <1>4, <1>5, <1>6, <1>7, <1>8 DEF Commit

\* An offer names its provider, who is not the customer.
LEMMA OfferLeavesOwn ==
    ASSUME Coherent, OwnWorkLeft, NEW s \in Sessions, CommitOffer(s)
    PROVE  \A r \in Requests :
               CustomerOf[r] \in Providers => offer'[r][CustomerOf[r]] = "none"
<1> DEFINE c == call[s]
           offs == LockedOffers(c.req, c.now)
<1>1. TypeOK
  BY DEF Coherent
<1>2. c.req \in Requests /\ c.prov \in Providers /\ c.now \in Nat
  BY <1>1, CallFields DEF CommitOffer, TypeOK
<1>3. c.prov # CustomerOf[c.req]
  BY DEF OwnWorkLeft, CommitOffer
<1>4. CASE \E row, event : Store(c.req, row, [offs EXCEPT ![c.prov] = "pending"], event)
  <2>1. /\ offer'[c.req] = [offs EXCEPT ![c.prov] = "pending"]
        /\ \A r \in Requests \ {c.req} : offer'[r] = offer[r]
    BY <1>1, <1>2, <1>4 DEF Store, TypeOK
  <2>2. offs \in [Providers -> OfferStatus]
    BY <1>1, <1>2, LockedTypes
  <2>3. CustomerOf[c.req] \in Providers => offs[CustomerOf[c.req]] = "none"
    BY <1>2, LockedUnoffered DEF OwnWorkLeft, StaysUnoffered
  <2>4. QED
    BY <1>2, <1>3, <2>1, <2>2, <2>3 DEF OwnWorkLeft
<1>5. CASE Rollback \/ Refuse(c.req, c.now)
  BY <1>1, <1>2, <1>5, RefuseUnoffered, RollbackUnoffered
     DEF Rollback, OwnWorkLeft, StaysUnoffered
<1>6. QED
  BY <1>4, <1>5 DEF CommitOffer

LEMMA EnteredForeign ==
    ASSUME TypeOK, OwnWorkLeft, NEW s \in Sessions, NEW c,
           call' = [call EXCEPT ![s] = c],
           c.op = "offer" => c.prov # CustomerOf[c.req]
    PROVE  \A t \in Sessions :
               call'[t].op = "offer" => call'[t].prov # CustomerOf[call'[t].req]
BY DEF TypeOK, OwnWorkLeft

LEMMA NextCallsForeign ==
    ASSUME Coherent, OwnWorkLeft, [Next]_vars
    PROVE  \A t \in Sessions :
               call'[t].op = "offer" => call'[t].prov # CustomerOf[call'[t].req]
<1> DEFINE Foreign == \A t \in Sessions :
               call'[t].op = "offer" => call'[t].prov # CustomerOf[call'[t].req]
<1>1. TypeOK
  BY DEF Coherent
<1>2. \A s \in Sessions : \A c :
          Enter(s, c) /\ (c.op = "offer" => c.prov # CustomerOf[c.req]) => Foreign
  BY <1>1, EnteredForeign DEF Enter
<1>3. ASSUME NEW s \in Sessions, Return(s) PROVE Foreign
  BY <1>1, <1>3, EnteredForeign DEF Return, Idle
<1>4. CASE UNCHANGED call
  BY <1>4 DEF OwnWorkLeft
<1>5. CASE ProfileStep \/ Redeploy \/ Tick \/ UNCHANGED vars
  BY <1>4, <1>5 DEF ProfileStep, CreateProvider, UpdateProvider, AdminSetStatus,
                    AdminAdjust, Redeploy, Tick, vars
<1>6. ASSUME NEW s \in Sessions, Begin(s) PROVE Foreign
  <2>1. ASSUME NEW r \in Requests, NEW p \in Providers, BeginOffer(s, p, r)
        PROVE  Foreign
    BY <1>2, <2>1 DEF BeginOffer
  <2>2. ASSUME NEW r \in Requests, NEW p \in Providers,
               BeginSelect(s, p, r) \/ BeginReject(s, p, r)
        PROVE  Foreign
    BY <1>2, <2>2 DEF BeginSelect, BeginReject
  <2>3. ASSUME NEW r \in Requests, NEW p \in Providers, BeginAccept(s, p, r)
        PROVE  Foreign
    BY <1>2, <2>3 DEF BeginAccept
  <2>4. ASSUME NEW r \in Requests, BeginCreate(s, r) PROVE Foreign
    BY <1>2, <2>4 DEF BeginCreate
  <2>5. ASSUME NEW r \in Requests, NEW u \in Users, NEW want, Load(s, u, r, want)
        PROVE  Foreign
    BY <1>2, <2>5 DEF Load
  <2>6. QED
    BY <1>6, <2>1, <2>2, <2>3, <2>4, <2>5 DEF Begin
<1>7. ASSUME NEW s \in Sessions, Decide(s) PROVE Foreign
  <2>1. \A c : c.op # "offer" /\ call' = [call EXCEPT ![s] = c] => Foreign
    BY <1>1, EnteredForeign
  <2>2. QED
    BY <1>3, <1>7, <2>1 DEF Decide, DecideUpdate, DecideCancel
<1>8. ASSUME NEW s \in Sessions, Commit(s) \/ Abort(s) PROVE Foreign
  BY <1>3, <1>8, CommitReturns DEF Abort
<1>9. QED
  BY <1>5, <1>6, <1>7, <1>8 DEF Next

LEMMA AlwaysForeign == Spec => [](Coherent /\ OwnWorkLeft)
<1>1. Init => OwnWorkLeft
  BY CustomersAreUsers DEF Init, OwnWorkLeft, Idle
<1>2. Coherent /\ OwnWorkLeft /\ [Next]_vars => OwnWorkLeft'
  <2> SUFFICES ASSUME Coherent, OwnWorkLeft, [Next]_vars PROVE OwnWorkLeft'
    OBVIOUS
  <2>1. \A r \in Requests :
            CustomerOf[r] \in Providers => offer'[r][CustomerOf[r]] = "none"
    <3>1. CASE UNCHANGED rows
      BY <3>1 DEF rows, OwnWorkLeft
    <3>2. ASSUME NEW s \in Sessions, Commit(s)
          PROVE  \A r \in Requests : CustomerOf[r] \in Providers
                     => offer'[r][CustomerOf[r]] = "none"
      BY <3>2, OthersUnoffered, OfferLeavesOwn DEF OwnWorkLeft, StaysUnoffered
    <3>3. QED
      BY <3>1, <3>2, OtherStepsKeepRows
  <2>2. QED
    BY <2>1, NextCallsForeign DEF OwnWorkLeft
<1>3. QED
  BY <1>1, <1>2, AlwaysCoherent, PTL DEF Spec

-----------------------------------------------------------------------------
(* What is shown.                                                          *)

\* The matched provider is the one whose match is active or completed.
LEMMA MatchedIs ==
    ASSUME Coherent, NEW r \in Requests
    PROVE  \A p \in Providers :
               MatchedProvider(r) = p
                   <=> match[r][p].status \in {"active", "completed"}
<1>1. Agrees(req[r], offer[r], match[r])
  BY DEF Coherent, AllAgree
<1>2. ASSUME NEW p \in Providers, match[r][p].status \in {"active", "completed"}
      PROVE  MatchedProvider(r) = p
  <2>1. p \in MatchedBy(r, "active") \cup MatchedBy(r, "completed")
    BY <1>2 DEF MatchedBy
  <2>2. MatchedProvider(r) \in MatchedBy(r, "active") \cup MatchedBy(r, "completed")
    BY <2>1 DEF MatchedProvider
  <2>3. QED
    BY <1>1, <1>2, <2>2 DEF MatchedBy, Agrees
<1>3. QED
  BY <1>2, MatchedProviderTypes, NoneIsNotAProvider

\* A matched request exists, and its status is what anybody sees.
LEMMA MatchedShows ==
    ASSUME Coherent, NEW r \in Requests, NEW p \in Providers,
           match[r][p].status \in {"active", "completed"}
    PROVE  /\ Exists(r)
           /\ req[r].status \in JobStatus \cup {"completed"}
           /\ match[r][p].status = "active" => req[r].status \in JobStatus
           /\ offer[r][p] = "accepted"
           /\ \A now : Effective(req[r], now) = req[r].status
<1>1. Agrees(req[r], offer[r], match[r])
  BY DEF Coherent, AllAgree
<1>2. /\ req[r].status \in JobStatus \cup {"completed"}
      /\ match[r][p].status = "active" => req[r].status \in JobStatus
      /\ offer[r][p] = "accepted"
  BY <1>1 DEF Agrees
<1>3. QED
  BY <1>2 DEF Exists, Effective, SelectionTimedOut, JobStatus, OfferTaking

\* A provider sees the customer's contact exactly when the match is theirs.
LEMMA ProviderSees ==
    ASSUME Coherent, NEW r \in Requests,
           NEW p \in Providers \ {CustomerOf[r]}
    PROVE  CustomerOf[r] \in ContactShown(p, r) <=> MatchedProvider(r) = p
<1>1. r \notin DOMAIN MyRequests(p)
  BY DEF MyRequests
<1>2. r \in DOMAIN MyJobs(p) <=> match[r][p].status # "none"
  BY DEF MyJobs
<1>3. r \in DOMAIN MyJobs(p) =>
          MyJobs(p)[r].contact = IF match[r][p].status = "cancelled"
                                 THEN {} ELSE {CustomerOf[r]}
  BY DEF MyJobs, ContactOfJob
<1>4. match[r][p].status \in {"none", "active", "completed", "cancelled"}
  BY DEF Coherent, TypeOK, MatchRows
<1>5. GetRequest(p, r).contact =
          IF Exists(r) /\ MatchedProvider(r) = p THEN {CustomerOf[r]} ELSE {}
  <2>1. p # None
    BY NoneIsNotAProvider
  <2>2. RoleOf(p, r) = IF MatchedProvider(r) = p THEN "provider" ELSE "none"
    BY DEF RoleOf
  <2>3. View(r, "provider").contact =
            IF MatchedProvider(r) = None THEN {} ELSE {CustomerOf[r]}
    BY DEF View
  <2>4. QED
    BY <2>1, <2>2, <2>3 DEF GetRequest, Hidden
<1>6. p \in Providers
  OBVIOUS
<1>7. QED
  BY <1>1, <1>2, <1>3, <1>4, <1>5, <1>6, MatchedIs DEF ContactShown

\* A customer sees a provider's contact exactly when the match is theirs.
LEMMA CustomerSees ==
    ASSUME Coherent, NEW r \in Requests,
           NEW p \in Providers \ {CustomerOf[r]}
    PROVE  p \in ContactShown(CustomerOf[r], r) <=> MatchedProvider(r) = p
<1> DEFINE u == CustomerOf[r]
<1>1. p # None /\ p # u
  BY NoneIsNotAProvider
<1>2. GetRequest(u, r).contact =
          IF Exists(r) /\ MatchedProvider(r) # None THEN {MatchedProvider(r)} ELSE {}
  <2>1. RoleOf(u, r) = "customer"
    BY DEF RoleOf
  <2>2. View(r, "customer").contact =
            IF MatchedProvider(r) = None THEN {} ELSE {MatchedProvider(r)}
    BY DEF View
  <2>3. QED
    BY <2>1, <2>2 DEF GetRequest, Hidden
<1>3. r \in DOMAIN MyRequests(u) =>
          MyRequests(u)[r].contact \in {{}, GetRequest(u, r).contact}
  BY DEF MyRequests, Hidden
<1>4. p \notin (IF u \in Providers /\ r \in DOMAIN MyJobs(u)
                THEN MyJobs(u)[r].contact ELSE {})
  BY <1>1 DEF MyJobs, ContactOfJob
<1>5. MatchedProvider(r) = p => Exists(r)
  BY MatchedIs, MatchedShows
<1>6. QED
  BY <1>1, <1>2, <1>3, <1>4, <1>5 DEF ContactShown

\* The phone and the exact place are given to the two parties of a running or
\* completed job, to both and to nobody else (view, MyRequests and MyJobs of
\* service.go).
THEOREM ContactsArePrivate == Spec => []ContactNeedsMatch
<1>1. Coherent => ContactNeedsMatch
  <2> SUFFICES ASSUME Coherent, NEW r \in Requests,
                      NEW p \in Providers \ {CustomerOf[r]}
               PROVE  LET reached == CustomerOf[r] \in ContactShown(p, r)
                      IN  /\ reached <=> p \in ContactShown(CustomerOf[r], r)
                          /\ reached =>
                                 /\ Effective(req[r], clock)
                                        \in JobStatus \cup {"completed"}
                                 /\ offer[r][p] = "accepted"
                                 /\ \A q \in Providers \ {p, CustomerOf[r]} :
                                        CustomerOf[r] \notin ContactShown(q, r)
    BY DEF ContactNeedsMatch
  <2>1. CustomerOf[r] \in ContactShown(p, r) <=> MatchedProvider(r) = p
    BY ProviderSees
  <2>2. p \in ContactShown(CustomerOf[r], r) <=> MatchedProvider(r) = p
    BY CustomerSees
  <2>3. ASSUME MatchedProvider(r) = p
        PROVE  /\ Effective(req[r], clock) \in JobStatus \cup {"completed"}
               /\ offer[r][p] = "accepted"
               /\ \A q \in Providers \ {p, CustomerOf[r]} :
                      CustomerOf[r] \notin ContactShown(q, r)
    <3>1. match[r][p].status \in {"active", "completed"}
      BY <2>3, MatchedIs
    <3>2. /\ Effective(req[r], clock) \in JobStatus \cup {"completed"}
          /\ offer[r][p] = "accepted"
      BY <3>1, MatchedShows
    <3>3. ASSUME NEW q \in Providers \ {p, CustomerOf[r]}
          PROVE  CustomerOf[r] \notin ContactShown(q, r)
      BY <2>3, ProviderSees
    <3>4. QED
      BY <3>2, <3>3
  <2>4. QED
    BY <2>1, <2>2, <2>3
<1>2. QED
  BY <1>1, AlwaysCoherent, PTL

-----------------------------------------------------------------------------
(* What is shown can be done.                                              *)

\* The row lock leaves the status that Effective shows.
LEMMA LockedShows ==
    ASSUME TypeOK, NEW r \in Requests, NEW now \in Nat
    PROVE  /\ Locked(r, now).status = Effective(req[r], now)
           /\ Locked(r, now).status \in {"pending_confirmation"} \cup JobStatus =>
                  Locked(r, now) = req[r] /\ LockedOffers(r, now) = offer[r]
<1>1. req[r] \in RequestRows
  BY DEF TypeOK
<1>2. CASE Stale(r, now)
  <2>1. req[r] \in StoredRows /\ Effective(req[r], now) \in {"open", "expired"}
    BY <1>1, <1>2, EffectiveMoves DEF Stale
  <2>2. Locked(r, now).status = Effective(req[r], now)
    BY <1>2, <2>1 DEF Locked, StoredRows
  <2>3. QED
    BY <2>1, <2>2 DEF JobStatus
<1>3. CASE ~Stale(r, now)
  BY <1>3 DEF Locked, LockedOffers, Stale
<1>4. QED
  BY <1>2, <1>3

\* A selection is shown exactly while the request waits for it, to both.
LEMMA SelectionShown ==
    ASSUME Coherent, NEW r \in Requests, NEW p \in Providers
    PROVE  LET shown == EffectiveOffer(r, p, clock)
           IN  /\ shown = "selected" <=>
                      /\ AwaitsConfirmation(Locked(r, clock), p)
                      /\ LockedOffers(r, clock)[p] = "selected"
               /\ shown = "selected"
                      <=> GetRequest(CustomerOf[r], r).selected = p
<1> DEFINE shown == EffectiveOffer(r, p, clock)
           status == Effective(req[r], clock)
<1>1. /\ TypeOK /\ clock \in Nat /\ Agrees(req[r], offer[r], match[r])
      /\ offer[r][p] \in OfferStatus
  BY DEF Coherent, TypeOK, AllAgree
<1>2. shown = "selected" <=>
          offer[r][p] = "selected" /\ status = "pending_confirmation"
  BY DEF EffectiveOffer
<1>3. /\ Locked(r, clock).status = status
      /\ status = "pending_confirmation" =>
             Locked(r, clock) = req[r] /\ LockedOffers(r, clock) = offer[r]
  BY <1>1, LockedShows
<1>4. offer[r][p] = "selected" <=> req[r].sel = p
  BY <1>1 DEF Agrees
<1>5. shown = "selected" <=> /\ AwaitsConfirmation(Locked(r, clock), p)
                             /\ LockedOffers(r, clock)[p] = "selected"
  BY <1>2, <1>3, <1>4 DEF AwaitsConfirmation
<1>6. GetRequest(CustomerOf[r], r).selected =
          IF Exists(r) /\ status = "pending_confirmation" THEN req[r].sel ELSE None
  <2>1. RoleOf(CustomerOf[r], r) = "customer"
    BY DEF RoleOf
  <2>2. QED
    BY <2>1 DEF GetRequest, View, Hidden
<1>7. offer[r][p] = "selected" => Exists(r)
  BY <1>1, <1>4, NoneIsNotAProvider DEF Agrees, Exists
<1>8. shown = "selected" <=> GetRequest(CustomerOf[r], r).selected = p
  BY <1>2, <1>4, <1>6, <1>7, NoneIsNotAProvider
<1>9. QED
  BY <1>5, <1>8

\* The list of the providers, in SQL, follows the row lock.
LEMMA ListTakesOffers ==
    ASSUME TypeOK, NEW r \in Requests, NEW p \in Providers
    PROVE  r \in OpenRequestsNear(p, clock) <=>
               /\ Locked(r, clock).status \in OfferTaking
               /\ CustomerOf[r] # p /\ r \in prov[p].covers
<1>1. clock \in Nat /\ req[r] \in RequestRows
  BY DEF TypeOK
<1>2. Locked(r, clock).status = Effective(req[r], clock)
  BY <1>1, LockedShows
<1>3. TakesOffersRow(req[r], clock) <=> Effective(req[r], clock) \in OfferTaking
  <2>1. CASE req[r] = NoRequest
    BY <2>1 DEF NoRequest, TakesOffersRow, Effective, SelectionTimedOut, OfferTaking
  <2>2. CASE req[r] \in StoredRows
    BY <1>1, <2>2
       DEF StoredRows, TakesOffersRow, Effective, SelectionTimedOut, OfferTaking
  <2>3. QED
    BY <1>1, <2>1, <2>2 DEF RequestRows
<1>4. QED
  BY <1>2, <1>3 DEF OpenRequestsNear

LEMMA ListedIsEditable ==
    ASSUME TypeOK, NEW r \in Requests, NEW p \in Providers,
           EffectiveOffer(r, p, clock) \in {"none", "pending"}
    PROVE  Editable(LockedOffers(r, clock)[p])
<1>1. offer[r][p] \in {"none", "pending"}
  BY DEF EffectiveOffer, TypeOK, OfferStatus
<1>2. LockedOffers(r, clock)[p] = offer[r][p]
  BY <1>1 DEF LockedOffers, ExpireSelection
<1>3. QED
  BY <1>1, <1>2 DEF Editable

\* What holds one of the customer's places is what the customer sees running.
LEMMA OpenIsShown ==
    ASSUME TypeOK, NEW r \in Requests
    PROVE  r \in OpenRequests(CustomerOf[r], clock) <=>
               /\ Exists(r)
               /\ MyRequests(CustomerOf[r])[r].status \notin ClosedStatus
<1> DEFINE u == CustomerOf[r]
           status == Effective(req[r], clock)
<1>1. clock \in Nat /\ req[r] \in RequestRows
  BY DEF TypeOK
<1>2. Exists(r) => MyRequests(u)[r].status = status
  <2>1. RoleOf(u, r) = "customer"
    BY DEF RoleOf
  <2>2. Exists(r) => GetRequest(u, r).status = status
    BY <2>1 DEF GetRequest, View
  <2>3. QED
    BY <2>2 DEF MyRequests, Hidden
<1>3. CASE req[r] = NoRequest
  BY <1>3 DEF NoRequest, Exists, OpenRequests, OfferTaking, JobStatus
<1>4. CASE req[r] \in StoredRows
  <2>1. Exists(r)
    BY <1>4 DEF StoredRows, Exists, Status, JobStatus, ClosedStatus, OfferTaking
  <2>2. status \notin ClosedStatus <=>
            \/ req[r].status \in OfferTaking /\ req[r].expires > clock
            \/ req[r].status \in JobStatus
    BY <1>1, <1>4 DEF StoredRows, Effective, SelectionTimedOut, Status, JobStatus,
                      ClosedStatus, OfferTaking
  <2>3. QED
    BY <1>2, <2>1, <2>2 DEF OpenRequests
<1>5. QED
  BY <1>1, <1>3, <1>4 DEF RequestRows

\* A running job is its provider's to move on.
LEMMA JobIsMovable ==
    ASSUME Coherent, OwnWorkLeft, NEW r \in Requests, NEW p \in Providers,
           match[r][p].status = "active"
    PROVE  RoleOf(p, r) = "provider" /\ Locked(r, clock).status \in JobStatus
<1>1. /\ MatchedProvider(r) = p /\ offer[r][p] = "accepted"
      /\ Effective(req[r], clock) \in JobStatus
  BY MatchedIs, MatchedShows
<1>2. CustomerOf[r] # p
  BY <1>1 DEF OwnWorkLeft
<1>3. Locked(r, clock).status = Effective(req[r], clock)
  BY LockedShows DEF Coherent, TypeOK
<1>4. QED
  BY <1>1, <1>2, <1>3 DEF RoleOf

\* A refund the customer is shown is given.
LEMMA RefundIsDue ==
    ASSUME TypeOK, NEW r \in Requests, NEW p \in Providers,
           GetRequest(CustomerOf[r], r).refund, MatchedProvider(r) = p
    PROVE  RefundEligible(match[r][p], Locked(r, clock).status, "customer", clock)
<1>1. clock \in Nat /\ match[r][p].at \in Nat
  BY DEF TypeOK, MatchRows
<1>2. Locked(r, clock).status = Effective(req[r], clock)
  BY <1>1, LockedShows
<1>3. RoleOf(CustomerOf[r], r) = "customer"
  BY DEF RoleOf
<1>4. View(r, "customer").refund
  BY <1>3 DEF GetRequest, Hidden
<1>5. /\ Charged(match[r][p]) /\ match[r][p].status = "active"
      /\ Effective(req[r], clock) = "matched" /\ ~match[r][p].travelled
      /\ clock < match[r][p].at + RefundGrace
  BY <1>4 DEF View
<1>6. QED
  BY <1>1, <1>2, <1>5, DurationsAreNat DEF RefundEligible

\* What a screen offers, a transaction begun at the same moment does not refuse
\* as outdated: the three implementations of the lazy timeouts agree
\* (Effective, the WHERE of the list and normalizeRequest).
THEOREM ScreensTellTheTruth == Spec => []ShownIsDoable
<1>1. Coherent /\ OwnWorkLeft => ShownIsDoable
  <2> SUFFICES ASSUME Coherent, OwnWorkLeft, NEW r \in Requests, NEW p \in Providers
               PROVE
        LET row == Locked(r, clock)
            mine == LockedOffers(r, clock)[p]
            shown == EffectiveOffer(r, p, clock)
        IN  /\ (shown = "selected") <=> (AwaitsConfirmation(row, p) /\ mine = "selected")
            /\ (shown = "selected") <=> (GetRequest(CustomerOf[r], r).selected = p)
            /\ r \in OpenRequestsNear(p, clock) <=>
                   row.status \in OfferTaking /\ CustomerOf[r] # p /\ r \in prov[p].covers
            /\ r \in NearbyRequests(p) /\ shown \in {"none", "pending"} => Editable(mine)
            /\ r \in OpenRequests(CustomerOf[r], clock) <=>
                   Exists(r) /\ MyRequests(CustomerOf[r])[r].status \notin ClosedStatus
            /\ match[r][p].status = "active" =>
                   RoleOf(p, r) = "provider" /\ row.status \in JobStatus
            /\ GetRequest(CustomerOf[r], r).refund /\ MatchedProvider(r) = p =>
                   RefundEligible(match[r][p], row.status, "customer", clock)
    BY DEF ShownIsDoable
  <2>1. TypeOK
    BY DEF Coherent
  <2>2. QED
    BY <2>1, SelectionShown, ListTakesOffers, ListedIsEditable, OpenIsShown,
       JobIsMovable, RefundIsDue
<1>2. QED
  BY <1>1, AlwaysForeign, PTL
=============================================================================
