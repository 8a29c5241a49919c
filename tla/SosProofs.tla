----------------------------- MODULE SosProofs -----------------------------
(***************************************************************************)
(* Proofs about Sos for any devices, requests, profiles and calls.         *)
(*                                                                         *)
(* Every step leaves the requests alone or moves one of them in one of     *)
(* three lawful ways (Lawful): it is sent, moved on by a party, or claimed *)
(* by a helper with room.  That a stale call moves it only so needs that   *)
(* the call decided on an allowed transition (Decided) and that the        *)
(* compare-and-set found the status it decided on.                         *)
(***************************************************************************)
EXTENDS Sos, FiniteSetTheorems, TLAPS

Decided(c) == c.op = "update" => CanTransition(c.from, c.to, c.role)

\* The inductive invariant of the types.
Coherent == TypeOK /\ \A s \in Sessions : Decided(call[s])

Sent(r) ==
    /\ sos[r] = NoRequest
    /\ Move(r, [status |-> "waiting", helper |-> None], "requester")

MovedOn(r) ==
    \E t \in Transitions :
        /\ sos[r].status = t[1]
        /\ Move(r, Moved(sos[r], t[2]), t[3])

Claimed(r) ==
    \E d \in Devices :
        /\ sos[r].status = "waiting" /\ HasRoom(d)
        /\ Move(r, [status |-> "matched", helper |-> d], "helper")

Lawful(r) == Sent(r) \/ MovedOn(r) \/ Claimed(r)

\* What a call carries, by its operation.
LEMMA CallFields ==
    ASSUME NEW c \in Calls
    PROVE  /\ c.op = "update" => /\ c.req \in Requests /\ c.device \in Devices
                                 /\ c.role \in Role
           /\ c.op = "asking" => c.req \in Requests /\ c.device \in Devices
           /\ c.op = "accept" => c.req \in Requests /\ c.device \in Devices
           /\ c.op = "save" => c.device \in Devices /\ c.row \in HelperRows
           /\ c.op = "nearby" => c.device \in Devices /\ c.place \in Places
           /\ c.op = "idle" => c = Idle
BY DEF Calls, Idle

-----------------------------------------------------------------------------
(* Types.                                                                  *)

\* A lawful move keeps the rows and the trail in their types.
LEMMA LawfulTypes ==
    ASSUME TypeOK, NEW r \in Requests, Lawful(r)
    PROVE  /\ sos' \in [Requests -> Rows]
           /\ newest' \in [Requests -> [status : Status \cup {"absent"},
                                        actor : Role \cup {"nobody"}]]
<1> DEFINE Types2(row, actor) ==
               row \in Rows /\ row.status \in Status /\ actor \in Role
<1>1. ASSUME NEW row, NEW actor, Types2(row, actor), Move(r, row, actor)
      PROVE  /\ sos' \in [Requests -> Rows]
             /\ newest' \in [Requests -> [status : Status \cup {"absent"},
                                          actor : Role \cup {"nobody"}]]
  <2>1. /\ sos \in [Requests -> Rows]
        /\ newest \in [Requests -> [status : Status \cup {"absent"},
                                    actor : Role \cup {"nobody"}]]
    BY DEF TypeOK
  <2>2. QED
    BY <1>1, <2>1 DEF Move
<1>2. CASE Sent(r)
  <2>1. Types2([status |-> "waiting", helper |-> None], "requester")
    BY DEF Rows, Status, Role
  <2>2. QED
    BY <1>1, <1>2, <2>1 DEF Sent
<1>3. CASE MovedOn(r)
  <2>1. PICK t \in Transitions :
            /\ sos[r].status = t[1]
            /\ Move(r, Moved(sos[r], t[2]), t[3])
    BY <1>3 DEF MovedOn
  <2>2. sos[r] \in Rows
    BY DEF TypeOK
  <2>3. Types2(Moved(sos[r], t[2]), t[3])
    BY <2>1, <2>2
       DEF Transitions, Moved, Rows, NoRequest, Status, AssignedStatus,
           ClosedStatus, Role
  <2>4. QED
    BY <1>1, <2>1, <2>3
<1>4. CASE Claimed(r)
  <2>1. PICK d \in Devices :
            Move(r, [status |-> "matched", helper |-> d], "helper")
    BY <1>4 DEF Claimed
  <2>2. Types2([status |-> "matched", helper |-> d], "helper")
    BY DEF Rows, Status, AssignedStatus, Role
  <2>3. QED
    BY <1>1, <2>1, <2>2
<1>5. QED
  BY <1>2, <1>3, <1>4 DEF Lawful

\* A session that ends a call or enters a decided one keeps calls decided.
LEMMA EnterKeepsCalls ==
    ASSUME Coherent, NEW s \in Sessions, NEW c \in Calls, Decided(c),
           call' = [call EXCEPT ![s] = c]
    PROVE  call' \in [Sessions -> Calls] /\ \A q \in Sessions : Decided(call'[q])
BY DEF Coherent, TypeOK

LEMMA ReturnKeepsCalls ==
    ASSUME Coherent, NEW s \in Sessions, Return(s)
    PROVE  call' \in [Sessions -> Calls] /\ \A q \in Sessions : Decided(call'[q])
<1>1. Idle \in Calls /\ Decided(Idle)
  BY DEF Calls, Idle, Decided
<1>2. QED
  BY <1>1, EnterKeepsCalls DEF Return

\* What a step of a call does to the requests: nothing or one lawful move.
LEMMA CommitUpdateLawful ==
    ASSUME Coherent, NEW s \in Sessions, CommitUpdate(s)
    PROVE  UNCHANGED <<sos, newest>> \/ \E r \in Requests : Lawful(r)
<1> DEFINE c == call[s]
           t == <<c.from, c.to, c.role>>
<1>1. c \in Calls /\ c.op = "update" /\ t \in Transitions
  BY DEF Coherent, TypeOK, Decided, CanTransition, CommitUpdate
<1>2. c.req \in Requests
  BY <1>1, CallFields
<1>3. CASE StillAt(sos[c.req], c.from) /\ Move(c.req, Moved(sos[c.req], c.to), c.role)
  <2>1. sos[c.req].status = t[1] /\ Move(c.req, Moved(sos[c.req], t[2]), t[3])
    BY <1>3 DEF StillAt
  <2>2. QED
    BY <1>1, <1>2, <2>1 DEF Lawful, MovedOn
<1>4. CASE UNCHANGED <<sos, newest>>
  BY <1>4
<1>5. QED
  BY <1>3, <1>4 DEF CommitUpdate

LEMMA CommitAcceptLawful ==
    ASSUME Coherent, NEW s \in Sessions, CommitAccept(s)
    PROVE  UNCHANGED <<sos, newest>> \/ \E r \in Requests : Lawful(r)
<1> DEFINE c == call[s]
<1>1. c \in Calls /\ c.op = "accept"
  BY DEF Coherent, TypeOK, CommitAccept
<1>2. c.req \in Requests /\ c.device \in Devices
  BY <1>1, CallFields
<1>3. CASE /\ HasRoom(c.device) /\ Unclaimed(sos[c.req])
           /\ Move(c.req, [status |-> "matched", helper |-> c.device], "helper")
  BY <1>2, <1>3 DEF Lawful, Claimed, Unclaimed
<1>4. CASE UNCHANGED <<sos, newest>>
  BY <1>4
<1>5. QED
  BY <1>3, <1>4 DEF CommitAccept

LEMMA CreateLawful ==
    ASSUME Coherent, NEW r \in Requests, Create(r)
    PROVE  Lawful(r)
<1>1. sos[r] = NoRequest
  BY DEF Coherent, TypeOK, Rows, Create, Exists, NoRequest, AssignedStatus
<1>2. QED
  BY <1>1 DEF Create, Lawful, Sent

\* Every step leaves the requests alone or moves one lawfully.
LEMMA StepLawful ==
    ASSUME Coherent, [Next]_vars
    PROVE  UNCHANGED <<sos, newest>> \/ \E r \in Requests : Lawful(r)
<1>1. ASSUME NEW r \in Requests, Create(r)
      PROVE  \E q \in Requests : Lawful(q)
  BY <1>1, CreateLawful
<1>2. ASSUME NEW s \in Sessions, Step(s)
      PROVE  UNCHANGED <<sos, newest>> \/ \E r \in Requests : Lawful(r)
  <2>1. CASE CommitUpdate(s)
    BY <2>1, CommitUpdateLawful
  <2>2. CASE CommitAccept(s)
    BY <2>2, CommitAcceptLawful
  <2>3. CASE ~CommitUpdate(s) /\ ~CommitAccept(s)
    BY <1>2, <2>3
       DEF Step, Request, Profile, BeginUpdate, BeginAccept, BeginSave,
           BeginNearby, DecideAccept, CommitSave, CommitNearby, Abort, Reading
  <2>4. QED
    BY <2>1, <2>2, <2>3
<1>3. CASE UNCHANGED vars
  BY <1>3 DEF vars
<1>4. QED
  BY <1>1, <1>2, <1>3 DEF Next

\* What a step of a call does to the helpers and the calls.
LEMMA StepHelpersAndCalls ==
    ASSUME Coherent, NEW s \in Sessions, Step(s)
    PROVE  /\ helper' \in [Devices -> HelperRows]
           /\ call' \in [Sessions -> Calls]
           /\ \A q \in Sessions : Decided(call'[q])
<1> DEFINE c == call[s]
           Kept == /\ helper' \in [Devices -> HelperRows]
                   /\ call' \in [Sessions -> Calls]
                   /\ \A q \in Sessions : Decided(call'[q])
<1>1. /\ helper \in [Devices -> HelperRows] /\ c \in Calls
      /\ sos \in [Requests -> Rows]
  BY DEF Coherent, TypeOK
<1>2. ASSUME NEW c2 \in Calls, Decided(c2), call' = [call EXCEPT ![s] = c2],
             helper' = helper
      PROVE  Kept
  BY <1>1, <1>2, EnterKeepsCalls
<1>3. ASSUME Return(s), helper' \in [Devices -> HelperRows]
      PROVE  Kept
  BY <1>3, ReturnKeepsCalls
<1>4. ASSUME NEW d \in Devices, NEW r \in Requests, NEW to \in Status,
             BeginUpdate(s, d, r, to)
      PROVE  Kept
  <2> DEFINE role == RoleOf(sos[r], r, d)
             c2 == [op |-> "update", req |-> r, device |-> d, role |-> role,
                    from |-> sos[r].status, to |-> to]
  <2>1. CanTransition(sos[r].status, to, role)
    BY <1>4 DEF BeginUpdate
  <2>2. role \in Role /\ sos[r].status \in Status
    BY <2>1 DEF CanTransition, Transitions, Role, Status, AssignedStatus,
                ClosedStatus
  <2> HIDE DEF role
  <2>3. c2 \in Calls /\ Decided(c2)
    BY <2>1, <2>2 DEF Calls, Decided
  <2>4. call' = [call EXCEPT ![s] = c2] /\ helper' = helper
    BY <1>4 DEF BeginUpdate, Enter, Reading, role
  <2> HIDE DEF c2
  <2>5. QED
    BY <1>2, <2>3, <2>4
<1>5. ASSUME NEW d \in Devices, NEW r \in Requests, BeginAccept(s, d, r)
      PROVE  Kept
  <2> DEFINE c2 == [op |-> "asking", req |-> r, device |-> d,
                    caps |-> helper[d].caps]
  <2>1. helper[d].caps \in SUBSET Capabilities
    BY <1>1 DEF HelperRows
  <2>2. c2 \in Calls /\ Decided(c2)
    BY <2>1 DEF Calls, Decided
  <2>3. call' = [call EXCEPT ![s] = c2] /\ helper' = helper
    BY <1>5 DEF BeginAccept, Enter, Reading
  <2> HIDE DEF c2
  <2>4. QED
    BY <1>2, <2>2, <2>3
<1>6. ASSUME NEW d \in Devices, NEW active \in BOOLEAN,
             NEW profile \in Profiles, NEW place \in Places \cup {None},
             BeginSave(s, d, active, profile, place)
      PROVE  Kept
  <2> DEFINE kept == IF place = None THEN helper[d].place ELSE place
             row == [exists |-> TRUE, active |-> active, caps |-> profile.caps,
                     radius |-> profile.radius, place |-> kept]
             c2 == [op |-> "save", device |-> d, row |-> row]
  <2>1. kept \in Places \cup {None}
    BY <1>1 DEF HelperRows
  <2>2. profile.caps \in SUBSET Capabilities /\ profile.radius \in Nat
    BY ProfilesAreValid
  <2> HIDE DEF kept
  <2>3. row \in HelperRows
    BY <2>1, <2>2 DEF HelperRows
  <2>4. call' = [call EXCEPT ![s] = c2] /\ helper' = helper
    BY <1>6 DEF BeginSave, Enter, Reading, kept
  <2> HIDE DEF row
  <2>5. c2 \in Calls /\ Decided(c2)
    BY <2>3 DEF Calls, Decided
  <2> HIDE DEF c2
  <2>6. QED
    BY <1>2, <2>4, <2>5
<1>7. ASSUME NEW d \in Devices, NEW place \in Places, BeginNearby(s, d, place)
      PROVE  Kept
  <2> DEFINE c2 == [op |-> "nearby", device |-> d, place |-> place]
  <2>1. c2 \in Calls /\ Decided(c2)
    BY DEF Calls, Decided
  <2>2. call' = [call EXCEPT ![s] = c2] /\ helper' = helper
    BY <1>7 DEF BeginNearby, Enter, Reading
  <2> HIDE DEF c2
  <2>3. QED
    BY <1>2, <2>1, <2>2
<1>8. CASE DecideAccept(s)
  <2> DEFINE c2 == [op |-> "accept", req |-> c.req, device |-> c.device]
  <2>1. c2 \in Calls /\ Decided(c2)
    BY <1>1, <1>8, CallFields DEF DecideAccept, Calls, Decided
  <2>2. /\ helper' = helper
        /\ call' = [call EXCEPT ![s] = c2] \/ Return(s)
    BY <1>8 DEF DecideAccept, Reading
  <2> HIDE DEF c2
  <2>3. QED
    BY <1>1, <1>2, <1>3, <2>1, <2>2
<1>9. CASE CommitUpdate(s) \/ CommitAccept(s) \/ Abort(s)
  BY <1>1, <1>3, <1>9 DEF CommitUpdate, CommitAccept, Abort, Reading
<1>10. CASE CommitSave(s)
  <2>1. c.device \in Devices /\ c.row \in HelperRows
    BY <1>1, <1>10, CallFields DEF CommitSave
  <2>2. Return(s) /\ helper' = [helper EXCEPT ![c.device] = c.row]
    BY <1>10 DEF CommitSave
  <2>3. QED
    BY <1>1, <1>3, <2>1, <2>2
<1>11. CASE CommitNearby(s)
  <2>1. c.device \in Devices /\ c.place \in Places
    BY <1>1, <1>11, CallFields DEF CommitNearby
  <2>2. Return(s) /\ helper' = [helper EXCEPT ![c.device].place = c.place]
    BY <1>11 DEF CommitNearby
  <2>3. helper' \in [Devices -> HelperRows]
    BY <1>1, <2>1, <2>2 DEF HelperRows
  <2>4. QED
    BY <1>3, <2>2, <2>3
<1>12. QED
  BY <1>4, <1>5, <1>6, <1>7, <1>8, <1>9, <1>10, <1>11, VolunteersAreDevices
     DEF Step, Request, Profile

LEMMA InitCoherent == Init => Coherent
BY NoneIsNothing
   DEF Init, Coherent, TypeOK, Rows, NoRequest, HelperRows, NoHelper, Calls,
       Idle, Decided

LEMMA CoherentStep ==
    ASSUME Coherent, [Next]_vars
    PROVE  Coherent'
<1>1. /\ sos' \in [Requests -> Rows]
      /\ newest' \in [Requests -> [status : Status \cup {"absent"},
                                   actor : Role \cup {"nobody"}]]
  BY StepLawful, LawfulTypes DEF Coherent, TypeOK
<1>2. /\ helper' \in [Devices -> HelperRows]
      /\ call' \in [Sessions -> Calls]
      /\ \A q \in Sessions : Decided(call'[q])
  <2>1. CASE \E s \in Sessions : Step(s)
    BY <2>1, StepHelpersAndCalls
  <2>2. CASE UNCHANGED <<helper, call>>
    BY <2>2 DEF Coherent, TypeOK
  <2>3. QED
    BY <2>1, <2>2 DEF Next, Create, vars
<1>3. QED
  BY <1>1, <1>2 DEF Coherent, TypeOK, Decided

LEMMA AlwaysCoherent == Spec => []Coherent
<1>1. QED
  BY InitCoherent, CoherentStep, PTL DEF Spec

\* Every reachable state has its types: a waiting request has no helper and
\* an assigned or completed one has (Transition, Accept).
THEOREM TypeCorrect == Spec => []TypeOK
<1>1. Coherent => TypeOK
  BY DEF Coherent
<1>2. QED
  BY <1>1, AlwaysCoherent, PTL

-----------------------------------------------------------------------------
(* The audit trail and the cap.                                            *)

\* Init and unchanged requests keep the trail; a lawful move writes a row its
\* actor may write.
LEMMA LawfulTrail ==
    ASSUME Coherent, TrailNamesTheActor, NEW r \in Requests, Lawful(r)
    PROVE  TrailNamesTheActor'
<1>1. ASSUME NEW row, NEW actor, actor \in MayBring(row.status),
             Move(r, row, actor)
      PROVE  TrailNamesTheActor'
  <2>1. /\ sos \in [Requests -> Rows]
        /\ newest \in [Requests -> [status : Status \cup {"absent"},
                                    actor : Role \cup {"nobody"}]]
    BY DEF Coherent, TypeOK
  <2>2. ASSUME NEW q \in Requests
        PROVE  newest'[q].status = sos'[q].status
               /\ newest'[q].actor \in MayBring(sos'[q].status)
    <3>1. CASE q = r
      BY <1>1, <2>1, <3>1 DEF Move
    <3>2. CASE q # r
      BY <1>1, <2>1, <3>2 DEF Move, TrailNamesTheActor
    <3>3. QED
      BY <3>1, <3>2
  <2>3. QED
    BY <2>2 DEF TrailNamesTheActor
<1>2. CASE Sent(r)
  BY <1>1, <1>2 DEF Sent, MayBring, AssignedStatus, Role
<1>3. CASE MovedOn(r)
  <2>1. PICK t \in Transitions : Move(r, Moved(sos[r], t[2]), t[3])
    BY <1>3 DEF MovedOn
  <2>2. t[3] \in MayBring(t[2])
    BY DEF Transitions, MayBring, AssignedStatus, Role
  <2>3. QED
    BY <1>1, <2>1, <2>2 DEF Moved
<1>4. CASE Claimed(r)
  <2>1. PICK d \in Devices : Move(r, [status |-> "matched", helper |-> d], "helper")
    BY <1>4 DEF Claimed
  <2>2. QED
    BY <1>1, <2>1 DEF MayBring, AssignedStatus
<1>5. QED
  BY <1>2, <1>3, <1>4 DEF Lawful

\* The newest row of the trail (insertSOSEvent) is the status, by a party who
\* may bring it there, whatever stale calls commit.
THEOREM TrailsNameActors == Spec => []TrailNamesTheActor
<1>1. Init => TrailNamesTheActor
  BY DEF Init, TrailNamesTheActor, NoRequest, MayBring, AssignedStatus
<1>2. ASSUME Coherent, TrailNamesTheActor, [Next]_vars
      PROVE  TrailNamesTheActor'
  <2>1. CASE UNCHANGED <<sos, newest>>
    BY <1>2, <2>1 DEF TrailNamesTheActor
  <2>2. CASE \E r \in Requests : Lawful(r)
    BY <1>2, <2>2, LawfulTrail
  <2>3. QED
    BY <1>2, <2>1, <2>2, StepLawful
<1>3. QED
  BY <1>1, <1>2, AlwaysCoherent, PTL DEF Spec

LEMMA HeldIsFinite ==
    ASSUME NEW d
    PROVE  IsFiniteSet(Held(d)) /\ Cardinality(Held(d)) \in Nat
BY RequestsAreFinite, FS_Subset, FS_CardinalityType DEF Held

\* Only a claim adds to what a helper holds, and one request at a time.
LEMMA LawfulHeld ==
    ASSUME Coherent, AssignmentsBounded, NEW r \in Requests, Lawful(r)
    PROVE  AssignmentsBounded'
<1>1. sos \in [Requests -> Rows]
  BY DEF Coherent, TypeOK
<1>2. ASSUME NEW d \in Devices, Held(d)' \subseteq Held(d)
      PROVE  Cardinality(Held(d)') <= MaxActive
  <2>1. Cardinality(Held(d)') <= Cardinality(Held(d))
    BY <1>2, HeldIsFinite, FS_Subset
  <2>2. /\ Cardinality(Held(d)) \in Nat /\ Cardinality(Held(d)') \in Nat
        /\ Cardinality(Held(d)) <= MaxActive
    BY <1>2, HeldIsFinite, FS_Subset, FS_CardinalityType DEF AssignmentsBounded
  <2>3. QED
    BY <2>1, <2>2, CapIsNat
<1>3. CASE Sent(r)
  <2>1. \A d \in Devices : Held(d)' \subseteq Held(d)
    BY <1>1, <1>3 DEF Sent, Move, Held, AssignedStatus
  <2>2. QED
    BY <1>2, <2>1 DEF AssignmentsBounded
<1>4. CASE MovedOn(r)
  <2>1. PICK t \in Transitions :
            sos[r].status = t[1] /\ Move(r, Moved(sos[r], t[2]), t[3])
    BY <1>4 DEF MovedOn
  <2>2. t[2] \in AssignedStatus => t[1] \in AssignedStatus /\ t[2] # "waiting"
    BY DEF Transitions, AssignedStatus
  <2>3. \A q \in Requests :
            sos'[q] = IF q = r THEN Moved(sos[r], t[2]) ELSE sos[q]
    BY <1>1, <2>1 DEF Move
  <2>4. ASSUME NEW d \in Devices, NEW q \in Requests,
               sos'[q].helper = d, sos'[q].status \in AssignedStatus
        PROVE  sos[q].helper = d /\ sos[q].status \in AssignedStatus
    <3>1. CASE q = r
      BY <2>1, <2>2, <2>3, <2>4, <3>1 DEF Moved
    <3>2. CASE q # r
      BY <2>3, <2>4, <3>2
    <3>3. QED
      BY <3>1, <3>2
  <2>5. \A d \in Devices : Held(d)' \subseteq Held(d)
    BY <2>4 DEF Held
  <2>6. QED
    BY <1>2, <2>5 DEF AssignmentsBounded
<1>5. CASE Claimed(r)
  <2>1. PICK d \in Devices :
            /\ sos[r].status = "waiting" /\ HasRoom(d)
            /\ Move(r, [status |-> "matched", helper |-> d], "helper")
    BY <1>5 DEF Claimed
  <2>2. \A q \in Requests :
            sos'[q] = IF q = r THEN [status |-> "matched", helper |-> d] ELSE sos[q]
    BY <1>1, <2>1 DEF Move
  <2>3. Held(d)' = Held(d) \cup {r} /\ r \notin Held(d)
    BY <2>1, <2>2 DEF Held, AssignedStatus
  <2>4. Cardinality(Held(d)') = Cardinality(Held(d)) + 1
    BY <2>3, HeldIsFinite, FS_AddElement
  <2>5. Cardinality(Held(d)') <= MaxActive
    BY <2>1, <2>4, HeldIsFinite, CapIsNat DEF HasRoom
  <2>6. \A e \in Devices \ {d} : Held(e)' \subseteq Held(e)
    BY <2>2 DEF Held
  <2>7. QED
    BY <1>2, <2>5, <2>6 DEF AssignmentsBounded
<1>6. QED
  BY <1>3, <1>4, <1>5 DEF Lawful

\* No helper ever holds more open requests than MaxActiveAssignments, however
\* many accepts they send at once (SOSRepository.Accept).
THEOREM AssignmentsStayBounded == Spec => []AssignmentsBounded
<1>1. Init => AssignmentsBounded
  <2>1. ASSUME Init, NEW d \in Devices PROVE Cardinality(Held(d)) <= MaxActive
    <3>1. Held(d) = {}
      BY <2>1 DEF Init, Held, NoRequest, AssignedStatus
    <3>2. QED
      BY <3>1, FS_EmptySet, CapIsNat
  <2>2. QED
    BY <2>1 DEF AssignmentsBounded
<1>2. ASSUME Coherent, AssignmentsBounded, [Next]_vars
      PROVE  AssignmentsBounded'
  <2>1. CASE UNCHANGED <<sos, newest>>
    BY <1>2, <2>1 DEF AssignmentsBounded, Held
  <2>2. CASE \E r \in Requests : Lawful(r)
    BY <1>2, <2>2, LawfulHeld
  <2>3. QED
    BY <1>2, <2>1, <2>2, StepLawful
<1>3. QED
  BY <1>1, <1>2, AlwaysCoherent, PTL DEF Spec

-----------------------------------------------------------------------------
(* What a step may never do.                                               *)

\* What a lawful move does to the moved row and to every other.
LEMMA LawfulRow ==
    ASSUME Coherent, NEW r \in Requests, Lawful(r), NEW q \in Requests
    PROVE  \/ sos'[q] = sos[q]
           \/ sos[q].helper = None /\ sos[q].status = "absent"
              /\ sos'[q].status = "waiting"
           \/ sos[q].helper = None /\ sos[q].status = "waiting"
              /\ sos'[q].status = "matched"
           \/ \E t \in Transitions : /\ sos[q].status = t[1]
                                      /\ sos'[q] = Moved(sos[q], t[2])
<1>1. sos \in [Requests -> Rows]
  BY DEF Coherent, TypeOK
<1>2. CASE q # r
  BY <1>1, <1>2 DEF Lawful, Sent, MovedOn, Claimed, Move
<1>3. CASE q = r
  <2>1. CASE Sent(r)
    BY <1>1, <1>3, <2>1 DEF Sent, Move, NoRequest
  <2>2. CASE MovedOn(r)
    BY <1>1, <1>3, <2>2 DEF MovedOn, Move
  <2>3. CASE Claimed(r)
    <3>1. PICK d \in Devices :
              /\ sos[r].status = "waiting"
              /\ Move(r, [status |-> "matched", helper |-> d], "helper")
      BY <2>3 DEF Claimed
    <3>2. sos[r].helper = None
      BY <1>1, <3>1 DEF Rows, NoRequest, AssignedStatus
    <3>3. QED
      BY <1>1, <1>3, <3>1, <3>2 DEF Move
  <2>4. QED
    BY <2>1, <2>2, <2>3 DEF Lawful
<1>4. QED
  BY <1>2, <1>3

\* Every status change of a request is one of the state machine's, so a closed
\* request stays closed whatever calls were under way (Transition).
THEOREM MovesAreAllowed == Spec => OnlyAllowedMoves
<1>1. ASSUME Coherent, [Next]_vars, NEW q \in Requests, sos'[q] # sos[q]
      PROVE  <<sos[q].status, sos'[q].status>> \in StatusMoves
  <2>1. PICK r \in Requests : Lawful(r)
    BY <1>1, StepLawful
  <2>2. CASE \E t \in Transitions : /\ sos[q].status = t[1]
                                    /\ sos'[q] = Moved(sos[q], t[2])
    BY <2>2 DEF StatusMoves, Moved
  <2>3. QED
    BY <1>1, <2>1, <2>2, LawfulRow DEF StatusMoves
<1>2. Coherent /\ [Next]_vars
      => [\A r \in Requests :
              sos'[r] # sos[r] => <<sos[r].status, sos'[r].status>> \in StatusMoves]_vars
  BY <1>1
<1>3. QED
  BY <1>2, AlwaysCoherent, PTL DEF Spec, OnlyAllowedMoves

\* A request that has a helper is never given to another one: the helper stays
\* until they withdraw to the pool (Accept, Transition).
THEOREM HelpersStay == Spec => NeverTakenOver
<1>1. ASSUME Coherent, [Next]_vars, NEW q \in Requests, sos[q].helper # None
      PROVE  \/ sos'[q].helper = sos[q].helper
             \/ sos'[q] = [status |-> "waiting", helper |-> None]
  <2>1. CASE UNCHANGED <<sos, newest>>
    BY <2>1
  <2>2. CASE \E r \in Requests : Lawful(r)
    <3>1. PICK r \in Requests : Lawful(r)
      BY <2>2
    <3>2. CASE sos'[q] = sos[q]
      BY <3>2
    <3>3. CASE \E t \in Transitions : /\ sos[q].status = t[1]
                                      /\ sos'[q] = Moved(sos[q], t[2])
      BY <3>3 DEF Moved
    <3>4. QED
      BY <1>1, <3>1, <3>2, <3>3, LawfulRow
  <2>3. QED
    BY <1>1, <2>1, <2>2, StepLawful
<1>2. Coherent /\ [Next]_vars
      => [\A r \in Requests :
              sos[r].helper # None =>
                  \/ sos'[r].helper = sos[r].helper
                  \/ sos'[r] = [status |-> "waiting", helper |-> None]]_vars
  BY <1>1
<1>3. QED
  BY <1>2, AlwaysCoherent, PTL DEF Spec, NeverTakenOver

\* A helper's step that commits is on a request they are assigned to at that
\* moment: the compare-and-set includes helper_device_id (Transition).
THEOREM HelpersActOnTheirOwn == Spec => OnlyTheAssignedHelperActs
<1>1. ASSUME Coherent, [Next]_vars, NEW s \in Sessions,
             call[s].op = "update", call[s].role = "helper",
             call'[s] # call[s], sos' # sos
      PROVE  sos[call[s].req].helper = call[s].device
  <2>1. call \in [Sessions -> Calls]
    BY <1>1 DEF Coherent, TypeOK
  <2>2. PICK q \in Sessions : Step(q)
    BY <1>1 DEF Next, Create, vars
  <2>3. CommitUpdate(q) \/ CommitAccept(q)
    BY <1>1, <2>2
       DEF Step, Request, Profile, BeginUpdate, BeginAccept, BeginSave,
           BeginNearby, DecideAccept, CommitSave, CommitNearby, Abort, Reading
  <2>4. q = s
    BY <1>1, <2>1, <2>3 DEF CommitUpdate, CommitAccept, Return
  <2>5. CommitUpdate(s) /\ StillAssigned(sos[call[s].req], call[s])
    BY <1>1, <2>3, <2>4 DEF CommitUpdate, CommitAccept
  <2>6. QED
    BY <1>1, <2>5 DEF StillAssigned
<1>2. Coherent /\ [Next]_vars
      => [\A s \in Sessions :
              /\ call[s].op = "update" /\ call[s].role = "helper"
              /\ call'[s] # call[s] /\ sos' # sos
              => sos[call[s].req].helper = call[s].device]_vars
  BY <1>1
<1>3. QED
  BY <1>2, AlwaysCoherent, PTL DEF Spec, OnlyTheAssignedHelperActs
=============================================================================
