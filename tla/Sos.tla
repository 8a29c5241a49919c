-------------------------------- MODULE Sos --------------------------------
(***************************************************************************)
(* SOS requests and the community helpers who answer them.                 *)
(*                                                                         *)
(* A service call (application/sos/service.go) reads and decides without a *)
(* lock; the repository (postgres/sos_repository.go) then moves the        *)
(* request by compare-and-set or claims it under the helper's row lock.    *)
(* What a call decided is carried in call[s] and may be stale by then.     *)
(*                                                                         *)
(* Devices are the identity of both parties.  As in Matching, an operator  *)
(* used nowhere that stands before another with the same parameters is a   *)
(* mistake the properties would catch.                                     *)
(***************************************************************************)
EXTENDS Integers, FiniteSets

CONSTANTS
    Devices,
    Requests,     \* one per (device_id, client_id)
    DeviceOf,     \* the device that sends each request
    Volunteers,   \* the devices that ever save a helper profile
    TypeOf,       \* what kind of help it needs
    Places,       \* where helpers can be
    Profiles,     \* the capabilities and radius helpers save
    MaxActive,    \* MaxActiveAssignments
    Sessions,     \* concurrent API calls
    None

Types == {"trapped", "elderly_or_patient", "vehicle_stalled", "need_boat",
          "need_high_vehicle", "need_food_water", "need_shelter", "other"}
Capabilities == {"high_vehicle", "boat", "first_aid", "food_water",
                 "vehicle_repair", "towing", "shelter", "other"}

ASSUME RequestsAreFinite == IsFiniteSet(Requests)
ASSUME RequestsAreTyped ==
    DeviceOf \in [Requests -> Devices] /\ TypeOf \in [Requests -> Types]
ASSUME VolunteersAreDevices == Volunteers \subseteq Devices
ASSUME ProfilesAreValid ==
    Profiles \subseteq [caps : SUBSET Capabilities \ {{}}, radius : Nat]
ASSUME CapIsNat == MaxActive \in Nat
ASSUME NoneIsNothing == None \notin Devices /\ None \notin Places

VARIABLES
    sos,      \* sos_requests: status and helper_device_id
    newest,   \* each request's newest sos_events row: status and actor
    helper,   \* helpers
    call      \* the API calls under way

vars == <<sos, newest, helper, call>>

-----------------------------------------------------------------------------
(* Domain rules: domain/sos/sos.go.                                        *)

RequiredCapabilities(type) ==
    CASE type = "trapped" -> {"boat", "high_vehicle"}
      [] type = "elderly_or_patient" -> {"first_aid", "high_vehicle", "boat"}
      [] type = "vehicle_stalled" -> {"vehicle_repair", "towing"}
      [] type = "need_boat" -> {"boat"}
      [] type = "need_high_vehicle" -> {"high_vehicle"}
      [] type = "need_food_water" -> {"food_water"}
      [] type = "need_shelter" -> {"shelter"}
      [] OTHER -> Capabilities

CanAnswer(type, caps) == RequiredCapabilities(type) \cap caps # {}

AssignedStatus == {"matched", "on_the_way", "arrived"}
ClosedStatus == {"completed", "cancelled"}
Status == {"waiting"} \cup AssignedStatus \cup ClosedStatus
Role == {"requester", "helper"}

Transitions ==
    { <<"waiting", "cancelled", "requester">>,
      <<"matched", "on_the_way", "helper">>,
      <<"matched", "waiting", "helper">>,
      <<"matched", "cancelled", "requester">>,
      <<"on_the_way", "arrived", "helper">>,
      <<"on_the_way", "waiting", "helper">>,
      <<"on_the_way", "cancelled", "requester">>,
      <<"arrived", "completed", "helper">>,
      <<"arrived", "completed", "requester">>,
      <<"arrived", "cancelled", "requester">> }

CanTransition(from, to, role) == <<from, to, role>> \in Transitions

RoleOf(row, r, d) ==
    CASE DeviceOf[r] = d -> "requester"
      [] DeviceOf[r] # d /\ row.helper = d -> "helper"
      [] OTHER -> "none"

-----------------------------------------------------------------------------
(* Rows.                                                                   *)

NoRequest == [status |-> "absent", helper |-> None]
NoHelper == [exists |-> FALSE, active |-> FALSE, caps |-> {}, radius |-> 0,
             place |-> None]
Idle == [op |-> "idle"]

\* A request has a helper exactly while one is assigned (the CHECK of
\* sos_requests); once it is closed it keeps the last one, if any.
Rows ==
    {NoRequest}
    \cup [status : {"waiting"}, helper : {None}]
    \cup [status : AssignedStatus \cup {"completed"}, helper : Devices]
    \cup [status : {"cancelled"}, helper : Devices \cup {None}]

HelperRows ==
    [exists : BOOLEAN, active : BOOLEAN, caps : SUBSET Capabilities,
     radius : Nat, place : Places \cup {None}]

Calls ==
    {Idle}
    \cup [op : {"update"}, req : Requests, device : Devices, role : Role,
          from : Status, to : Status]
    \cup [op : {"asking"}, req : Requests, device : Devices,
          caps : SUBSET Capabilities]
    \cup [op : {"accept"}, req : Requests, device : Devices]
    \cup [op : {"save"}, device : Devices, row : HelperRows]
    \cup [op : {"nearby"}, device : Devices, place : Places]

Exists(r) == sos[r].status # "absent"

IsOpen(r) == sos[r].status \in {"waiting"} \cup AssignedStatus

\* The requests a helper holds.
Held(d) == {r \in Requests : sos[r].helper = d /\ sos[r].status \in AssignedStatus}

Enter(s, c) == call[s] = Idle /\ call' = [call EXCEPT ![s] = c]
Return(s) == call' = [call EXCEPT ![s] = Idle]
Reading == UNCHANGED <<sos, newest, helper>>

Move(r, row, actor) ==
    /\ sos' = [sos EXCEPT ![r] = row]
    /\ newest' = [newest EXCEPT ![r] = [status |-> row.status, actor |-> actor]]

-----------------------------------------------------------------------------
(* Create: one insert.  A client_id that exists returns the request it     *)
(* made; the index of open requests per device refuses a second one.       *)

Create(r) ==
    /\ ~Exists(r)
    /\ \A q \in Requests : DeviceOf[q] = DeviceOf[r] => ~IsOpen(q)
    /\ Move(r, [status |-> "waiting", helper |-> None], "requester")
    /\ UNCHANGED <<helper, call>>

(* UpdateStatus and Transition.                                            *)

BeginUpdate(s, d, r, to) ==
    LET role == RoleOf(sos[r], r, d)
    IN  /\ Exists(r)
        /\ CanTransition(sos[r].status, to, role)
        /\ Enter(s, [op |-> "update", req |-> r, device |-> d, role |-> role,
                     from |-> sos[r].status, to |-> to])
        /\ Reading

\* "waiting" as a target: the helper withdrew, back to the pool.
Moved(row, to) ==
    [status |-> to, helper |-> IF to = "waiting" THEN None ELSE row.helper]

StillAt(row, from) == row.status = from

AnyHelper(row, c) == TRUE

\* A helper's move also compares the assignment.
StillAssigned(row, c) == c.role = "helper" => row.helper = c.device

CommitUpdate(s) ==
    LET c == call[s]
        row == sos[c.req]
        unchanged == StillAt(row, c.from) /\ StillAssigned(row, c)
    IN  /\ c.op = "update"
        /\ \/ unchanged /\ Move(c.req, Moved(row, c.to), c.role)
           \/ ~unchanged /\ UNCHANGED <<sos, newest>>
        /\ Return(s)
        /\ UNCHANGED helper

-----------------------------------------------------------------------------
(* Accept: read the helper, read the request, claim it.                    *)

\* A request's id is a random uuid, so nobody asks for one that is not there.
BeginAccept(s, d, r) ==
    /\ Exists(r)
    /\ helper[d].active
    /\ Enter(s, [op |-> "asking", req |-> r, device |-> d, caps |-> helper[d].caps])
    /\ Reading

DecideAccept(s) ==
    LET c == call[s]
        fits == /\ DeviceOf[c.req] # c.device
                /\ sos[c.req].status = "waiting"
                /\ CanAnswer(TypeOf[c.req], c.caps)
    IN  /\ c.op = "asking"
        /\ \/ /\ fits
              /\ call' = [call EXCEPT ![s] =
                     [op |-> "accept", req |-> c.req, device |-> c.device]]
           \/ ~fits /\ Return(s)
        /\ Reading

OneMore(d) == Cardinality(Held(d)) <= MaxActive
HasRoom(d) == Cardinality(Held(d)) < MaxActive

NotClosed(row) == row.status \notin ClosedStatus
Unclaimed(row) == row.status = "waiting"

\* The helper's row lock serializes one helper's accepts; helpers who race
\* for one request compare its status.
CommitAccept(s) ==
    LET c == call[s]
        claims == /\ helper[c.device].active
                  /\ HasRoom(c.device)
                  /\ Unclaimed(sos[c.req]) /\ DeviceOf[c.req] # c.device
    IN  /\ c.op = "accept"
        /\ \/ /\ claims
              /\ Move(c.req, [status |-> "matched", helper |-> c.device], "helper")
           \/ ~claims /\ UNCHANGED <<sos, newest>>
        /\ Return(s)
        /\ UNCHANGED helper

-----------------------------------------------------------------------------
(* The helper's profile and position.                                      *)

\* SaveHelper replaces the profile; without a position it keeps the one read.
BeginSave(s, d, active, profile, place) ==
    LET kept == IF place = None THEN helper[d].place ELSE place
    IN  /\ Enter(s, [op |-> "save", device |-> d,
                     row |-> [exists |-> TRUE, active |-> active,
                              caps |-> profile.caps, radius |-> profile.radius,
                              place |-> kept]])
        /\ Reading

CommitSave(s) ==
    /\ call[s].op = "save"
    /\ helper' = [helper EXCEPT ![call[s].device] = call[s].row]
    /\ Return(s)
    /\ UNCHANGED <<sos, newest>>

\* Nearby records where the helper is.
BeginNearby(s, d, place) ==
    /\ helper[d].active
    /\ Enter(s, [op |-> "nearby", device |-> d, place |-> place])
    /\ Reading

CommitNearby(s) ==
    /\ call[s].op = "nearby"
    /\ helper' = [helper EXCEPT ![call[s].device].place = call[s].place]
    /\ Return(s)
    /\ UNCHANGED <<sos, newest>>

\* The process dies, the client hangs up or the database refuses.
Abort(s) ==
    /\ call[s] # Idle
    /\ Return(s)
    /\ Reading

-----------------------------------------------------------------------------

Init ==
    /\ sos = [r \in Requests |-> NoRequest]
    /\ newest = [r \in Requests |-> [status |-> "absent", actor |-> "nobody"]]
    /\ helper = [d \in Devices |-> NoHelper]
    /\ call = [s \in Sessions |-> Idle]

Request(s, d, r) ==
    \/ \E to \in Status : BeginUpdate(s, d, r, to)
    \/ BeginAccept(s, d, r)

Profile(s, d) ==
    \/ \E active \in BOOLEAN, profile \in Profiles, place \in Places \cup {None} :
           BeginSave(s, d, active, profile, place)
    \/ \E place \in Places : BeginNearby(s, d, place)

Step(s) ==
    \/ \E d \in Devices, r \in Requests : Request(s, d, r)
    \/ \E d \in Volunteers : Profile(s, d)
    \/ DecideAccept(s)
    \/ CommitUpdate(s)
    \/ CommitAccept(s)
    \/ CommitSave(s)
    \/ CommitNearby(s)
    \/ Abort(s)

Next ==
    \/ \E r \in Requests : Create(r)
    \/ \E s \in Sessions : Step(s)

Spec == Init /\ [][Next]_vars

-----------------------------------------------------------------------------
(* Invariants.                                                             *)

\* Every variable has its type; a waiting request has no helper and an
\* assigned or completed one has (Rows), however helpers withdraw and race.
TypeOK ==
    /\ sos \in [Requests -> Rows]
    /\ newest \in [Requests -> [status : Status \cup {"absent"},
                                actor : Role \cup {"nobody"}]]
    /\ helper \in [Devices -> HelperRows]
    /\ call \in [Sessions -> Calls]

\* "Nobody can claim a whole area's requests" (sos.go:192): a helper's
\* parallel accepts together never hold more than the cap.
AssignmentsBounded == \A d \in Devices : Cardinality(Held(d)) <= MaxActive

\* The audit trail's newest row is the request's status, by a party who may
\* bring it there: a helper assigns, moves on and withdraws, the requester
\* cancels, whatever roles they had when they asked.
MayBring(status) ==
    CASE status \in AssignedStatus -> {"helper"}
      [] status \in {"waiting", "completed"} -> Role
      [] status = "cancelled" -> {"requester"}
      [] OTHER -> {"nobody"}

TrailNamesTheActor ==
    \A r \in Requests :
        newest[r].status = sos[r].status /\ newest[r].actor \in MayBring(sos[r].status)

-----------------------------------------------------------------------------
(* What a step may never do.                                               *)

\* Every status change is one the state machine allows, so a closed request
\* stays closed and a job is neither skipped ahead nor taken back by a stale
\* call.
StatusMoves ==
    {<<t[1], t[2]>> : t \in Transitions}
    \cup {<<"absent", "waiting">>, <<"waiting", "matched">>}

OnlyAllowedMoves ==
    [][\A r \in Requests :
           sos'[r] # sos[r] => <<sos[r].status, sos'[r].status>> \in StatusMoves]_vars

\* A request is never taken over: its helper stays until they withdraw, which
\* puts the request back to the pool, so two helpers can never both win.
NeverTakenOver ==
    [][\A r \in Requests :
           sos[r].helper # None =>
               \/ sos'[r].helper = sos[r].helper
               \/ sos'[r] = [status |-> "waiting", helper |-> None]]_vars

\* A helper moves only a request they are assigned to when the move commits:
\* one who withdrew does not move the next helper's.
OnlyTheAssignedHelperActs ==
    [][\A s \in Sessions :
           /\ call[s].op = "update" /\ call[s].role = "helper"
           /\ call'[s] # call[s] /\ sos' # sos
           => sos[call[s].req].helper = call[s].device]_vars
=============================================================================
