---------------------------- MODULE ImageCleanup ----------------------------
(***************************************************************************)
(* The daily job that deletes images nothing needs any more                *)
(* (application/imagecleanup/service.go), run by every replica under an    *)
(* advisory lock, beside the reports that are created and voted on.        *)
(*                                                                         *)
(* A run queries the reports that ended long ago, and for each one checks  *)
(* it again, deletes its image from the bucket and clears its key; then it *)
(* lists the bucket, asks for each old object whether anything refers to   *)
(* it and deletes those nothing does.  Every one of these is a statement   *)
(* or a request of its own: reports change between any two.                *)
(***************************************************************************)
EXTENDS Reports

CONSTANTS
    Workers,              \* the replicas of the API
    OrphanRetention, ResolvedRetention, BatchSize,
    MaxFaults,            \* bound of crashes, lost connections and refusals
    Gone                  \* an object that was deleted

ASSUME CleanupPolicyIsValid ==
    /\ OrphanRetention \in Nat \ {0} /\ ResolvedRetention \in Nat \ {0}
    /\ BatchSize \in Nat \ {0}
ASSUME WorkersAreNotNone == None \notin Workers
ASSUME FaultsAreNat == MaxFaults \in Nat
ASSUME GoneIsNothingElse == Gone \notin Nat /\ Gone # None

VARIABLES
    object,    \* the bucket: when an image was uploaded, None before, Gone after
    lock,      \* the replica whose session holds the advisory lock
    up,        \* the replicas that are running
    pass,      \* how far each replica's cleanup pass is
    faults

cleanup == <<object, lock, up, pass, faults>>
allVars == <<vars, cleanup>>

-----------------------------------------------------------------------------
(* The rules.                                                              *)

\* What a report's retention counts from.
EndedAt(row) == IF row.resolved # None THEN row.resolved ELSE row.expires

PastRetention(row, now) == EndedAt(row) <= now - ResolvedRetention

Due(row, now) == row.image # None /\ PastRetention(row, now)

CandidatesOfResolved(now) ==
    {[req |-> r, key |-> report[r].image, ended |-> EndedAt(report[r])] :
        r \in {q \in Reports : Due(report[q], now) /\ report[q].resolved # None}}

Candidates(now) ==
    {[req |-> r, key |-> report[r].image, ended |-> EndedAt(report[r])] :
        r \in {q \in Reports : Due(report[q], now)}}

\* The oldest of them, BatchSize at most.
Batches(cands) ==
    {batch \in SUBSET cands :
        /\ Cardinality(batch) <= BatchSize
        /\ Cardinality(batch) < BatchSize => batch = cands
        /\ \A b \in batch, c \in cands \ batch : b.ended <= c.ended}

ImageKeyReferenced(k) == \E r \in Reports : report[r].image = k

OlderThan(cutoff) == {k \in Images : object[k] \in Nat /\ object[k] <= cutoff}

ClearImage(r, k) == report' = [report EXCEPT ![r].image = None]

ClearImageIfUnchanged(r, k) ==
    report' = IF report[r].image = k THEN [report EXCEPT ![r].image = None] ELSE report

Asleep == [at |-> "asleep"]

\* The advisory lock once a session of w is over, or once w unlocked it.
StillLocked(w) == lock

Unlocked(w) == IF lock = w THEN None ELSE lock

\* A fault happens.
Fault == faults < MaxFaults /\ faults' = faults + 1

On(w, at) == up[w] /\ pass[w].at = at
Go(w, next) == pass' = [pass EXCEPT ![w] = next]

-----------------------------------------------------------------------------
(* runImageCleanup and TryAdvisoryLock.                                    *)

\* The schedule fires: take the lock.  When another session holds it the
\* release function is nil, and the deferred call of it panics.  The cron of the
\* process does not recover: the replica goes down.
NeverHeld == FALSE

HeldElsewhere == lock # None

Fire(w) ==
    /\ On(w, "asleep")
    /\ \/ /\ ~HeldElsewhere
          /\ lock' = w
          /\ Go(w, [at |-> "query", now |-> clock])
          /\ UNCHANGED up
       \/ /\ HeldElsewhere
          /\ up' = [up EXCEPT ![w] = FALSE]
          /\ UNCHANGED <<lock, pass>>
    /\ UNCHANGED <<vars, object, faults>>

Release(w) ==
    /\ On(w, "release")
    /\ lock' = Unlocked(w)
    /\ Go(w, Asleep)
    /\ UNCHANGED <<vars, object, up, faults>>

-----------------------------------------------------------------------------
(* cleanReportImages: one candidate after the other.                       *)

Query(w) ==
    LET p == pass[w]
    IN  /\ On(w, "query")
        /\ \/ /\ \E batch \in Batches(Candidates(p.now)) :
                     Go(w, [at |-> "reports", now |-> p.now, todo |-> batch])
              /\ UNCHANGED faults
           \/ Fault /\ Go(w, [at |-> "reports", now |-> p.now, todo |-> {}])
        /\ UNCHANGED <<vars, object, lock, up>>

\* "Deleted, or the image moved on since the candidate was read": skipped.
RevalidateReport(w) ==
    LET p == pass[w]
        Eligible(c) == report[c.req].image = c.key /\ PastRetention(report[c.req], p.now)
    IN  /\ On(w, "reports")
        /\ \E c \in p.todo :
               /\ \A d \in p.todo : c.ended <= d.ended
               /\ \/ /\ Eligible(c)
                     /\ Go(w, [at |-> "delete", now |-> p.now, todo |-> p.todo \ {c},
                               cur |-> c])
                     /\ UNCHANGED faults
                  \/ /\ \/ ~Eligible(c) /\ UNCHANGED faults
                        \/ Fault
                     /\ Go(w, [at |-> "reports", now |-> p.now, todo |-> p.todo \ {c}])
        /\ UNCHANGED <<vars, object, lock, up>>

NextCandidate(w) == Go(w, [at |-> "reports", now |-> pass[w].now, todo |-> pass[w].todo])

\* The object store deletes, or refuses and the candidate is left for a later
\* run.  Deleting what is not there succeeds.
DeleteImage(w) ==
    /\ On(w, "delete")
    /\ \/ /\ object' = [object EXCEPT ![pass[w].cur.key] = Gone]
          /\ Go(w, [at |-> "clear", now |-> pass[w].now, todo |-> pass[w].todo,
                    cur |-> pass[w].cur])
          /\ UNCHANGED faults
       \/ Fault /\ NextCandidate(w) /\ UNCHANGED object
    /\ UNCHANGED <<vars, lock, up>>

\* The key is cleared, or the database fails and a later run clears it.
ClearReport(w) ==
    /\ On(w, "clear")
    /\ \/ ClearImageIfUnchanged(pass[w].cur.req, pass[w].cur.key) /\ UNCHANGED faults
       \/ Fault /\ UNCHANGED report
    /\ NextCandidate(w)
    /\ UNCHANGED <<vote, complaint, told, call, clock, object, lock, up>>

-----------------------------------------------------------------------------
(* cleanOrphans: list, check each, delete in one batch.                    *)

ListObjects(w) ==
    LET p == pass[w]
    IN  /\ On(w, "reports") /\ p.todo = {}
        /\ \/ /\ Go(w, [at |-> "check", listed |-> OlderThan(p.now - OrphanRetention),
                        orphans |-> {}])
              /\ UNCHANGED faults
           \/ Fault /\ Go(w, [at |-> "release"])
        /\ UNCHANGED <<vars, object, lock, up>>

CheckReference(w) ==
    LET p == pass[w]
        Checked(k, more) == Go(w, [at |-> "check", listed |-> p.listed \ {k},
                                   orphans |-> p.orphans \cup more])
    IN  /\ On(w, "check")
        /\ \E k \in p.listed :
               \/ ImageKeyReferenced(k) /\ Checked(k, {}) /\ UNCHANGED faults
               \/ ~ImageKeyReferenced(k) /\ Checked(k, {k}) /\ UNCHANGED faults
               \/ Fault /\ Checked(k, {})
        /\ UNCHANGED <<vars, object, lock, up>>

\* The whole batch, or what the object store does not refuse of it.
DeleteOrphans(w) ==
    LET p == pass[w]
    IN  /\ On(w, "check") /\ p.listed = {}
        /\ \E deleted \in SUBSET p.orphans :
               /\ object' = [k \in Images |-> IF k \in deleted THEN Gone ELSE object[k]]
               /\ IF deleted = p.orphans THEN UNCHANGED faults ELSE Fault
        /\ Go(w, [at |-> "release"])
        /\ UNCHANGED <<vars, lock, up>>

-----------------------------------------------------------------------------
(* What happens to replicas, and who uploads.                              *)

\* The process dies and the database ends its session.
Crash(w) ==
    /\ up[w] /\ Fault
    /\ up' = [up EXCEPT ![w] = FALSE]
    /\ Go(w, Asleep)
    /\ lock' = Unlocked(w)
    /\ UNCHANGED <<vars, object>>

Restart(w) ==
    /\ ~up[w]
    /\ up' = [up EXCEPT ![w] = TRUE]
    /\ UNCHANGED <<vars, object, lock, pass, faults>>

\* Only the session that holds the lock is lost; the pass does not notice.
LoseConnection(w) ==
    /\ lock = w /\ Fault
    /\ lock' = None
    /\ UNCHANGED <<vars, object, up, pass>>

\* The URL an image is uploaded with expires long before a retention does.
Upload(k) ==
    /\ object[k] = None
    /\ object' = [object EXCEPT ![k] = clock]
    /\ UNCHANGED <<vars, lock, up, pass, faults>>

\* Clients name an image after they uploaded it, maybe long after.
Uploaded == {k \in Images : object[k] # None}

ReportStep ==
    /\ \/ \E r \in Reports, image \in Uploaded \cup {None} : Create(r, image)
       \/ \E s \in Sessions, d \in Devices, r \in Reports, status \in Votes,
             image \in Uploaded \cup {None} :
              BeginConfirm(s, d, r, status, clock, image)
       \/ \E s \in Sessions : CommitConfirm(s) \/ Abort(s)
       \/ Tick
    /\ UNCHANGED cleanup

PassStep(w) ==
    \/ Release(w) \/ Query(w) \/ RevalidateReport(w) \/ DeleteImage(w)
    \/ ClearReport(w) \/ ListObjects(w) \/ CheckReference(w) \/ DeleteOrphans(w)

CleanupInit ==
    /\ Init
    /\ object = [k \in Images |-> None]
    /\ lock = None
    /\ up = [w \in Workers |-> TRUE]
    /\ pass = [w \in Workers |-> Asleep]
    /\ faults = 0

\* What a replica does by itself.
WorkerStep(w) == Fire(w) \/ PassStep(w) \/ Restart(w)

CleanupNext ==
    \/ ReportStep
    \/ \E k \in Images : Upload(k)
    \/ \E w \in Workers : WorkerStep(w) \/ Crash(w) \/ LoseConnection(w)

CleanupSpec == CleanupInit /\ [][CleanupNext]_allVars

\* Replicas that went down are started again, the schedule fires every day and
\* a pass goes on until it ends.  Nobody is obliged to report or to vote.
CleanupFairSpec ==
    /\ CleanupSpec
    /\ \A w \in Workers : WF_allVars(WorkerStep(w))

-----------------------------------------------------------------------------
(* Invariants.                                                             *)

\* "At most one replica runs it at a time" (advisory_lock.go:10): two passes
\* are under way only after the lock's connection was lost.  And the lock is
\* held by a replica in a pass, which will release it, or it were kept for good.
OnePassAtATime ==
    /\ faults = 0 => \A v, w \in Workers :
           pass[v] # Asleep /\ pass[w] # Asleep => v = w
    /\ lock # None => up[lock] /\ pass[lock] # Asleep

-----------------------------------------------------------------------------
(* What a step may never do, and what comes in the end.                    *)

\* A report's image key is cleared only after that object is gone, so a report
\* that was given another image keeps it (service.go:74, ClearImageIfUnchanged).
ClearedAfterGone ==
    [][\A r \in Reports :
           report[r].image # None /\ report'[r].image = None
               => object[report[r].image] = Gone]_allVars

\* A report past retention loses its image unless it becomes live again,
\* whatever crashes, refusals and lost connections happen before.
EndedReportsLoseImages ==
    \A r \in Reports :
        Due(report[r], clock) ~> ~Due(report[r], clock)

Orphaned(k) ==
    object[k] \in Nat /\ object[k] <= clock - OrphanRetention
    /\ ~ \E r \in Reports : report[r].image = k

\* An old object nothing refers to is deleted unless something refers to it
\* again: replaced images and abandoned uploads do not stay for ever.
OrphansGo == \A k \in Images : Orphaned(k) ~> ~Orphaned(k)
=============================================================================
