----------------------------- MODULE RunWorker -----------------------------
(***************************************************************************)
(* The run queue and the worker thread that drains it (worker.RunWorker),  *)
(* around the run engine (runner.AuctionRunEngine.run), in the deployment  *)
(* main.create_app builds: one process, one worker thread, an HTTP API     *)
(* beside it.  Every action is one committed SQLite transaction, or one    *)
(* decision between two of them; a read is merged with the write that      *)
(* follows it only when no other actor writes what was read.               *)
(*                                                                         *)
(* The database outlives the process: a crash loses the variables under    *)
(* "worker" and nothing else.  Time is abstracted to two facts, whether a  *)
(* requeued row's delay is over and whether the lease has expired, which   *)
(* makes the model cover every ratio of the two delays.                    *)
(***************************************************************************)
EXTENDS Integers, Sequences, FiniteSets

CONSTANTS
  NumJobs,      \* rows the queue ever holds, numbered in enqueue order
  Profiles,     \* profile ids
  System,       \* the profiles seeded by the program, which cannot be deleted
  Matches,      \* what a snapshot lists: an opportunity with its score and terms
  ModeOf,       \* notification_mode of each profile
  DismissedBy,  \* what the user of each profile has dismissed
  MaxAttempts,  \* RunWorker.max_attempts
  MaxCrashes,   \* bound: how often the process dies
  MaxErrors     \* bound: how often a call of the worker raises

Modes == {"disabled", "matches", "matches_or_failure"}

ASSUME BoundsAssumption ==
  /\ NumJobs \in Nat /\ MaxCrashes \in Nat /\ MaxErrors \in Nat
  /\ MaxAttempts \in Nat \ {0}
ASSUME PolicyAssumption ==
  /\ System \subseteq Profiles
  /\ ModeOf \in [Profiles -> Modes]
  /\ DismissedBy \in [Profiles -> SUBSET Matches]

Jobs == 1..NumJobs
NoJob == 0

VARIABLES
  \* the database
  profile,       \* profiles: "enabled", "paused" or "absent"
  queueStatus,   \* run_queue.status; "none" before the row, "deleted" after it
  profileOf,     \* run_queue.profile_id
  attempt,       \* run_queue.attempt
  available,     \* run_queue.available_at <= now
  runStatus,     \* runs.status
  bound,         \* run_profiles: the runs bound to their profile
  leaseOwner,    \* run_leases.run_id of the "run-engine" row, or NoJob
  leaseExpired,  \* run_leases.expires_at <= now
  snapshots,     \* auction_snapshots, in the order of published_at
  matches,       \* what the snapshot of a run lists for its profile
  outbox,        \* notification_outbox: "none" or the type of the run's row
  \* the worker
  pc,            \* where the worker thread stands
  job,           \* the claimed job
  previous,      \* previous_snapshot, as what it lists
  victim,        \* previous_owner, when its run has to be closed
  outcome,       \* RunOutcome.status
  raising,       \* the finally clause runs under an exception
  \* bounds
  crashes, errors

queueVars  == <<queueStatus, profileOf, attempt, available>>
leaseVars  == <<leaseOwner, leaseExpired>>
snapVars   == <<snapshots, matches>>
runVars    == <<runStatus, bound>>
dbVars     == <<profile, queueVars, runVars, leaseVars, snapVars, outbox>>
localVars  == <<job, previous, victim, outcome, raising>>
faultVars  == <<crashes, errors>>
vars       == <<dbVars, pc, localVars, faultVars>>

Covered  == {"completed", "partial"}
Terminal == Covered \union {"failed"}
Active   == {"queued", "running"}

-----------------------------------------------------------------------------
(* What the database answers.  A definition that is named like another one and *)
(* stands before it, such as SettledForgetsPartial before Settled, is a seeded *)
(* fault: no action uses it, and the check that puts it in the place of the    *)
(* other shows that a property depends on the code as it is.                   *)

\* existing.status in {"completed", "partial", "failed"}
SettledForgetsPartial(j) == runStatus[j] \in {"completed", "failed"}
Settled(j) == runStatus[j] \in Terminal

\* abandoned.status == "running": the replaced owner left its run open.
AbandonedUnchecked(o) == runStatus[o] \in Terminal \union Active
Abandoned(o) == runStatus[o] = "running"

\* job.attempt < self.max_attempts
CanRetryOnceMore(j) == attempt[j] <= MaxAttempts
CanRetry(j) == attempt[j] < MaxAttempts

\* What release_run_lease deletes.
HoldsLease(j) == leaseOwner = j

\* The queue rows that stop a profile from being deleted.
BlocksDeleteQueuedOnly(j) == queueStatus[j] = "queued"
BlocksDelete(j) == queueStatus[j] \in Active

\* What recover_interrupted makes of a row.
RecoveredNothing(j) == queueStatus[j]
Recovered(j) == IF queueStatus[j] = "running" THEN "queued" ELSE queueStatus[j]

\* The rows claim_next selects from.
Claimable == {j \in Jobs : queueStatus[j] = "queued" /\ available[j]}

\* Positions in `snapshots' before n that latest_snapshot_for_profile(p) sees.
SnapshotsOf(p, n) ==
  {i \in 1..Len(snapshots) : i < n /\ snapshots[i] \in bound /\ profileOf[snapshots[i]] = p}

\* What the newest of those snapshots lists, nothing when there is none.
LatestMatches(p, n) ==
  UNION {matches[snapshots[i]] :
           i \in {k \in SnapshotsOf(p, n) : \A l \in SnapshotsOf(p, n) : l <= k}}

\* What run_once keeps as previous_snapshot for a profile.
PreviousUnscoped(p) ==
  UNION {matches[snapshots[i]] : i \in {k \in 1..Len(snapshots) : k = Len(snapshots)}}
Previous(p) == LatestMatches(p, Len(snapshots) + 1)

Published(j) == \E i \in 1..Len(snapshots) : snapshots[i] = j

\* What the planner would report: a removal only counts when the sources were
\* complete, and a dismissed opportunity never does.
Changes(p, status, new, old) ==
  ((new \ old) \union (IF status = "completed" THEN old \ new ELSE {})) \ DismissedBy[p]

PlannedWithoutSnapshot(j, status, old) ==
  LET p == profileOf[j]
  IN CASE status = "failed" /\ ModeOf[p] = "matches_or_failure" -> "failure"
       [] status # "failed" /\ ModeOf[p] # "disabled"
            /\ Changes(p, status, matches[j], old) # {}        -> "matches"
       [] OTHER                                                -> "none"

\* The row NotificationPlanner.plan writes for the run of j, "none" if it
\* returns None.  A run without a snapshot has nothing to compare.
Planned(j, status, old) ==
  LET p == profileOf[j]
      changed == IF Published(j) THEN Changes(p, status, matches[j], old) ELSE {}
  IN CASE status = "failed" /\ ModeOf[p] = "matches_or_failure"                -> "failure"
       [] status # "failed" /\ ModeOf[p] # "disabled" /\ changed # {}          -> "matches"
       [] OTHER                                                                -> "none"

-----------------------------------------------------------------------------
Init ==
  /\ profile = [p \in Profiles |-> "enabled"]
  /\ queueStatus = [j \in Jobs |-> "none"]
  /\ profileOf \in [Jobs -> Profiles]
  /\ attempt = [j \in Jobs |-> 0]
  /\ available = [j \in Jobs |-> FALSE]
  /\ runStatus = [j \in Jobs |-> "none"]
  /\ bound = {}
  /\ leaseOwner = NoJob
  /\ leaseExpired = FALSE
  /\ snapshots = <<>>
  /\ matches = [j \in Jobs |-> {}]
  /\ outbox = [j \in Jobs |-> "none"]
  /\ pc = "down"
  /\ job = NoJob /\ previous = {} /\ victim = NoJob
  /\ outcome = "none" /\ raising = FALSE
  /\ crashes = 0 /\ errors = 0

Goto(next) == pc' = next /\ UNCHANGED localVars

\* The locals go out of scope.
Forget(next) ==
  /\ pc' = next
  /\ job' = NoJob /\ previous' = {} /\ victim' = NoJob
  /\ outcome' = "none" /\ raising' = FALSE

-----------------------------------------------------------------------------
(* The API, the scheduler and the clock *)

\* RunQueueRepository.enqueue under a new idempotency key: the queue row and
\* its run are one transaction.  The foreign key asks that the profile exists;
\* that it is enabled was checked by the caller, in an earlier transaction.
\* The profile of the next row was fixed by Init.
Enqueue(j) ==
  /\ queueStatus[j] = "none"
  /\ \A i \in Jobs : i < j => queueStatus[i] # "none"
  /\ profile[profileOf[j]] # "absent"
  /\ queueStatus' = [queueStatus EXCEPT ![j] = "queued"]
  /\ available' = [available EXCEPT ![j] = TRUE]
  /\ runStatus' = [runStatus EXCEPT ![j] = "queued"]
  /\ UNCHANGED <<profile, profileOf, attempt, bound, leaseVars, snapVars, outbox,
                 pc, localVars, faultVars>>

\* pause_profile and resume_profile.
SetEnabled(p, enabled) ==
  /\ profile[p] # "absent"
  /\ profile' = [profile EXCEPT ![p] = IF enabled THEN "enabled" ELSE "paused"]
  /\ UNCHANGED <<queueVars, runVars, leaseVars, snapVars, outbox, pc, localVars, faultVars>>

\* ProfileRepository.delete: refused while a queue row of the profile is queued
\* or running; otherwise the outbox, queue and run_profiles rows go with it.
\* The run rows and the snapshots stay.
DeleteProfile(p) ==
  LET mine == {j \in Jobs : profileOf[j] = p /\ queueStatus[j] # "none"} IN
  /\ p \notin System
  /\ profile[p] # "absent"
  /\ \A j \in mine : ~BlocksDelete(j)
  /\ profile' = [profile EXCEPT ![p] = "absent"]
  /\ queueStatus' = [j \in Jobs |-> IF j \in mine THEN "deleted" ELSE queueStatus[j]]
  /\ outbox' = [j \in Jobs |-> IF j \in mine THEN "none" ELSE outbox[j]]
  /\ bound' = bound \ mine
  /\ UNCHANGED <<profileOf, attempt, available, runStatus, leaseVars, snapVars,
                 pc, localVars, faultVars>>

\* The five seconds of requeue are over.
DelayElapses(j) ==
  /\ queueStatus[j] = "queued"
  /\ ~available[j]
  /\ available' = [available EXCEPT ![j] = TRUE]
  /\ UNCHANGED <<profile, queueStatus, profileOf, attempt, runVars, leaseVars,
                 snapVars, outbox, pc, localVars, faultVars>>

\* The five minutes of LEASE_TTL are over, whatever the owner is doing.
LeaseExpires ==
  /\ leaseOwner # NoJob
  /\ ~leaseExpired
  /\ leaseExpired' = TRUE
  /\ UNCHANGED <<profile, queueVars, runVars, leaseOwner, snapVars, outbox,
                 pc, localVars, faultVars>>

\* The process ends, between any two transactions.
Crash ==
  /\ pc # "down"
  /\ crashes < MaxCrashes
  /\ crashes' = crashes + 1
  /\ Forget("down")
  /\ UNCHANGED <<dbVars, errors>>

\* A process starts: RunWorker.__init__ calls recover_interrupted.
Boot ==
  /\ pc = "down"
  /\ Forget("idle")
  /\ queueStatus' = [j \in Jobs |-> Recovered(j)]
  /\ available' = [j \in Jobs |-> available[j] \/ queueStatus[j] = "running"]
  /\ UNCHANGED <<profile, profileOf, attempt, runVars, leaseVars, snapVars, outbox, faultVars>>

-----------------------------------------------------------------------------
(* RunWorker.run_once and AuctionRunEngine.run *)

\* claim_next: the oldest row whose delay is over.
Claim ==
  /\ pc = "idle"
  /\ \E j \in Claimable :
       /\ \A i \in Claimable : j <= i
       /\ queueStatus' = [queueStatus EXCEPT ![j] = "running"]
       /\ attempt' = [attempt EXCEPT ![j] = @ + 1]
       /\ job' = j
  /\ pc' = "claimed"
  /\ UNCHANGED <<profile, profileOf, available, runVars, leaseVars, snapVars, outbox,
                 previous, victim, outcome, raising, faultVars>>

\* The previous snapshot is read, then the engine looks at the run: a run
\* that is already settled is answered as it stands, the lease untouched.
Start ==
  /\ pc = "claimed"
  /\ previous' = Previous(profileOf[job])
  /\ IF Settled(job)
       THEN pc' = "finish" /\ outcome' = runStatus[job]
       ELSE pc' = "lease" /\ UNCHANGED outcome
  /\ UNCHANGED <<dbVars, job, victim, raising, faultVars>>

\* acquire_run_lease finds an owner that is alive: RunLeaseBusyError.
LeaseBusy ==
  /\ pc = "lease"
  /\ leaseOwner \notin {NoJob, job} /\ ~leaseExpired
  /\ Goto("handle")
  /\ UNCHANGED <<dbVars, faultVars>>

\* acquire_run_lease succeeds, also for its own run.  The replaced owner's run
\* is read at once: no one else writes it before Abandon.
AcquireLease ==
  /\ pc = "lease"
  /\ leaseOwner \in {NoJob, job} \/ leaseExpired
  /\ leaseOwner' = job
  /\ leaseExpired' = FALSE
  /\ IF leaseOwner \notin {NoJob, job} /\ Abandoned(leaseOwner)
       THEN pc' = "abandon" /\ victim' = leaseOwner
       ELSE pc' = "load" /\ UNCHANGED victim
  /\ UNCHANGED <<profile, queueVars, runVars, snapVars, outbox,
                 job, previous, outcome, raising, faultVars>>

\* The replaced owner's run is closed with "run lease expired".
Abandon ==
  /\ pc = "abandon"
  /\ runStatus' = [runStatus EXCEPT ![victim] = "failed"]
  /\ victim' = NoJob
  /\ pc' = "load"
  /\ UNCHANGED <<profile, queueVars, bound, leaseVars, snapVars, outbox,
                 job, previous, outcome, raising, faultVars>>

\* _load_profiles finds the profile missing or paused: ValueError.
ProfileUnusable ==
  /\ pc = "load"
  /\ profile[profileOf[job]] # "enabled"
  /\ Goto("except")
  /\ UNCHANGED <<dbVars, faultVars>>

\* The profile is loaded and the run set running.  The engine looks once more
\* whether the run is settled; with one worker that repeats the test of Start.
LoadProfile ==
  /\ pc = "load"
  /\ profile[profileOf[job]] = "enabled"
  /\ runStatus' = [runStatus EXCEPT ![job] = "running"]
  /\ Goto("bind")
  /\ UNCHANGED <<profile, queueVars, bound, leaseVars, snapVars, outbox, faultVars>>

\* record_run_profile.
BindProfile ==
  /\ pc = "bind"
  /\ bound' = bound \union {job}
  /\ Goto("execute")
  /\ UNCHANGED <<profile, queueVars, runStatus, leaseVars, snapVars, outbox, faultVars>>

\* _execute up to update_run: the sources decide the status (_run_status), and
\* a failed run returns without a snapshot.
Execute ==
  /\ pc = "execute"
  /\ \E status \in Terminal :
       /\ runStatus' = [runStatus EXCEPT ![job] = status]
       /\ outcome' = status
       /\ pc' = IF status = "failed" THEN "release" ELSE "snapshot"
  /\ UNCHANGED <<profile, queueVars, bound, leaseVars, snapVars, outbox,
                 job, previous, victim, raising, faultVars>>

\* record_snapshot, in a transaction of its own, of whatever was matched.
RecordSnapshot ==
  /\ pc = "snapshot"
  /\ snapshots' = Append(snapshots, job)
  /\ \E found \in SUBSET Matches : matches' = [matches EXCEPT ![job] = found]
  /\ Goto("release")
  /\ UNCHANGED <<profile, queueVars, runVars, leaseVars, outbox, faultVars>>

\* The except clause of the engine: a run that is still open is closed and its
\* failure returned, any other run lets the exception through.
ExceptEngine ==
  /\ pc = "except"
  /\ pc' = "release"
  /\ IF runStatus[job] \in Active
       THEN /\ runStatus' = [runStatus EXCEPT ![job] = "failed"]
            /\ outcome' = "failed"
            /\ UNCHANGED raising
       ELSE raising' = TRUE /\ UNCHANGED <<runStatus, outcome>>
  /\ UNCHANGED <<profile, queueVars, bound, leaseVars, snapVars, outbox,
                 job, previous, victim, faultVars>>

\* The finally clause: release_run_lease deletes the lease of this run only.
ReleaseLease ==
  /\ pc = "release"
  /\ IF HoldsLease(job)
       THEN leaseOwner' = NoJob /\ leaseExpired' = FALSE
       ELSE UNCHANGED leaseVars
  /\ Goto(IF raising THEN "handle" ELSE "finish")
  /\ UNCHANGED <<profile, queueVars, runVars, snapVars, outbox, faultVars>>

\* queue.finish with the engine's outcome.
Finish ==
  /\ pc = "finish"
  /\ queueStatus' = [queueStatus EXCEPT ![job] = outcome]
  /\ Goto("plan")
  /\ UNCHANGED <<profile, profileOf, attempt, available, runVars, leaseVars, snapVars,
                 outbox, faultVars>>

\* The profile is read again, then the planner decides: nothing to say.
PlanNothing ==
  /\ pc = "plan"
  /\ profile[profileOf[job]] = "absent" \/ Planned(job, outcome, previous) = "none"
  /\ Forget("idle")
  /\ UNCHANGED <<dbVars, faultVars>>

PlanNotification ==
  /\ pc = "plan"
  /\ profile[profileOf[job]] # "absent"
  /\ Planned(job, outcome, previous) # "none"
  /\ Goto("enqueue")
  /\ UNCHANGED <<dbVars, faultVars>>

\* NotificationRepository.enqueue: the dedupe key names the run, so a row that
\* is already there stays.
EnqueueNotification ==
  /\ pc = "enqueue"
  /\ profile[profileOf[job]] # "absent"
  /\ outbox' = [outbox EXCEPT ![job] =
                  IF @ = "none" THEN Planned(job, outcome, previous) ELSE @]
  /\ Forget("idle")
  /\ UNCHANGED <<profile, queueVars, runVars, leaseVars, snapVars, faultVars>>

\* The profile was deleted after the planner read it: the foreign key raises.
EnqueueOrphan ==
  /\ pc = "enqueue"
  /\ profile[profileOf[job]] = "absent"
  /\ Goto("handle")
  /\ UNCHANGED <<dbVars, faultVars>>

\* The except clause of the worker, attempts left: requeue with a delay.
Requeue ==
  /\ pc = "handle"
  /\ queueStatus[job] # "deleted"
  /\ CanRetry(job)
  /\ queueStatus' = [queueStatus EXCEPT ![job] = "queued"]
  /\ available' = [available EXCEPT ![job] = FALSE]
  /\ Forget("idle")
  /\ UNCHANGED <<profile, profileOf, attempt, runVars, leaseVars, snapVars, outbox, faultVars>>

\* No attempts left: the job is finished as failed, then its run.
GiveUp ==
  /\ pc = "handle"
  /\ queueStatus[job] # "deleted"
  /\ ~CanRetry(job)
  /\ queueStatus' = [queueStatus EXCEPT ![job] = "failed"]
  /\ Goto("closeRun")
  /\ UNCHANGED <<profile, profileOf, attempt, available, runVars, leaseVars, snapVars,
                 outbox, faultVars>>

\* update_run(failed), whatever the run's status was.
CloseRun ==
  /\ pc = "closeRun"
  /\ runStatus' = [runStatus EXCEPT ![job] = "failed"]
  /\ Forget("idle")
  /\ UNCHANGED <<profile, queueVars, bound, leaseVars, snapVars, outbox, faultVars>>

\* requeue and finish raise ValueError when the row is gone, and nothing above
\* the except clause catches it: the thread ends.
RowMissing ==
  /\ pc = "handle"
  /\ queueStatus[job] = "deleted"
  /\ Forget("dead")
  /\ UNCHANGED <<dbVars, faultVars>>

\* Where an exception takes the thread: the transaction is rolled back and the
\* nearest except clause runs, if there is one.
Raised(at) ==
  CASE at = "idle"                                   -> {"dead"}
    [] at = "claimed"                                -> {"dead", "handle"}
    [] at \in {"load", "bind", "execute", "snapshot"} -> {"except"}
    [] at = "except"                                 -> {"release"}
    [] at \in {"lease", "abandon", "release", "finish", "plan", "enqueue"} -> {"handle"}
    [] at \in {"handle", "closeRun"}                 -> {"dead"}
    [] OTHER                                         -> {}

\* A call raises: the database is locked, the disk full, a mail not renderable.
CallRaises ==
  /\ errors < MaxErrors
  /\ errors' = errors + 1
  /\ \E next \in Raised(pc) :
       IF next = "dead" THEN Forget("dead")
       ELSE /\ pc' = next
            /\ raising' = (raising \/ pc = "except")
            /\ victim' = NoJob
            /\ UNCHANGED <<job, previous, outcome>>
  /\ UNCHANGED <<dbVars, crashes>>

-----------------------------------------------------------------------------
Engine ==
  \/ LeaseBusy \/ AcquireLease \/ Abandon \/ ProfileUnusable \/ LoadProfile
  \/ BindProfile \/ Execute \/ RecordSnapshot \/ ExceptEngine \/ ReleaseLease

Worker ==
  \/ Claim \/ Start \/ Engine \/ Finish
  \/ PlanNothing \/ PlanNotification \/ EnqueueNotification \/ EnqueueOrphan
  \/ Requeue \/ GiveUp \/ CloseRun \/ RowMissing

Environment ==
  \/ \E j \in Jobs : Enqueue(j) \/ DelayElapses(j)
  \/ \E p \in Profiles : DeleteProfile(p) \/ \E enabled \in BOOLEAN : SetEnabled(p, enabled)
  \/ LeaseExpires

Next == Worker \/ Boot \/ Environment \/ Crash \/ CallRaises

Spec == Init /\ [][Next]_vars

\* The thread loops for ever, the supervisor restarts the process, and the
\* clock goes on.  Nothing obliges users, faults or lease expiry.
Fairness ==
  /\ WF_vars(Worker)
  /\ WF_vars(Boot)
  /\ \A j \in Jobs : WF_vars(DelayElapses(j))

FairSpec == Spec /\ Fairness

-----------------------------------------------------------------------------
(* Properties *)

PCs == {"down", "idle", "claimed", "lease", "abandon", "load", "bind", "execute",
        "snapshot", "except", "release", "finish", "plan", "enqueue", "handle",
        "closeRun", "dead"}

\* Where the worker holds no job.
Resting == {"down", "idle", "dead"}

TypeOK ==
  /\ profile \in [Profiles -> {"enabled", "paused", "absent"}]
  /\ queueStatus \in [Jobs -> {"none", "deleted"} \union Active \union Terminal]
  /\ profileOf \in [Jobs -> Profiles]
  /\ attempt \in [Jobs -> Nat]
  /\ available \in [Jobs -> BOOLEAN]
  /\ runStatus \in [Jobs -> {"none"} \union Active \union Terminal]
  /\ bound \subseteq Jobs
  /\ leaseOwner \in Jobs \union {NoJob} /\ leaseExpired \in BOOLEAN
  /\ snapshots \in Seq(Jobs)
  /\ matches \in [Jobs -> SUBSET Matches]
  /\ outbox \in [Jobs -> {"none", "matches", "failure"}]
  /\ pc \in PCs
  /\ job \in (IF pc \in Resting THEN {NoJob} ELSE Jobs)
  /\ victim \in (IF pc = "abandon" THEN Jobs ELSE {NoJob})
  /\ previous \subseteq Matches
  /\ outcome \in {"none"} \union Terminal /\ raising \in BOOLEAN
  /\ crashes \in 0..MaxCrashes /\ errors \in 0..MaxErrors

\* The queue never reports a run as covered that the engine's own record does
\* not: whatever crashes, errors, lease takeovers and retries come between
\* update_run, queue.finish and a later takeover, a row that says completed or
\* partial agrees with the run.
CoveredAgrees ==
  \A j \in Jobs : queueStatus[j] \in Covered => runStatus[j] = queueStatus[j]

\* A run is published at most once however often it is retried: the early
\* return of AuctionRunEngine.run is what keeps a second record_snapshot away,
\* so its primary key never has to ("engine idempotency").
PublishedOnce ==
  \A i, k \in 1..Len(snapshots) : snapshots[i] = snapshots[k] => i = k

\* max_attempts bounds what the worker retries by itself.  Only a crash can
\* take a job beyond it, by one attempt for each crash, because
\* recover_interrupted requeues without looking at the attempts.
AttemptBound ==
  \A j \in Jobs : attempt[j] <= MaxAttempts + crashes

\* Where run_once holds a row that is running.
Executing == PCs \ (Resting \union {"plan", "enqueue", "handle", "closeRun"})

\* No profile is deleted under a run that works for it: the guard of delete, the
\* claim, the recovery of interrupted jobs and the requeue leave no gap.
ProfileOutlivesRun ==
  pc \in Executing => profile[profileOf[job]] # "absent"

\* No mail says what did not happen: a row about matches belongs to a published
\* run, a row about a failure to a failed run that published nothing, also when
\* the run was settled by an earlier attempt than the one that planned.
OutboxSound ==
  \A j \in Jobs :
    /\ outbox[j] = "matches" => Published(j) /\ ModeOf[profileOf[j]] # "disabled"
    /\ outbox[j] = "failure" => /\ runStatus[j] = "failed" /\ ~Published(j)
                               /\ ModeOf[profileOf[j]] = "matches_or_failure"

\* Without a crash or an exception the lease is never left behind: it belongs to
\* nobody or to the job the worker holds, on every path through the engine.
LeaseLeakNeedsFault ==
  leaseOwner \notin {NoJob, job} => crashes + errors > 0

\* A settled run stays settled: no retry, recovery or takeover reopens it, and
\* the only status it can change to is failed, when the worker gives up.
SettledStaysSettled ==
  [][\A j \in Jobs : runStatus[j] \in Terminal
        => runStatus'[j] \in {runStatus[j], "failed"}]_vars

\* Where the snapshot of j stands in the order of publication.
PositionOf(j) == CHOOSE i \in 1..Len(snapshots) : snapshots[i] = j

\* What the policy of the profile asks for: the report of a failed run, or of
\* the changes against the snapshot published before this one.
Required(j) ==
  IF queueStatus[j] = "failed" \/ ~Published(j)
    THEN Planned(j, queueStatus[j], {})
    ELSE Planned(j, queueStatus[j], LatestMatches(profileOf[j], PositionOf(j)))

\* The worker is done with j and its profile is still there.
Done(j) == queueStatus[j] \in Terminal /\ job # j

\* As long as nothing fails, a settled run has exactly the outbox row its
\* profile's policy asks for, whichever profiles ran in between.
PolicyFollowed ==
  crashes + errors = 0 => \A j \in Jobs : Done(j) => outbox[j] = Required(j)

\* Every accepted job is settled in the end, or deleted with its profile, in spite of
\* crashes, requeues and leases left behind; only the death of the worker thread, of a
\* call that nothing catches, can leave it waiting.
EveryJobSettles ==
  \A j \in Jobs :
    queueStatus[j] = "queued" ~>
      queueStatus[j] \in Terminal \union {"deleted"} \/ pc = "dead"
=============================================================================
