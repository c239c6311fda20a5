------------------------------ MODULE RunLease ------------------------------
(***************************************************************************)
(* Several processes on one database: each has a RunWorker and an engine   *)
(* of its own, and only the queue and the lease of the run engine stand    *)
(* between them.  RunWorker is the same loop in the one process of the     *)
(* add-on, with profiles and notifications; here these are left out, and   *)
(* the reads of the engine that another process can invalidate are steps   *)
(* of their own.                                                           *)
(*                                                                         *)
(* Nothing renews the lease, nothing stops an owner that has lost it, and  *)
(* a process that starts takes every running job for interrupted.  The     *)
(* history variables `late' and `stolen' record when that hits a process   *)
(* that is alive: until then the processes must not get in each other's    *)
(* way.                                                                    *)
(***************************************************************************)
EXTENDS Integers, FiniteSets

CONSTANTS
  Procs,        \* the processes
  NumJobs,      \* bound: rows the queue ever holds, in enqueue order
  MaxAttempts,  \* RunWorker.max_attempts
  MaxCrashes,   \* bound: how often a process ends
  MaxErrors     \* bound: how often a call raises

ASSUME BoundAssumption == NumJobs \in Nat /\ MaxCrashes \in Nat /\ MaxErrors \in Nat
ASSUME AttemptAssumption == MaxAttempts \in Nat \ {0}

Jobs == 1..NumJobs
NoJob == 0

VARIABLES
  \* the database
  queueStatus,  \* run_queue.status; "none" before the row
  attempt,      \* run_queue.attempt
  available,    \* run_queue.available_at <= now
  runStatus,    \* runs.status
  published,    \* runs with a row in auction_snapshots
  leaseOwner,   \* run_leases.run_id, or NoJob
  leaseExpired, \* run_leases.expires_at <= now
  \* each process
  pc,           \* where its worker stands
  job,          \* the claimed job
  victim,       \* previous_owner
  outcome,      \* RunOutcome.status
  raising,      \* the finally clause runs under an exception
  \* history and bounds
  late,         \* a lease has expired under a process that was still at work
  stolen,       \* a process has recovered the job of another one that was alive
  crashes, errors

queueVars == <<queueStatus, attempt, available>>
leaseVars == <<leaseOwner, leaseExpired>>
dbVars    == <<queueVars, runStatus, published, leaseVars>>
localVars == <<job, victim, outcome, raising>>
countVars == <<late, stolen, crashes, errors>>
vars      == <<dbVars, pc, localVars, countVars>>

Covered  == {"completed", "partial"}
Terminal == Covered \union {"failed"}

\* Between acquire_run_lease and release_run_lease.
Engine == {"look", "abandon", "load", "open", "execute", "snapshot", "except", "release"}

\* Where a process has a job in its hands.
Working == Engine \union {"claimed", "lease", "finish", "plan", "handle", "closeRun"}

-----------------------------------------------------------------------------
(* A definition that is named like another one and stands before it is a *)
(* seeded fault.                                                         *)

\* The rows claim_next selects from.
Claimable == {j \in Jobs : queueStatus[j] = "queued" /\ available[j]}

\* acquire_run_lease gives the lease to the run j.
FreeForAnyone(j) == TRUE
Free(j) == leaseOwner \in {NoJob, j} \/ leaseExpired

\* existing.status in {"completed", "partial", "failed"}
Settled(j) == runStatus[j] \in Terminal

\* abandoned.status == "running"
AbandonedUnchecked(o) == runStatus[o] # "none"
Abandoned(o) == runStatus[o] = "running"

\* release_run_lease deletes the row of its own run.
ReleasesUnlessFailed(j) == leaseOwner = j /\ runStatus[j] # "failed"
Releases(j) == leaseOwner = j

\* What recover_interrupted makes of a row.
Recovered(j) == IF queueStatus[j] = "running" THEN "queued" ELSE queueStatus[j]

-----------------------------------------------------------------------------
Init ==
  /\ queueStatus = [j \in Jobs |-> "none"]
  /\ attempt = [j \in Jobs |-> 0]
  /\ available = [j \in Jobs |-> FALSE]
  /\ runStatus = [j \in Jobs |-> "none"]
  /\ published = {}
  /\ leaseOwner = NoJob /\ leaseExpired = FALSE
  /\ pc = [p \in Procs |-> "down"]
  /\ job = [p \in Procs |-> NoJob]
  /\ victim = [p \in Procs |-> NoJob]
  /\ outcome = [p \in Procs |-> "none"]
  /\ raising = [p \in Procs |-> FALSE]
  /\ late = FALSE /\ stolen = FALSE
  /\ crashes = 0 /\ errors = 0

Goto(p, next) == pc' = [pc EXCEPT ![p] = next] /\ UNCHANGED localVars

\* The locals go out of scope.
Forget(p, next) ==
  /\ pc' = [pc EXCEPT ![p] = next]
  /\ job' = [job EXCEPT ![p] = NoJob]
  /\ victim' = [victim EXCEPT ![p] = NoJob]
  /\ outcome' = [outcome EXCEPT ![p] = "none"]
  /\ raising' = [raising EXCEPT ![p] = FALSE]

-----------------------------------------------------------------------------
(* The scheduler, the clock, the supervisor *)

Enqueue(j) ==
  /\ queueStatus[j] = "none"
  /\ \A i \in Jobs : i < j => queueStatus[i] # "none"
  /\ queueStatus' = [queueStatus EXCEPT ![j] = "queued"]
  /\ available' = [available EXCEPT ![j] = TRUE]
  /\ runStatus' = [runStatus EXCEPT ![j] = "queued"]
  /\ UNCHANGED <<attempt, published, leaseVars, pc, localVars, countVars>>

DelayElapses(j) ==
  /\ queueStatus[j] = "queued" /\ ~available[j]
  /\ available' = [available EXCEPT ![j] = TRUE]
  /\ UNCHANGED <<queueStatus, attempt, runStatus, published, leaseVars, pc, localVars, countVars>>

\* LEASE_TTL is over, whatever the owner is doing.
LeaseExpires ==
  /\ leaseOwner # NoJob /\ ~leaseExpired
  /\ leaseExpired' = TRUE
  /\ late' = (late \/ \E p \in Procs : pc[p] \in Engine /\ job[p] = leaseOwner)
  /\ UNCHANGED <<queueVars, runStatus, published, leaseOwner, pc, localVars,
                 stolen, crashes, errors>>

\* A process, or its worker thread, ends between two transactions.
Crash(p) ==
  /\ pc[p] # "down"
  /\ crashes < MaxCrashes
  /\ crashes' = crashes + 1
  /\ Forget(p, "down")
  /\ UNCHANGED <<dbVars, late, stolen, errors>>

\* RunWorker.__init__: recover_interrupted makes no difference between the jobs of
\* an earlier life of this process and those of another one.
Boot(p) ==
  /\ pc[p] = "down"
  /\ Goto(p, "idle")
  /\ queueStatus' = [j \in Jobs |-> Recovered(j)]
  /\ available' = [j \in Jobs |-> available[j] \/ queueStatus[j] = "running"]
  /\ stolen' = (stolen \/ \E q \in Procs : pc[q] \in Working /\ queueStatus[job[q]] = "running")
  /\ UNCHANGED <<attempt, runStatus, published, leaseVars, late, crashes, errors>>

-----------------------------------------------------------------------------
(* RunWorker.run_once and AuctionRunEngine.run in process p *)

Claim(p) ==
  /\ pc[p] = "idle"
  /\ \E j \in Claimable :
       /\ \A i \in Claimable : j <= i
       /\ queueStatus' = [queueStatus EXCEPT ![j] = "running"]
       /\ attempt' = [attempt EXCEPT ![j] = @ + 1]
       /\ job' = [job EXCEPT ![p] = j]
  /\ pc' = [pc EXCEPT ![p] = "claimed"]
  /\ UNCHANGED <<available, runStatus, published, leaseVars, victim, outcome, raising, countVars>>

\* A run that is already settled is answered as it stands.
Start(p) ==
  /\ pc[p] = "claimed"
  /\ IF Settled(job[p])
       THEN /\ pc' = [pc EXCEPT ![p] = "finish"]
            /\ outcome' = [outcome EXCEPT ![p] = runStatus[job[p]]]
       ELSE pc' = [pc EXCEPT ![p] = "lease"] /\ UNCHANGED outcome
  /\ UNCHANGED <<dbVars, job, victim, raising, countVars>>

\* The except clause of the worker: only the job is still of interest.
Handles(p) ==
  /\ pc' = [pc EXCEPT ![p] = "handle"]
  /\ victim' = [victim EXCEPT ![p] = NoJob]
  /\ outcome' = [outcome EXCEPT ![p] = "none"]
  /\ raising' = [raising EXCEPT ![p] = FALSE]
  /\ UNCHANGED job

\* RunLeaseBusyError goes to the worker, which spends an attempt on it.
LeaseBusy(p) ==
  /\ pc[p] = "lease"
  /\ ~Free(job[p])
  /\ Handles(p)
  /\ UNCHANGED <<dbVars, countVars>>

\* acquire_run_lease, of a free or expired lease, or again of the run's own.
AcquireLease(p) ==
  /\ pc[p] = "lease"
  /\ Free(job[p])
  /\ leaseOwner' = job[p]
  /\ leaseExpired' = FALSE
  /\ IF leaseOwner \in {NoJob, job[p]}
       THEN Goto(p, "load")
       ELSE /\ pc' = [pc EXCEPT ![p] = "look"]
            /\ victim' = [victim EXCEPT ![p] = leaseOwner]
            /\ UNCHANGED <<job, outcome, raising>>
  /\ UNCHANGED <<queueVars, runStatus, published, countVars>>

\* previous_owner is not needed any more.
Loads(p) ==
  /\ pc' = [pc EXCEPT ![p] = "load"]
  /\ victim' = [victim EXCEPT ![p] = NoJob]
  /\ UNCHANGED <<job, outcome, raising>>

\* The replaced owner's run is read ...
Look(p) ==
  /\ pc[p] = "look"
  /\ IF Abandoned(victim[p]) THEN Goto(p, "abandon") ELSE Loads(p)
  /\ UNCHANGED <<dbVars, countVars>>

\* ... and closed with "run lease expired", whatever has become of it since.
Abandon(p) ==
  /\ pc[p] = "abandon"
  /\ runStatus' = [runStatus EXCEPT ![victim[p]] = "failed"]
  /\ Loads(p)
  /\ UNCHANGED <<queueVars, published, leaseVars, countVars>>

\* The profiles are loaded and the run is read once more: settled meanwhile?
Load(p) ==
  /\ pc[p] = "load"
  /\ IF Settled(job[p])
       THEN /\ pc' = [pc EXCEPT ![p] = "release"]
            /\ outcome' = [outcome EXCEPT ![p] = runStatus[job[p]]]
       ELSE pc' = [pc EXCEPT ![p] = "open"] /\ UNCHANGED outcome
  /\ UNCHANGED <<dbVars, job, victim, raising, countVars>>

\* update_run(running) and record_run_profile.
OpenRun(p) ==
  /\ pc[p] = "open"
  /\ runStatus' = [runStatus EXCEPT ![job[p]] = "running"]
  /\ Goto(p, "execute")
  /\ UNCHANGED <<queueVars, published, leaseVars, countVars>>

\* _execute up to update_run; a failed run has no snapshot.
Execute(p) ==
  /\ pc[p] = "execute"
  /\ \E status \in Terminal :
       /\ runStatus' = [runStatus EXCEPT ![job[p]] = status]
       /\ outcome' = [outcome EXCEPT ![p] = status]
       /\ pc' = [pc EXCEPT ![p] = IF status = "failed" THEN "release" ELSE "snapshot"]
  /\ UNCHANGED <<queueVars, published, leaseVars, job, victim, raising, countVars>>

\* record_snapshot: its primary key names the run, a second one raises.
RecordSnapshot(p) ==
  /\ pc[p] = "snapshot"
  /\ published' = published \union {job[p]}
  /\ Goto(p, IF job[p] \in published THEN "except" ELSE "release")
  /\ UNCHANGED <<queueVars, runStatus, leaseVars, countVars>>

\* The except clause of the engine.
ExceptEngine(p) ==
  /\ pc[p] = "except"
  /\ pc' = [pc EXCEPT ![p] = "release"]
  /\ IF Settled(job[p])
       THEN raising' = [raising EXCEPT ![p] = TRUE] /\ UNCHANGED <<runStatus, outcome>>
       ELSE /\ runStatus' = [runStatus EXCEPT ![job[p]] = "failed"]
            /\ outcome' = [outcome EXCEPT ![p] = "failed"]
            /\ UNCHANGED raising
  /\ UNCHANGED <<queueVars, published, leaseVars, job, victim, countVars>>

\* Its finally clause.
ReleaseLease(p) ==
  /\ pc[p] = "release"
  /\ IF Releases(job[p])
       THEN leaseOwner' = NoJob /\ leaseExpired' = FALSE
       ELSE UNCHANGED leaseVars
  /\ IF raising[p] THEN Handles(p) ELSE Goto(p, "finish")
  /\ UNCHANGED <<queueVars, runStatus, published, countVars>>

\* queue.finish, whatever the row says by now.
Finish(p) ==
  /\ pc[p] = "finish"
  /\ queueStatus' = [queueStatus EXCEPT ![job[p]] = outcome[p]]
  /\ pc' = [pc EXCEPT ![p] = "plan"]
  /\ outcome' = [outcome EXCEPT ![p] = "none"]
  /\ UNCHANGED <<job, victim, raising, attempt, available, runStatus, published, leaseVars, countVars>>

\* The planner, which writes to the outbox only.
Plan(p) ==
  /\ pc[p] = "plan"
  /\ Forget(p, "idle")
  /\ UNCHANGED <<dbVars, countVars>>

\* The except clause of the worker: another attempt ...
Requeue(p) ==
  /\ pc[p] = "handle"
  /\ attempt[job[p]] < MaxAttempts
  /\ queueStatus' = [queueStatus EXCEPT ![job[p]] = "queued"]
  /\ available' = [available EXCEPT ![job[p]] = FALSE]
  /\ Forget(p, "idle")
  /\ UNCHANGED <<attempt, runStatus, published, leaseVars, countVars>>

\* ... or the end of the job and, in a transaction of its own, of the run.
GiveUp(p) ==
  /\ pc[p] = "handle"
  /\ attempt[job[p]] >= MaxAttempts
  /\ queueStatus' = [queueStatus EXCEPT ![job[p]] = "failed"]
  /\ Goto(p, "closeRun")
  /\ UNCHANGED <<attempt, available, runStatus, published, leaseVars, countVars>>

CloseRun(p) ==
  /\ pc[p] = "closeRun"
  /\ runStatus' = [runStatus EXCEPT ![job[p]] = "failed"]
  /\ Forget(p, "idle")
  /\ UNCHANGED <<queueVars, published, leaseVars, countVars>>

\* A call raises and its transaction is rolled back.  Where no except clause is
\* left the thread ends, which is a Crash.
CallRaises(p) ==
  /\ errors < MaxErrors
  /\ errors' = errors + 1
  /\ \/ /\ pc[p] \in {"load", "open", "execute", "snapshot"}
        /\ Goto(p, "except")
     \/ /\ pc[p] \in {"claimed", "lease", "look", "abandon", "release", "finish", "plan"}
        /\ Handles(p)
     \/ /\ pc[p] = "except"
        /\ pc' = [pc EXCEPT ![p] = "release"]
        /\ raising' = [raising EXCEPT ![p] = TRUE]
        /\ UNCHANGED <<job, victim, outcome>>
  /\ UNCHANGED <<dbVars, late, stolen, crashes>>

Worker(p) ==
  \/ Claim(p) \/ Start(p) \/ LeaseBusy(p) \/ AcquireLease(p) \/ Look(p) \/ Abandon(p)
  \/ Load(p) \/ OpenRun(p) \/ Execute(p) \/ RecordSnapshot(p) \/ ExceptEngine(p)
  \/ ReleaseLease(p) \/ Finish(p) \/ Plan(p) \/ Requeue(p) \/ GiveUp(p) \/ CloseRun(p)

Next ==
  \/ \E p \in Procs : Worker(p) \/ Boot(p) \/ Crash(p) \/ CallRaises(p)
  \/ \E j \in Jobs : Enqueue(j) \/ DelayElapses(j)
  \/ LeaseExpires

Spec == Init /\ [][Next]_vars

-----------------------------------------------------------------------------
(* Properties *)

TypeOK ==
  /\ queueStatus \in [Jobs -> {"none", "queued", "running"} \union Terminal]
  /\ attempt \in [Jobs -> Nat]
  /\ available \in [Jobs -> BOOLEAN]
  /\ runStatus \in [Jobs -> {"none", "queued", "running"} \union Terminal]
  /\ published \subseteq Jobs
  /\ leaseOwner \in Jobs \union {NoJob} /\ leaseExpired \in BOOLEAN
  /\ pc \in [Procs -> {"down", "idle"} \union Working]
  /\ job \in [Procs -> Jobs \union {NoJob}]
  /\ victim \in [Procs -> Jobs \union {NoJob}]
  /\ outcome \in [Procs -> {"none"} \union Terminal]
  /\ raising \in [Procs -> BOOLEAN]
  /\ late \in BOOLEAN /\ stolen \in BOOLEAN
  /\ crashes \in Nat /\ errors \in Nat

Disturbed == late \/ stolen

\* "The database is the mutual exclusion boundary": two engines run at the same
\* time only if a scan has outlasted its lease or a process was started beside a
\* working one; requeues, crashes and takeovers of dead owners never bring it about.
OverlapNeedsCause ==
  \A p, q \in Procs : p # q /\ pc[p] \in Engine /\ pc[q] \in Engine => Disturbed

\* Until that happens the queue and the engine's record agree on what is covered,
\* although two processes write both and each reads before it writes.
CoveredAgrees ==
  \A j \in Jobs : queueStatus[j] \in Covered /\ ~Disturbed => runStatus[j] = queueStatus[j]

\* No process leaves the lease behind, not even after an overlap in which one
\* releases what the other one believes to hold: only faults do.
LeaseHasEngine ==
  leaseOwner # NoJob /\ crashes + errors = 0
    => \E p \in Procs : pc[p] \in Engine /\ job[p] = leaseOwner

\* A settled run is not reopened under the hands of another process: it only ever
\* turns to failed, when a worker gives its job up.
SettledStaysSettled ==
  [][\A j \in Jobs : runStatus[j] \in Terminal /\ ~Disturbed
        => runStatus'[j] \in {runStatus[j], "failed"}]_vars
=============================================================================
