-------------------------- MODULE RunWorkerProofs --------------------------
(***************************************************************************)
(* Proofs about RunWorker, for every number of jobs, crashes and errors.   *)
(***************************************************************************)
EXTENDS RunWorker, TLAPS

USE DEF Covered, Terminal, Active, Modes, NoJob

LEMMA JobsAreNat == Jobs \subseteq Nat \ {NoJob}
  BY BoundsAssumption DEF Jobs

LEMMA PlannedType ==
  ASSUME NEW j, NEW status, NEW old
  PROVE  Planned(j, status, old) \in {"none", "matches", "failure"}
  BY DEF Planned

LEMMA LatestMatchesType ==
  ASSUME matches \in [Jobs -> SUBSET Matches], snapshots \in Seq(Jobs), NEW p, NEW n
  PROVE  LatestMatches(p, n) \subseteq Matches
<1>1. \A i \in SnapshotsOf(p, n) : matches[snapshots[i]] \subseteq Matches
  BY DEF SnapshotsOf
<1> QED BY <1>1 DEF LatestMatches

LEMMA InitTypeOK == Init => TypeOK
<1> SUFFICES ASSUME Init PROVE TypeOK
  OBVIOUS
<1>1. crashes \in 0..MaxCrashes /\ errors \in 0..MaxErrors
  BY BoundsAssumption DEF Init
<1>2. snapshots \in Seq(Jobs)
  BY DEF Init
<1>3. matches \in [Jobs -> SUBSET Matches] /\ bound \subseteq Jobs /\ previous \subseteq Matches
  BY DEF Init
<1>4. pc \in PCs /\ job \in (IF pc \in Resting THEN {NoJob} ELSE Jobs)
      /\ victim \in (IF pc = "abandon" THEN Jobs ELSE {NoJob})
  BY DEF Init, PCs, Resting
<1> QED BY <1>1, <1>2, <1>3, <1>4 DEF Init, TypeOK

\* Every action keeps every variable within its type.
LEMMA NextTypeOK == TypeOK /\ [Next]_vars => TypeOK'
<1> SUFFICES ASSUME TypeOK, [Next]_vars PROVE TypeOK'
  OBVIOUS
<1> USE JobsAreNat, BoundsAssumption DEF vars, dbVars, queueVars, leaseVars, snapVars, runVars,
        localVars, faultVars, Goto, Forget, PCs, Resting
<1>1. CASE Claim  BY <1>1 DEF TypeOK, Claim, Claimable
<1>2. CASE Start
  BY <1>2, LatestMatchesType DEF TypeOK, Start, Settled, Previous
<1>3. CASE LeaseBusy  BY <1>3 DEF TypeOK, LeaseBusy
<1>4. CASE AcquireLease  BY <1>4 DEF TypeOK, AcquireLease
<1>5. CASE Abandon  BY <1>5 DEF TypeOK, Abandon
<1>6. CASE ProfileUnusable  BY <1>6 DEF TypeOK, ProfileUnusable
<1>7. CASE LoadProfile  BY <1>7 DEF TypeOK, LoadProfile
<1>8. CASE BindProfile  BY <1>8 DEF TypeOK, BindProfile
<1>9. CASE Execute  BY <1>9 DEF TypeOK, Execute
<1>10. CASE RecordSnapshot  BY <1>10 DEF TypeOK, RecordSnapshot
<1>11. CASE ExceptEngine  BY <1>11 DEF TypeOK, ExceptEngine
<1>12. CASE ReleaseLease  BY <1>12 DEF TypeOK, ReleaseLease
<1>13. CASE Finish  BY <1>13 DEF TypeOK, Finish
<1>14. CASE PlanNothing \/ PlanNotification
  BY <1>14 DEF TypeOK, PlanNothing, PlanNotification
<1>15. CASE EnqueueNotification  BY <1>15, PlannedType DEF TypeOK, EnqueueNotification
<1>16. CASE EnqueueOrphan  BY <1>16 DEF TypeOK, EnqueueOrphan
<1>17. CASE Requeue  BY <1>17 DEF TypeOK, Requeue
<1>18. CASE GiveUp  BY <1>18 DEF TypeOK, GiveUp
<1>19. CASE CloseRun  BY <1>19 DEF TypeOK, CloseRun
<1>20. CASE RowMissing  BY <1>20 DEF TypeOK, RowMissing
<1>21. CASE Boot  BY <1>21 DEF TypeOK, Boot, Recovered
<1>22. ASSUME NEW j \in Jobs, Enqueue(j) PROVE TypeOK'
  BY <1>22 DEF TypeOK, Enqueue
<1>23. ASSUME NEW j \in Jobs, DelayElapses(j) PROVE TypeOK'
  BY <1>23 DEF TypeOK, DelayElapses
<1>24. ASSUME NEW p \in Profiles, DeleteProfile(p) PROVE TypeOK'
<2>1. profile' \in [Profiles -> {"enabled", "paused", "absent"}]
  BY <1>24 DEF TypeOK, DeleteProfile
<2>2. queueStatus' \in [Jobs -> {"none", "deleted"} \union Active \union Terminal]
  BY <1>24 DEF TypeOK, DeleteProfile
<2>3. outbox' \in [Jobs -> {"none", "matches", "failure"}]
  BY <1>24 DEF TypeOK, DeleteProfile
<2>4. bound' \subseteq Jobs
  BY <1>24 DEF TypeOK, DeleteProfile
<2> QED BY <1>24, <2>1, <2>2, <2>3, <2>4 DEF TypeOK, DeleteProfile
<1>25. ASSUME NEW p \in Profiles, NEW enabled \in BOOLEAN, SetEnabled(p, enabled) PROVE TypeOK'
  BY <1>25 DEF TypeOK, SetEnabled
<1>26. CASE LeaseExpires  BY <1>26 DEF TypeOK, LeaseExpires
<1>27. CASE Crash
  <2>1. crashes' \in 0..MaxCrashes
    BY <1>27 DEF TypeOK, Crash
  <2> QED BY <1>27, <2>1 DEF TypeOK, Crash
<1>28. CASE CallRaises
  <2>1. errors' \in 0..MaxErrors
    BY <1>28 DEF TypeOK, CallRaises
  <2>2. PICK next \in Raised(pc) : IF next = "dead" THEN Forget("dead")
          ELSE pc' = next /\ raising' = (raising \/ pc = "except") /\ victim' = NoJob
               /\ UNCHANGED <<job, previous, outcome>>
    BY <1>28 DEF CallRaises
  <2>3. next \in {"dead", "handle", "except", "release"} /\ pc \notin {"down", "dead"}
        /\ (next # "dead" => pc # "idle")
    BY DEF Raised
  <2>4. UNCHANGED <<dbVars, crashes>>
    BY <1>28 DEF CallRaises
  <2>5. raising \in BOOLEAN /\ raising' \in BOOLEAN
    BY <2>2 DEF TypeOK
  <2> QED BY <2>1, <2>2, <2>3, <2>4, <2>5 DEF TypeOK
<1>29. CASE UNCHANGED vars  BY <1>29 DEF TypeOK
<1> QED
  BY <1>1, <1>2, <1>3, <1>4, <1>5, <1>6, <1>7, <1>8, <1>9, <1>10, <1>11, <1>12, <1>13, <1>14,
     <1>15, <1>16, <1>17, <1>18, <1>19, <1>20, <1>21, <1>22, <1>23, <1>24, <1>25, <1>26, <1>27,
     <1>28, <1>29 DEF Next, Worker, Engine, Environment

\* The worker and the database never hold a value outside its type.
THEOREM TypeCorrect == Spec => []TypeOK
  BY InitTypeOK, NextTypeOK, PTL DEF Spec

-----------------------------------------------------------------------------
(* The inductive invariant.  Its parts are proved one after the other, each     *)
(* from the parts before it.                                                 *)

\* The row of the claimed job, at each place the worker can stand.
HoldInv ==
  /\ pc \in Executing => queueStatus[job] = "running"
  /\ pc \in {"plan", "enqueue"} => queueStatus[job] \in Terminal \union {"deleted"}
  /\ pc = "handle" => queueStatus[job] \in {"running", "deleted"} \union Terminal
  /\ pc = "closeRun" => queueStatus[job] \in {"failed", "deleted"}

\* The run row that belongs to the claimed job, and to every other job.
RunInv ==
  /\ pc \in {"finish", "plan", "enqueue"} \/ (pc = "release" /\ ~raising) =>
       outcome \in Terminal /\ runStatus[job] = outcome
  /\ pc = "snapshot" => outcome \in Covered /\ runStatus[job] = outcome
  /\ pc \in {"lease", "abandon", "load", "bind", "execute"} => ~Settled(job)
  /\ pc = "abandon" => victim # job /\ runStatus[victim] = "running"
  /\ \A j \in Jobs : queueStatus[j] = "none" => runStatus[j] = "none"

\* Only giving up closes a run that was published, and its row is not retried.
FailedInv ==
  /\ \A j \in Jobs :
       runStatus[j] = "failed" /\ Published(j) => queueStatus[j] \in {"failed", "deleted"}
  /\ pc \in {"plan", "enqueue", "handle"} => ~(runStatus[job] = "failed" /\ Published(job))

\* OutboxSound, and no row before its job.
OutboxInv ==
  /\ OutboxSound
  /\ \A j \in Jobs : queueStatus[j] = "none" => outbox[j] = "none"

\* Without a fault the lease is held exactly where the engine runs.
LeaseInv ==
  crashes + errors = 0 =>
    leaseOwner = IF pc \in {"abandon", "load", "bind", "execute", "snapshot", "except", "release"}
                   THEN job ELSE NoJob

\* Attempts: a queued row has one left, counting the crashes.
AttemptInv ==
  \A j \in Jobs :
    /\ attempt[j] <= MaxAttempts + crashes
    /\ queueStatus[j] = "none" => attempt[j] = 0
    /\ queueStatus[j] = "queued" => attempt[j] < MaxAttempts + crashes
    /\ pc = "down" /\ queueStatus[j] = "running" => attempt[j] < MaxAttempts + crashes

\* The foreign key of the queue rows.
ProfileInv ==
  \A j \in Jobs : queueStatus[j] \notin {"none", "deleted"} => profile[profileOf[j]] # "absent"

\* Publication follows settlement, and the run about to publish has not yet.
PublishInv ==
  /\ \A j \in Jobs : Published(j) => runStatus[j] \in Terminal
  /\ pc = "snapshot" => ~Published(job)
  /\ PublishedOnce

-----------------------------------------------------------------------------
(* The claimed job                                                           *)

LEMMA NextHoldInv == TypeOK /\ HoldInv /\ RunInv /\ [Next]_vars => HoldInv'
<1> SUFFICES ASSUME TypeOK, HoldInv, RunInv, [Next]_vars PROVE HoldInv'
  OBVIOUS
<1> USE JobsAreNat DEF vars, dbVars, queueVars, leaseVars, snapVars, runVars, localVars,
        faultVars, Goto, Forget, PCs, Resting, Executing
<1>1. CASE Claim  BY <1>1 DEF TypeOK, HoldInv, Claim, Claimable
<1>2. CASE Start  BY <1>2 DEF TypeOK, HoldInv, Start
<1>3. CASE Engine
  <2>1. UNCHANGED <<queueStatus, job>>
    BY <1>3 DEF Engine, LeaseBusy, AcquireLease, Abandon, ProfileUnusable, LoadProfile, BindProfile,
         Execute, RecordSnapshot, ExceptEngine, ReleaseLease
  <2>2. pc \in Executing /\ pc' \in Executing \union {"handle"}
    BY <1>3 DEF Engine, LeaseBusy, AcquireLease, Abandon, ProfileUnusable, LoadProfile, BindProfile,
         Execute, RecordSnapshot, ExceptEngine, ReleaseLease
  <2> QED BY <2>1, <2>2 DEF TypeOK, HoldInv
<1>4. CASE Finish  BY <1>4 DEF TypeOK, HoldInv, RunInv, Finish
<1>5. CASE PlanNothing \/ EnqueueNotification \/ Requeue \/ CloseRun \/ RowMissing \/ Crash
  BY <1>5 DEF HoldInv, PlanNothing, EnqueueNotification, Requeue, CloseRun, RowMissing, Crash
<1>6. CASE PlanNotification \/ EnqueueOrphan
  BY <1>6 DEF TypeOK, HoldInv, PlanNotification, EnqueueOrphan
<1>7. CASE GiveUp  BY <1>7 DEF TypeOK, HoldInv, GiveUp
<1>8. CASE Boot  BY <1>8 DEF HoldInv, Boot
<1>9. ASSUME NEW j \in Jobs, Enqueue(j) PROVE HoldInv'
  <2>1. pc \notin Resting => queueStatus[job] # "none"
    BY DEF TypeOK, HoldInv
  <2> QED BY <1>9, <2>1 DEF TypeOK, HoldInv, Enqueue
<1>10. ASSUME NEW j \in Jobs, DelayElapses(j) PROVE HoldInv'
  BY <1>10 DEF HoldInv, DelayElapses
<1>11. ASSUME NEW p \in Profiles, DeleteProfile(p) PROVE HoldInv'
  BY <1>11 DEF TypeOK, HoldInv, DeleteProfile, BlocksDelete
<1>12. ASSUME NEW p \in Profiles, NEW enabled \in BOOLEAN, SetEnabled(p, enabled) PROVE HoldInv'
  BY <1>12 DEF HoldInv, SetEnabled
<1>13. CASE LeaseExpires  BY <1>13 DEF HoldInv, LeaseExpires
<1>14. CASE CallRaises  BY <1>14 DEF TypeOK, HoldInv, CallRaises, Raised
<1>15. CASE UNCHANGED vars  BY <1>15 DEF HoldInv
<1> QED
  BY <1>1, <1>2, <1>3, <1>4, <1>5, <1>6, <1>7, <1>8, <1>9, <1>10, <1>11, <1>12, <1>13, <1>14, <1>15
  DEF Next, Worker, Environment

LEMMA NextRunInv == TypeOK /\ HoldInv /\ RunInv /\ [Next]_vars => RunInv'
<1> SUFFICES ASSUME TypeOK, HoldInv, RunInv, [Next]_vars PROVE RunInv'
  OBVIOUS
<1> USE JobsAreNat DEF vars, dbVars, queueVars, leaseVars, snapVars, runVars, localVars,
        faultVars, Goto, Forget, PCs, Resting, Executing
<1>1. CASE Claim  BY <1>1 DEF TypeOK, RunInv, Claim, Claimable
<1>2. CASE Start  BY <1>2 DEF TypeOK, RunInv, Start, Settled
<1>3. CASE LeaseBusy \/ ProfileUnusable
  BY <1>3 DEF TypeOK, RunInv, LeaseBusy, ProfileUnusable
<1>4. CASE AcquireLease  BY <1>4 DEF TypeOK, RunInv, AcquireLease, Abandoned, Settled
<1>5. CASE Abandon  BY <1>5 DEF TypeOK, RunInv, Abandon, Settled
<1>6. CASE LoadProfile  BY <1>6 DEF TypeOK, HoldInv, RunInv, LoadProfile, Settled
<1>7. CASE BindProfile  BY <1>7 DEF TypeOK, RunInv, BindProfile, Settled
<1>8. CASE Execute  BY <1>8 DEF TypeOK, HoldInv, RunInv, Execute, Settled
<1>9. CASE RecordSnapshot  BY <1>9 DEF TypeOK, RunInv, RecordSnapshot
<1>10. CASE ExceptEngine  BY <1>10 DEF TypeOK, HoldInv, RunInv, ExceptEngine
<1>11. CASE ReleaseLease  BY <1>11 DEF TypeOK, RunInv, ReleaseLease
<1>12. CASE Finish  BY <1>12 DEF TypeOK, RunInv, Finish
<1>13. CASE PlanNothing \/ PlanNotification \/ EnqueueNotification \/ EnqueueOrphan \/ RowMissing \/ Crash
  BY <1>13 DEF RunInv, PlanNothing, PlanNotification, EnqueueNotification, EnqueueOrphan, RowMissing, Crash
<1>14. CASE Requeue \/ GiveUp
  BY <1>14 DEF TypeOK, HoldInv, RunInv, Requeue, GiveUp
<1>15. CASE CloseRun  BY <1>15 DEF TypeOK, HoldInv, RunInv, CloseRun
<1>16. CASE Boot  BY <1>16 DEF TypeOK, RunInv, Boot, Recovered
<1>17. ASSUME NEW j \in Jobs, Enqueue(j) PROVE RunInv'
  <2>1. pc \in Executing => job \in Jobs /\ job # j
    BY <1>17 DEF TypeOK, HoldInv, Enqueue
  <2>2. pc = "abandon" => victim \in Jobs /\ victim # j
    BY <1>17 DEF TypeOK, RunInv, Enqueue
  <2> QED BY <1>17, <2>1, <2>2 DEF TypeOK, RunInv, Enqueue, Settled
<1>18. ASSUME NEW j \in Jobs, DelayElapses(j) PROVE RunInv'
  BY <1>18 DEF RunInv, DelayElapses, Settled
<1>19. ASSUME NEW p \in Profiles, DeleteProfile(p) PROVE RunInv'
  BY <1>19 DEF TypeOK, RunInv, DeleteProfile, Settled
<1>20. ASSUME NEW p \in Profiles, NEW enabled \in BOOLEAN, SetEnabled(p, enabled) PROVE RunInv'
  BY <1>20 DEF RunInv, SetEnabled, Settled
<1>21. CASE LeaseExpires  BY <1>21 DEF RunInv, LeaseExpires, Settled
<1>22. CASE CallRaises  BY <1>22 DEF TypeOK, RunInv, CallRaises, Raised
<1>23. CASE UNCHANGED vars  BY <1>23 DEF RunInv, Settled
<1> QED
  BY <1>1, <1>2, <1>3, <1>4, <1>5, <1>6, <1>7, <1>8, <1>9, <1>10, <1>11, <1>12, <1>13, <1>14, <1>15, <1>16, <1>17, <1>18, <1>19, <1>20, <1>21, <1>22, <1>23
  DEF Next, Worker, Engine, Environment

-----------------------------------------------------------------------------
(* Attempts                                                                  *)

LEMMA NextAttemptInv == TypeOK /\ RunInv /\ AttemptInv /\ [Next]_vars => AttemptInv'
<1> SUFFICES ASSUME TypeOK, RunInv, AttemptInv, [Next]_vars PROVE AttemptInv'
  OBVIOUS
<1>0. MaxAttempts \in Nat \ {0} /\ crashes \in Nat /\ \A j \in Jobs : attempt[j] \in Nat
  BY BoundsAssumption DEF TypeOK
<1> USE JobsAreNat, <1>0 DEF vars, dbVars, queueVars, leaseVars, snapVars, runVars, localVars,
        faultVars, Goto, Forget, PCs, Resting, Executing
<1>1. CASE Claim
  <2>1. PICK j \in Jobs :
          /\ queueStatus[j] = "queued" /\ attempt' = [attempt EXCEPT ![j] = @ + 1]
          /\ queueStatus' = [queueStatus EXCEPT ![j] = "running"]
    BY <1>1 DEF Claim, Claimable
  <2>2. attempt'[j] <= MaxAttempts + crashes
    BY <2>1 DEF TypeOK, AttemptInv
  <2> QED BY <1>1, <2>1, <2>2 DEF TypeOK, AttemptInv, Claim
<1>2. CASE Finish  BY <1>2 DEF TypeOK, RunInv, AttemptInv, Finish
<1>3. CASE Requeue  BY <1>3 DEF TypeOK, AttemptInv, Requeue, CanRetry
<1>4. CASE GiveUp  BY <1>4 DEF TypeOK, AttemptInv, GiveUp
<1>5. CASE Boot  BY <1>5 DEF TypeOK, AttemptInv, Boot, Recovered
<1>6. CASE Crash  BY <1>6 DEF TypeOK, AttemptInv, Crash
<1>7. ASSUME NEW j \in Jobs, Enqueue(j) PROVE AttemptInv'
  BY <1>7 DEF TypeOK, AttemptInv, Enqueue
<1>8. ASSUME NEW p \in Profiles, DeleteProfile(p) PROVE AttemptInv'
  BY <1>8 DEF TypeOK, AttemptInv, DeleteProfile
<1>9. ASSUME UNCHANGED <<queueStatus, attempt, crashes>>, pc' = "down" => pc = "down"
      PROVE  AttemptInv'
  BY <1>9 DEF AttemptInv
<1>10. Start \/ Engine \/ PlanNothing \/ PlanNotification \/ EnqueueNotification \/ EnqueueOrphan
       \/ CloseRun \/ RowMissing \/ CallRaises
       => UNCHANGED <<queueStatus, attempt, crashes>> /\ (pc' = "down" => pc = "down")
  BY DEF Start, Engine, LeaseBusy, AcquireLease, Abandon, ProfileUnusable, LoadProfile, BindProfile,
         Execute, RecordSnapshot, ExceptEngine, ReleaseLease, PlanNothing, PlanNotification,
         EnqueueNotification, EnqueueOrphan, CloseRun, RowMissing, CallRaises, Raised
<1>11. LeaseExpires \/ UNCHANGED vars \/ (\E j \in Jobs : DelayElapses(j))
       \/ (\E p \in Profiles : \E enabled \in BOOLEAN : SetEnabled(p, enabled))
       => UNCHANGED <<queueStatus, attempt, crashes, pc>>
  BY DEF LeaseExpires, DelayElapses, SetEnabled
<1> QED
  BY <1>1, <1>2, <1>3, <1>4, <1>5, <1>6, <1>7, <1>8, <1>9, <1>10, <1>11
  DEF Next, Worker, Environment

-----------------------------------------------------------------------------
(* Agreement of queue and run, and the profile of a running job             *)

LEMMA NextCoveredAgrees ==
  TypeOK /\ HoldInv /\ RunInv /\ CoveredAgrees /\ [Next]_vars => CoveredAgrees'
<1> SUFFICES ASSUME TypeOK, HoldInv, RunInv, CoveredAgrees, [Next]_vars PROVE CoveredAgrees'
  OBVIOUS
<1> USE JobsAreNat DEF vars, dbVars, queueVars, leaseVars, snapVars, runVars, localVars,
        faultVars, Goto, Forget, PCs, Resting, Executing
<1>1. CASE Claim  BY <1>1 DEF TypeOK, CoveredAgrees, Claim
<1>2. CASE Abandon  BY <1>2 DEF TypeOK, RunInv, CoveredAgrees, Abandon
<1>3. CASE LoadProfile  BY <1>3 DEF TypeOK, HoldInv, CoveredAgrees, LoadProfile
<1>4. CASE Execute  BY <1>4 DEF TypeOK, HoldInv, CoveredAgrees, Execute
<1>5. CASE ExceptEngine  BY <1>5 DEF TypeOK, HoldInv, CoveredAgrees, ExceptEngine
<1>6. CASE Finish  BY <1>6 DEF TypeOK, RunInv, CoveredAgrees, Finish
<1>7. CASE Requeue \/ GiveUp  BY <1>7 DEF TypeOK, CoveredAgrees, Requeue, GiveUp
<1>8. CASE CloseRun  BY <1>8 DEF TypeOK, HoldInv, CoveredAgrees, CloseRun
<1>9. CASE Boot  BY <1>9 DEF TypeOK, CoveredAgrees, Boot, Recovered
<1>10. ASSUME NEW j \in Jobs, Enqueue(j) PROVE CoveredAgrees'
  BY <1>10 DEF TypeOK, CoveredAgrees, Enqueue
<1>11. ASSUME NEW p \in Profiles, DeleteProfile(p) PROVE CoveredAgrees'
  BY <1>11 DEF TypeOK, CoveredAgrees, DeleteProfile
<1>12. ASSUME UNCHANGED <<queueStatus, runStatus>> PROVE CoveredAgrees'
  BY <1>12 DEF CoveredAgrees
<1>13. Start \/ LeaseBusy \/ AcquireLease \/ ProfileUnusable \/ BindProfile \/ RecordSnapshot
       \/ ReleaseLease \/ PlanNothing \/ PlanNotification \/ EnqueueNotification \/ EnqueueOrphan
       \/ RowMissing \/ CallRaises \/ Crash \/ LeaseExpires \/ UNCHANGED vars
       \/ (\E j \in Jobs : DelayElapses(j))
       \/ (\E p \in Profiles : \E enabled \in BOOLEAN : SetEnabled(p, enabled))
       => UNCHANGED <<queueStatus, runStatus>>
  BY DEF Start, LeaseBusy, AcquireLease, ProfileUnusable, BindProfile, RecordSnapshot, ReleaseLease,
         PlanNothing, PlanNotification, EnqueueNotification, EnqueueOrphan, RowMissing, CallRaises,
         Crash, LeaseExpires, DelayElapses, SetEnabled
<1> QED
  BY <1>1, <1>2, <1>3, <1>4, <1>5, <1>6, <1>7, <1>8, <1>9, <1>10, <1>11, <1>12, <1>13
  DEF Next, Worker, Engine, Environment

LEMMA NextProfileInv ==
  TypeOK /\ HoldInv /\ RunInv /\ ProfileInv /\ [Next]_vars => ProfileInv'
<1> SUFFICES ASSUME TypeOK, HoldInv, RunInv, ProfileInv, [Next]_vars PROVE ProfileInv'
  OBVIOUS
<1> USE JobsAreNat DEF vars, dbVars, queueVars, leaseVars, snapVars, runVars, localVars,
        faultVars, Goto, Forget, PCs, Resting, Executing
<1>1. CASE Claim  BY <1>1 DEF TypeOK, ProfileInv, Claim, Claimable
<1>2. CASE Finish  BY <1>2 DEF TypeOK, HoldInv, ProfileInv, Finish
<1>3. CASE Requeue \/ GiveUp  BY <1>3 DEF TypeOK, HoldInv, ProfileInv, Requeue, GiveUp
<1>4. CASE Boot  BY <1>4 DEF TypeOK, ProfileInv, Boot, Recovered
<1>5. ASSUME NEW j \in Jobs, Enqueue(j) PROVE ProfileInv'
  BY <1>5 DEF TypeOK, ProfileInv, Enqueue
<1>6. ASSUME NEW p \in Profiles, DeleteProfile(p) PROVE ProfileInv'
  BY <1>6 DEF TypeOK, ProfileInv, DeleteProfile
<1>7. ASSUME NEW p \in Profiles, NEW enabled \in BOOLEAN, SetEnabled(p, enabled) PROVE ProfileInv'
  BY <1>7 DEF TypeOK, ProfileInv, SetEnabled
<1>8. ASSUME UNCHANGED <<queueStatus, profile, profileOf>> PROVE ProfileInv'
  BY <1>8 DEF ProfileInv
<1>9. Start \/ Engine \/ PlanNothing \/ PlanNotification \/ EnqueueNotification \/ EnqueueOrphan
       \/ CloseRun \/ RowMissing \/ CallRaises \/ Crash \/ LeaseExpires \/ UNCHANGED vars
       \/ (\E j \in Jobs : DelayElapses(j))
       => UNCHANGED <<queueStatus, profile, profileOf>>
  BY DEF Start, Engine, LeaseBusy, AcquireLease, Abandon, ProfileUnusable, LoadProfile, BindProfile,
         Execute, RecordSnapshot, ExceptEngine, ReleaseLease, PlanNothing, PlanNotification,
         EnqueueNotification, EnqueueOrphan, CloseRun, RowMissing, CallRaises, Crash, LeaseExpires,
         DelayElapses
<1> QED
  BY <1>1, <1>2, <1>3, <1>4, <1>5, <1>6, <1>7, <1>8, <1>9
  DEF Next, Worker, Environment

-----------------------------------------------------------------------------
(* Publication                                                               *)

\* Appending a job publishes it and nothing else.
LEMMA PublishedAfterAppend ==
  ASSUME snapshots \in Seq(Jobs), NEW j \in Jobs, snapshots' = Append(snapshots, j),
         NEW i \in Jobs
  PROVE  Published(i)' <=> Published(i) \/ i = j
<1>1. Len(snapshots') = Len(snapshots) + 1 /\ snapshots'[Len(snapshots) + 1] = j
      /\ \A k \in 1..Len(snapshots) : snapshots'[k] = snapshots[k]
  OBVIOUS
<1> QED BY <1>1 DEF Published

LEMMA NextPublishInv ==
  TypeOK /\ HoldInv /\ RunInv /\ PublishInv /\ [Next]_vars => PublishInv'
<1> SUFFICES ASSUME TypeOK, HoldInv, RunInv, PublishInv, [Next]_vars PROVE PublishInv'
  OBVIOUS
<1> USE JobsAreNat DEF vars, dbVars, queueVars, leaseVars, snapVars, runVars, localVars,
        faultVars, Goto, Forget, PCs, Resting, Executing
<1>0. ASSUME UNCHANGED snapshots
      PROVE  PublishedOnce' /\ \A j \in Jobs : Published(j)' <=> Published(j)
  BY <1>0 DEF PublishInv, PublishedOnce, Published
<1>1. CASE RecordSnapshot
  <2>1. ~Published(job) /\ job \in Jobs /\ runStatus[job] \in Terminal
    BY <1>1 DEF TypeOK, RunInv, PublishInv, RecordSnapshot
  <2>2. snapshots' = Append(snapshots, job) /\ UNCHANGED runStatus /\ pc' = "release"
    BY <1>1 DEF RecordSnapshot
  <2>3. \A j \in Jobs : Published(j)' => runStatus'[j] \in Terminal
    BY <2>1, <2>2, PublishedAfterAppend DEF TypeOK, PublishInv
  <2>4. Len(snapshots') = Len(snapshots) + 1 /\ snapshots'[Len(snapshots) + 1] = job
        /\ \A k \in 1..Len(snapshots) : snapshots'[k] = snapshots[k]
    BY <2>1, <2>2 DEF TypeOK
  <2>5. PublishedOnce'
    BY <2>1, <2>4 DEF TypeOK, PublishInv, PublishedOnce, Published
  <2> QED BY <2>2, <2>3, <2>5 DEF PublishInv
<1>2. CASE LoadProfile
  BY <1>0, <1>2 DEF TypeOK, RunInv, PublishInv, LoadProfile, Settled
<1>3. CASE Execute
  BY <1>0, <1>3 DEF TypeOK, RunInv, PublishInv, Execute, Settled
<1>4. CASE Abandon
  BY <1>0, <1>4 DEF TypeOK, RunInv, PublishInv, Abandon
<1>5. CASE ExceptEngine \/ CloseRun
  BY <1>0, <1>5 DEF TypeOK, PublishInv, ExceptEngine, CloseRun
<1>6. ASSUME NEW j \in Jobs, Enqueue(j) PROVE PublishInv'
  <2>1. runStatus[j] = "none" /\ ~Published(j)
    BY <1>6 DEF RunInv, PublishInv, Enqueue
  <2> QED BY <1>0, <1>6, <2>1 DEF TypeOK, PublishInv, Enqueue
<1>7. ASSUME UNCHANGED <<snapshots, runStatus>>, pc' # "snapshot" \/ UNCHANGED <<pc, job>>
      PROVE  PublishInv'
  <2>1. pc' = "snapshot" => ~Published(job)' /\ UNCHANGED job
    BY <1>7 DEF PublishInv, Published
  <2> QED BY <1>0, <1>7, <2>1 DEF PublishInv, Published
<1>8. Claim \/ Start \/ LeaseBusy \/ AcquireLease \/ ProfileUnusable \/ BindProfile \/ ReleaseLease
      \/ Finish \/ PlanNothing \/ PlanNotification \/ EnqueueNotification \/ EnqueueOrphan
      \/ Requeue \/ GiveUp \/ RowMissing \/ Boot \/ Crash \/ CallRaises \/ LeaseExpires
      \/ (\E j \in Jobs : DelayElapses(j)) \/ (\E p \in Profiles : DeleteProfile(p))
      \/ (\E p \in Profiles : \E enabled \in BOOLEAN : SetEnabled(p, enabled)) \/ UNCHANGED vars
      => UNCHANGED <<snapshots, runStatus>> /\ (pc' # "snapshot" \/ UNCHANGED <<pc, job>>)
  BY DEF Claim, Start, LeaseBusy, AcquireLease, ProfileUnusable, BindProfile, ReleaseLease, Finish,
         PlanNothing, PlanNotification, EnqueueNotification, EnqueueOrphan, Requeue, GiveUp,
         RowMissing, Boot, Crash, CallRaises, Raised, LeaseExpires, DelayElapses, DeleteProfile,
         SetEnabled
<1> QED
  BY <1>1, <1>2, <1>3, <1>4, <1>5, <1>6, <1>7, <1>8
  DEF Next, Worker, Engine, Environment

-----------------------------------------------------------------------------
(* The lease                                                                 *)

LEMMA NextLeaseInv == TypeOK /\ LeaseInv /\ [Next]_vars => LeaseInv'
<1> SUFFICES ASSUME TypeOK, LeaseInv, [Next]_vars PROVE LeaseInv'
  OBVIOUS
<1>0. crashes \in Nat /\ errors \in Nat
  BY BoundsAssumption DEF TypeOK
<1> USE JobsAreNat, <1>0 DEF vars, dbVars, queueVars, leaseVars, snapVars, runVars, localVars,
        faultVars, Goto, Forget, PCs, Resting, Executing
<1>1. CASE Crash \/ CallRaises
  <2>1. crashes' + errors' # 0
    BY <1>1 DEF Crash, CallRaises
  <2> QED BY <2>1 DEF LeaseInv
<1>2. CASE Engine
  BY <1>2 DEF TypeOK, LeaseInv, Engine, LeaseBusy, AcquireLease, Abandon, ProfileUnusable, LoadProfile,
       BindProfile, Execute, RecordSnapshot, ExceptEngine, ReleaseLease, HoldsLease
<1>3. CASE Claim \/ Start
  BY <1>3 DEF TypeOK, LeaseInv, Claim, Start
<1>4. CASE Finish \/ PlanNothing \/ PlanNotification \/ EnqueueNotification \/ EnqueueOrphan
           \/ Requeue \/ GiveUp \/ CloseRun \/ RowMissing \/ Boot
  BY <1>4 DEF LeaseInv, Finish, PlanNothing, PlanNotification, EnqueueNotification, EnqueueOrphan,
       Requeue, GiveUp, CloseRun, RowMissing, Boot
<1>5. CASE Environment \/ UNCHANGED vars
  <2>1. UNCHANGED <<crashes, errors, leaseOwner, pc, job>>
    BY <1>5 DEF Environment, Enqueue, DelayElapses, DeleteProfile, SetEnabled, LeaseExpires
  <2> QED BY <2>1 DEF LeaseInv
<1> QED
  BY <1>1, <1>2, <1>3, <1>4, <1>5
  DEF Next, Worker

-----------------------------------------------------------------------------
(* Notifications                                                             *)

LEMMA NextFailedInv ==
  TypeOK /\ HoldInv /\ RunInv /\ PublishInv /\ FailedInv /\ [Next]_vars => FailedInv'
<1> SUFFICES ASSUME TypeOK, HoldInv, RunInv, PublishInv, FailedInv, [Next]_vars PROVE FailedInv'
  OBVIOUS
<1> USE JobsAreNat DEF vars, dbVars, queueVars, leaseVars, snapVars, runVars, localVars,
        faultVars, Goto, Forget, PCs, Resting, Executing
<1>0. ASSUME UNCHANGED snapshots
      PROVE  \A j \in Jobs : Published(j)' <=> Published(j)
  BY <1>0 DEF Published
<1>1. CASE RecordSnapshot
  <2>1. snapshots' = Append(snapshots, job) /\ UNCHANGED <<runStatus, queueStatus>>
        /\ job \in Jobs /\ runStatus[job] # "failed" /\ pc' = "release"
    BY <1>1 DEF TypeOK, RunInv, RecordSnapshot
  <2> QED BY <2>1, PublishedAfterAppend DEF TypeOK, FailedInv
<1>2. CASE Claim  BY <1>0, <1>2 DEF TypeOK, FailedInv, Claim, Claimable
<1>3. CASE LoadProfile  BY <1>0, <1>3 DEF TypeOK, FailedInv, LoadProfile
<1>4. CASE Execute
  BY <1>0, <1>4 DEF TypeOK, RunInv, PublishInv, FailedInv, Execute, Settled
<1>5. CASE Abandon  BY <1>0, <1>5 DEF TypeOK, RunInv, PublishInv, FailedInv, Abandon
<1>6. CASE ExceptEngine  BY <1>0, <1>6 DEF TypeOK, PublishInv, FailedInv, ExceptEngine
<1>7. CASE Finish  BY <1>0, <1>7 DEF TypeOK, HoldInv, RunInv, FailedInv, Finish
<1>8. CASE Requeue  BY <1>0, <1>8 DEF TypeOK, HoldInv, FailedInv, Requeue
<1>9. CASE GiveUp  BY <1>0, <1>9 DEF TypeOK, FailedInv, GiveUp
<1>10. CASE CloseRun  BY <1>0, <1>10 DEF TypeOK, HoldInv, FailedInv, CloseRun
<1>11. CASE Boot  BY <1>0, <1>11 DEF TypeOK, FailedInv, Boot, Recovered
<1>12. ASSUME NEW j \in Jobs, Enqueue(j) PROVE FailedInv'
  <2>1. pc \in {"plan", "enqueue", "handle"} => job # j
    BY <1>12 DEF TypeOK, HoldInv, Enqueue
  <2> QED BY <1>0, <1>12, <2>1 DEF TypeOK, FailedInv, Enqueue
<1>13. ASSUME NEW p \in Profiles, DeleteProfile(p) PROVE FailedInv'
  BY <1>0, <1>13 DEF TypeOK, FailedInv, DeleteProfile
<1>14. CASE CallRaises
  <2>1. UNCHANGED <<snapshots, runStatus, queueStatus>>
        /\ (pc' = "handle" => job' = job /\ job \in Jobs
              /\ (pc \in Executing \/ pc \in {"plan", "enqueue"}))
        /\ pc' \notin {"plan", "enqueue"}
    BY <1>14 DEF TypeOK, CallRaises, Raised
  <2> QED BY <1>0, <2>1 DEF HoldInv, FailedInv
<1>15. CASE LeaseBusy \/ ReleaseLease
  <2>1. UNCHANGED <<snapshots, runStatus, queueStatus, job>> /\ job \in Jobs
        /\ pc \in Executing /\ pc' \notin {"plan", "enqueue"}
    BY <1>15 DEF TypeOK, LeaseBusy, ReleaseLease
  <2> QED BY <1>0, <2>1 DEF HoldInv, FailedInv
<1>16. ASSUME UNCHANGED <<snapshots, runStatus, queueStatus>>,
              pc' \notin {"plan", "enqueue", "handle"}
              \/ (pc \in {"plan", "enqueue", "handle"} /\ UNCHANGED job /\ job \in Jobs)
      PROVE  FailedInv'
  BY <1>0, <1>16 DEF FailedInv
<1>17. Start \/ AcquireLease \/ ProfileUnusable \/ BindProfile \/ PlanNothing \/ PlanNotification
       \/ EnqueueNotification \/ EnqueueOrphan \/ RowMissing \/ Crash \/ LeaseExpires
       \/ (\E j \in Jobs : DelayElapses(j)) \/ UNCHANGED vars
       \/ (\E p \in Profiles : \E enabled \in BOOLEAN : SetEnabled(p, enabled))
       => /\ UNCHANGED <<snapshots, runStatus, queueStatus>>
          /\ \/ pc' \notin {"plan", "enqueue", "handle"}
             \/ pc \in {"plan", "enqueue", "handle"} /\ UNCHANGED job /\ job \in Jobs
  BY DEF TypeOK, Start, AcquireLease, ProfileUnusable, BindProfile, PlanNothing, PlanNotification,
         EnqueueNotification, EnqueueOrphan, RowMissing, Crash, LeaseExpires, DelayElapses, SetEnabled
<1> QED
  BY <1>1, <1>2, <1>3, <1>4, <1>5, <1>6, <1>7, <1>8, <1>9, <1>10, <1>11, <1>12, <1>13, <1>14, <1>15, <1>16, <1>17
  DEF Next, Worker, Engine, Environment

LEMMA NextOutboxInv ==
  TypeOK /\ HoldInv /\ RunInv /\ PublishInv /\ FailedInv /\ OutboxInv /\ [Next]_vars => OutboxInv'
<1> SUFFICES ASSUME TypeOK, HoldInv, RunInv, PublishInv, FailedInv, OutboxInv, [Next]_vars
             PROVE  OutboxInv'
  OBVIOUS
<1> USE JobsAreNat DEF vars, dbVars, queueVars, leaseVars, snapVars, runVars, localVars,
        faultVars, Goto, Forget, PCs, Resting, Executing
<1>0. ASSUME UNCHANGED snapshots
      PROVE  \A j \in Jobs : Published(j)' <=> Published(j)
  BY <1>0 DEF Published
<1>1. CASE RecordSnapshot
  <2>1. snapshots' = Append(snapshots, job) /\ UNCHANGED <<runStatus, queueStatus, outbox, profileOf>>
        /\ job \in Jobs /\ runStatus[job] # "failed"
    BY <1>1 DEF TypeOK, RunInv, RecordSnapshot
  <2> QED BY <2>1, PublishedAfterAppend DEF TypeOK, OutboxInv, OutboxSound
<1>2. CASE EnqueueNotification
  <2>1. job \in Jobs /\ queueStatus[job] # "none" /\ outcome = runStatus[job]
        /\ ~(runStatus[job] = "failed" /\ Published(job))
    BY <1>2 DEF TypeOK, HoldInv, RunInv, FailedInv, EnqueueNotification
  <2>2. outbox' = [outbox EXCEPT ![job] =
                     IF @ = "none" THEN Planned(job, outcome, previous) ELSE @]
        /\ UNCHANGED <<snapshots, runStatus, queueStatus, profileOf>>
    BY <1>2 DEF EnqueueNotification
  <2>3. /\ Planned(job, outcome, previous) = "matches" =>
             Published(job) /\ ModeOf[profileOf[job]] # "disabled"
        /\ Planned(job, outcome, previous) = "failure" =>
             outcome = "failed" /\ ModeOf[profileOf[job]] = "matches_or_failure"
    BY DEF Planned
  <2> QED BY <1>0, <2>1, <2>2, <2>3 DEF TypeOK, OutboxInv, OutboxSound
<1>3. CASE LoadProfile
  BY <1>0, <1>3 DEF TypeOK, RunInv, OutboxInv, OutboxSound, LoadProfile, Settled
<1>4. CASE Execute
  BY <1>0, <1>4 DEF TypeOK, RunInv, OutboxInv, OutboxSound, Execute, Settled
<1>5. CASE Abandon \/ ExceptEngine \/ CloseRun
  BY <1>0, <1>5 DEF TypeOK, OutboxInv, OutboxSound, Abandon, ExceptEngine, CloseRun
<1>6. CASE Claim \/ Finish \/ Requeue \/ GiveUp \/ Boot
  <2>1. \A j \in Jobs : queueStatus'[j] = "none" => queueStatus[j] = "none"
    BY <1>6 DEF TypeOK, RunInv, Claim, Finish, Requeue, GiveUp, Boot, Recovered
  <2>2. UNCHANGED <<snapshots, runStatus, outbox, profileOf>>
    BY <1>6 DEF Claim, Finish, Requeue, GiveUp, Boot
  <2> QED BY <1>0, <2>1, <2>2 DEF OutboxInv, OutboxSound
<1>7. ASSUME NEW j \in Jobs, Enqueue(j) PROVE OutboxInv'
  BY <1>0, <1>7 DEF TypeOK, OutboxInv, OutboxSound, Enqueue
<1>8. ASSUME NEW p \in Profiles, DeleteProfile(p) PROVE OutboxInv'
  BY <1>0, <1>8 DEF TypeOK, OutboxInv, OutboxSound, DeleteProfile
<1>9. ASSUME UNCHANGED <<snapshots, runStatus, queueStatus, outbox, profileOf>> PROVE OutboxInv'
  BY <1>0, <1>9 DEF OutboxInv, OutboxSound
<1>10. Start \/ LeaseBusy \/ AcquireLease \/ ProfileUnusable \/ BindProfile \/ ReleaseLease
       \/ PlanNothing \/ PlanNotification \/ EnqueueOrphan \/ RowMissing \/ Crash \/ CallRaises
       \/ LeaseExpires \/ (\E j \in Jobs : DelayElapses(j)) \/ UNCHANGED vars
       \/ (\E p \in Profiles : \E enabled \in BOOLEAN : SetEnabled(p, enabled))
       => UNCHANGED <<snapshots, runStatus, queueStatus, outbox, profileOf>>
  BY DEF Start, LeaseBusy, AcquireLease, ProfileUnusable, BindProfile, ReleaseLease, PlanNothing,
         PlanNotification, EnqueueOrphan, RowMissing, Crash, CallRaises, LeaseExpires, DelayElapses,
         SetEnabled
<1> QED
  BY <1>1, <1>2, <1>3, <1>4, <1>5, <1>6, <1>7, <1>8, <1>9, <1>10
  DEF Next, Worker, Engine, Environment

-----------------------------------------------------------------------------
(* The policy of the profile                                                 *)

Quiet == crashes + errors = 0

\* Without a fault a job is run once and then planned: a queued row is as it was put
\* there, the one running row is the worker's, and only the deletion of a profile between
\* plan and enqueue makes the worker handle an exception.
QuietInv ==
  Quiet =>
    /\ ~raising /\ pc \notin {"abandon", "closeRun"}
    /\ \A j \in Jobs : queueStatus[j] = "queued" => runStatus[j] = "queued" /\ outbox[j] = "none"
    /\ \A j \in Jobs : queueStatus[j] = "running" => job = j
    /\ pc \notin Resting \union {"handle"} => outbox[job] = "none"
    /\ pc \in {"claimed", "lease", "load", "bind", "execute", "except"} => runStatus[job] \in Active
    /\ pc = "handle" => queueStatus[job] = "deleted"
    /\ pc \in {"plan", "enqueue"} => queueStatus[job] \in {outcome, "deleted"}

\* Where the snapshot of j stands, or will.
PlaceOf(j) == IF Published(j) THEN PositionOf(j) ELSE Len(snapshots) + 1

\* What the worker compares with is what the profile was told before this run.
ComparedInv ==
  Quiet =>
    (pc \notin Resting \union {"claimed"} /\ queueStatus[job] # "deleted"
       => previous = LatestMatches(profileOf[job], PlaceOf(job)))

\* What the policy asks for, while nothing fails.
PolicyInv == Quiet => \A j \in Jobs : Done(j) => outbox[j] = Required(j)

\* The parts that hold with faults, too.
BaseInv ==
  /\ TypeOK /\ HoldInv /\ RunInv /\ AttemptInv /\ CoveredAgrees /\ ProfileInv
  /\ PublishInv /\ LeaseInv /\ FailedInv /\ OutboxInv

LEMMA QuietBefore ==
  ASSUME TypeOK, [Next]_vars, Quiet'
  PROVE  Quiet /\ ~ Crash /\ ~ CallRaises
<1>1. crashes \in Nat /\ errors \in Nat
  BY BoundsAssumption DEF TypeOK
<1>2. CASE Crash \/ CallRaises
  BY <1>1, <1>2 DEF Crash, CallRaises, Quiet
<1>3. ~ Crash /\ ~ CallRaises => UNCHANGED <<crashes, errors>>
  BY DEF Next, vars, faultVars, Worker, Engine, Environment, Boot, Claim, Start, LeaseBusy, AcquireLease,
     Abandon, ProfileUnusable, LoadProfile, BindProfile, Execute, RecordSnapshot, ExceptEngine,
     ReleaseLease, Finish, PlanNothing, PlanNotification, EnqueueNotification, EnqueueOrphan,
     Requeue, GiveUp, CloseRun, RowMissing, Enqueue, DelayElapses, DeleteProfile, SetEnabled, LeaseExpires
<1> QED BY <1>2, <1>3 DEF Quiet

LEMMA NextQuietInv ==
  ASSUME BaseInv, QuietInv, [Next]_vars
  PROVE  QuietInv'
<1> SUFFICES ASSUME Quiet' PROVE QuietInv'
  BY DEF QuietInv
<1>0. Quiet /\ ~ Crash /\ ~ CallRaises
  BY QuietBefore DEF BaseInv
<1> USE <1>0, JobsAreNat DEF BaseInv, vars, dbVars, queueVars, leaseVars, snapVars, runVars, localVars,
        faultVars, Goto, Forget, PCs, Resting, Executing
<1>a. crashes + errors = 0
  BY DEF Quiet
<1>1. CASE Claim
  BY <1>1 DEF TypeOK, QuietInv, Claim, Claimable
<1>2. CASE Start  BY <1>2 DEF TypeOK, QuietInv, Start, Settled
<1>3. CASE LeaseBusy
  BY <1>a, <1>3 DEF TypeOK, LeaseInv, LeaseBusy
<1>4. CASE AcquireLease
  BY <1>a, <1>4 DEF TypeOK, LeaseInv, QuietInv, AcquireLease
<1>5. CASE Abandon \/ CloseRun
  BY <1>5 DEF QuietInv, Abandon, CloseRun
<1>6. CASE ProfileUnusable  BY <1>6 DEF TypeOK, QuietInv, ProfileUnusable
<1>7. CASE LoadProfile  BY <1>7 DEF TypeOK, HoldInv, QuietInv, LoadProfile
<1>8. CASE BindProfile  BY <1>8 DEF TypeOK, QuietInv, BindProfile
<1>9. CASE Execute  BY <1>9 DEF TypeOK, HoldInv, QuietInv, Execute
<1>10. CASE RecordSnapshot  BY <1>10 DEF TypeOK, QuietInv, RecordSnapshot
<1>11. CASE ExceptEngine  BY <1>11 DEF TypeOK, HoldInv, QuietInv, ExceptEngine
<1>12. CASE ReleaseLease  BY <1>12 DEF TypeOK, QuietInv, ReleaseLease
<1>13. CASE Finish  BY <1>13 DEF TypeOK, RunInv, QuietInv, Finish
<1>14. CASE PlanNothing \/ EnqueueNotification
  <2>1. job \in Jobs /\ queueStatus[job] \notin {"queued", "running"} /\ pc' = "idle" /\ ~ raising'
        /\ UNCHANGED <<queueStatus, runStatus>>
    BY <1>14 DEF TypeOK, HoldInv, PlanNothing, EnqueueNotification
  <2>2. \A j \in Jobs \ {job} : outbox'[j] = outbox[j]
    BY <1>14 DEF TypeOK, PlanNothing, EnqueueNotification
  <2> QED BY <2>1, <2>2 DEF QuietInv
<1>15. CASE PlanNotification  BY <1>15 DEF TypeOK, QuietInv, PlanNotification
<1>16. CASE EnqueueOrphan  BY <1>16 DEF TypeOK, HoldInv, ProfileInv, QuietInv, EnqueueOrphan
<1>17. CASE Requeue \/ GiveUp  BY <1>17 DEF QuietInv, Requeue, GiveUp
<1>18. CASE RowMissing
  BY <1>18 DEF TypeOK, QuietInv, RowMissing
<1>19. CASE Boot  BY <1>19 DEF TypeOK, QuietInv, Boot, Recovered
<1>20. ASSUME NEW j \in Jobs, Enqueue(j) PROVE QuietInv'
  <2>1. pc \notin Resting => job # j
    BY <1>20 DEF TypeOK, HoldInv, Enqueue
  <2>2. outbox[j] = "none"
    BY <1>20 DEF OutboxInv, Enqueue
  <2> QED BY <1>20, <2>1, <2>2 DEF TypeOK, QuietInv, Enqueue
<1>21. ASSUME NEW p \in Profiles, DeleteProfile(p) PROVE QuietInv'
  BY <1>21 DEF TypeOK, QuietInv, DeleteProfile
<1>22. CASE UNCHANGED <<queueStatus, runStatus, outbox, pc, job, outcome, raising>>
  BY <1>22 DEF QuietInv
<1>23. LeaseExpires \/ UNCHANGED vars \/ (\E j \in Jobs : DelayElapses(j))
       \/ (\E p \in Profiles : \E enabled \in BOOLEAN : SetEnabled(p, enabled))
       => UNCHANGED <<queueStatus, runStatus, outbox, pc, job, outcome, raising>>
  BY DEF LeaseExpires, DelayElapses, SetEnabled
<1> QED
  BY <1>1, <1>2, <1>3, <1>4, <1>5, <1>6, <1>7, <1>8, <1>9, <1>10, <1>11, <1>12, <1>13, <1>14,
     <1>15, <1>16, <1>17, <1>18, <1>19, <1>20, <1>21, <1>22, <1>23
  DEF Next, Worker, Engine, Environment

\* No step changes the order of what was published, and, for the profile of a row that
\* stays, nothing of what it was told.
LEMMA StepPast ==
  ASSUME BaseInv, QuietInv, [Next]_vars, Quiet'
  PROVE  /\ profileOf' = profileOf
         /\ Len(snapshots) <= Len(snapshots') /\ Len(snapshots') \in Nat
         /\ \A k \in 1..Len(snapshots) : snapshots'[k] = snapshots[k]
         /\ \A j \in Jobs : queueStatus'[j] \notin {"none", "deleted"} =>
              \A k \in 1..Len(snapshots) :
                profileOf[snapshots[k]] = profileOf[j] =>
                  /\ snapshots[k] \in bound' <=> snapshots[k] \in bound
                  /\ matches'[snapshots[k]] = matches[snapshots[k]]
<1>0. Quiet /\ ~ Crash /\ ~ CallRaises
  BY QuietBefore DEF BaseInv
<1>1. snapshots \in Seq(Jobs) /\ Len(snapshots) \in Nat
      /\ \A k \in 1..Len(snapshots) : snapshots[k] \in Jobs /\ Published(snapshots[k])
  BY DEF BaseInv, TypeOK, Published
<1>2. CASE RecordSnapshot
  <2>1. job \in Jobs /\ ~ Published(job)
    BY <1>2, JobsAreNat DEF BaseInv, TypeOK, PublishInv, RecordSnapshot, Resting
  <2>2. snapshots' = Append(snapshots, job) /\ UNCHANGED <<bound, profileOf>>
        /\ \A i \in Jobs \ {job} : matches'[i] = matches[i]
    BY <1>2 DEF RecordSnapshot, runVars, queueVars, BaseInv, TypeOK
  <2>3. /\ Len(snapshots') = Len(snapshots) + 1
        /\ \A k \in 1..Len(snapshots) : snapshots'[k] = snapshots[k]
    BY <1>1, <2>1, <2>2
  <2> QED BY <1>1, <2>1, <2>2, <2>3
<1>3. CASE BindProfile
  <2>1. job \in Jobs /\ runStatus[job] \notin Terminal
    BY <1>0, <1>3, JobsAreNat DEF BaseInv, TypeOK, QuietInv, BindProfile, Resting
  <2>2. ~ Published(job)
    BY <2>1 DEF BaseInv, PublishInv
  <2>3. bound' = bound \union {job} /\ UNCHANGED <<snapshots, matches, profileOf>>
    BY <1>3 DEF BindProfile, snapVars, queueVars
  <2> QED BY <1>1, <2>2, <2>3
<1>4. ASSUME NEW p \in Profiles, DeleteProfile(p)
      PROVE  /\ UNCHANGED <<snapshots, matches, profileOf>>
             /\ \A j \in Jobs : queueStatus'[j] \notin {"none", "deleted"} =>
                  \A i \in Jobs : profileOf[i] = profileOf[j] => (i \in bound' <=> i \in bound)
  BY <1>4 DEF DeleteProfile, snapVars, BaseInv, TypeOK
<1>5. CASE \E p \in Profiles : DeleteProfile(p)
  BY <1>1, <1>4, <1>5
<1>6. CASE UNCHANGED <<snapshots, matches, profileOf, bound>>
  BY <1>1, <1>6
<1>7. UNCHANGED <<snapshots, matches, profileOf, bound>> \/ RecordSnapshot \/ BindProfile
      \/ \E p \in Profiles : DeleteProfile(p)
  BY <1>0 DEF Next, Worker, Engine, Environment, Boot, Claim, Start, LeaseBusy, AcquireLease,
     Abandon, ProfileUnusable, LoadProfile, Execute, ExceptEngine, ReleaseLease, Finish, PlanNothing,
     PlanNotification, EnqueueNotification, EnqueueOrphan, Requeue, GiveUp, CloseRun, RowMissing,
     Enqueue, DelayElapses, SetEnabled, LeaseExpires, vars, dbVars, queueVars, snapVars, runVars
<1> QED BY <1>2, <1>3, <1>5, <1>6, <1>7

\* What the profile of a row that stays was told up to a place.
LEMMA StepLatest ==
  ASSUME BaseInv, QuietInv, [Next]_vars, Quiet', NEW j \in Jobs,
         queueStatus'[j] \notin {"none", "deleted"}, NEW p, p = profileOf[j],
         NEW n \in 1..(Len(snapshots) + 1)
  PROVE  LatestMatches(p, n)' = LatestMatches(p, n)
<1>1. /\ profileOf' = profileOf /\ Len(snapshots) <= Len(snapshots') /\ Len(snapshots') \in Nat
      /\ \A k \in 1..Len(snapshots) : snapshots'[k] = snapshots[k]
      /\ \A k \in 1..Len(snapshots) :
           profileOf[snapshots[k]] = p =>
             /\ snapshots[k] \in bound' <=> snapshots[k] \in bound
             /\ matches'[snapshots[k]] = matches[snapshots[k]]
  BY StepPast
<1>2. Len(snapshots) \in Nat
  BY DEF BaseInv, TypeOK
<1>3. SnapshotsOf(p, n)' = SnapshotsOf(p, n)
  <2>1. ASSUME NEW i, i \in SnapshotsOf(p, n)'
        PROVE  i \in SnapshotsOf(p, n)
    <3>1. /\ i \in 1..Len(snapshots') /\ i < n /\ snapshots'[i] \in bound'
          /\ profileOf'[snapshots'[i]] = p
      BY <2>1 DEF SnapshotsOf
    <3>2. i \in 1..Len(snapshots)
      BY <3>1, <1>1, <1>2
    <3> QED BY <3>1, <3>2, <1>1 DEF SnapshotsOf
  <2>2. ASSUME NEW i, i \in SnapshotsOf(p, n)
        PROVE  i \in SnapshotsOf(p, n)'
    <3>1. i \in 1..Len(snapshots) /\ i < n /\ snapshots[i] \in bound /\ profileOf[snapshots[i]] = p
      BY <2>2 DEF SnapshotsOf
    <3>2. i \in 1..Len(snapshots')
      BY <3>1, <1>1, <1>2
    <3> QED BY <3>1, <3>2, <1>1 DEF SnapshotsOf
  <2> QED BY <2>1, <2>2
<1>4. \A i \in SnapshotsOf(p, n) : matches'[snapshots'[i]] = matches[snapshots[i]]
  BY <1>1 DEF SnapshotsOf
<1> DEFINE newest == {k \in SnapshotsOf(p, n) : \A l \in SnapshotsOf(p, n) : l <= k}
<1>5. {matches'[snapshots'[i]] : i \in newest} = {matches[snapshots[i]] : i \in newest}
  BY <1>4
<1>6. LatestMatches(p, n) = UNION {matches[snapshots[i]] : i \in newest}
  BY DEF LatestMatches
<1>7. LatestMatches(p, n)' = UNION {matches'[snapshots'[i]] : i \in newest}
  BY <1>3 DEF LatestMatches
<1> QED BY <1>5, <1>6, <1>7

LEMMA Places ==
  ASSUME TypeOK, NEW j \in Jobs, Published(j)
  PROVE  PositionOf(j) \in 1..Len(snapshots) /\ snapshots[PositionOf(j)] = j
  BY DEF Published, PositionOf

\* A place once taken is kept, and a run is published at the end.
LEMMA StepPlaces ==
  ASSUME BaseInv, QuietInv, [Next]_vars, Quiet', NEW j \in Jobs
  PROVE  /\ Published(j)' <=> Published(j) \/ (RecordSnapshot /\ j = job)
         /\ Published(j) => PositionOf(j)' = PositionOf(j)
         /\ RecordSnapshot /\ j = job => PositionOf(j)' = Len(snapshots) + 1
<1>0. TypeOK /\ TypeOK' /\ PublishedOnce'
  <2>1. PublishInv'
    BY NextPublishInv DEF BaseInv
  <2>2. TypeOK'
    BY NextTypeOK DEF BaseInv
  <2> QED BY <2>1, <2>2 DEF BaseInv, PublishInv
<1>1. /\ Len(snapshots) <= Len(snapshots') /\ Len(snapshots') \in Nat /\ Len(snapshots) \in Nat
      /\ \A k \in 1..Len(snapshots) : snapshots'[k] = snapshots[k]
  BY <1>0, StepPast DEF TypeOK
<1>2. CASE RecordSnapshot
  <2>1. job \in Jobs /\ snapshots' = Append(snapshots, job)
    BY <1>2, <1>0, JobsAreNat DEF TypeOK, RecordSnapshot, Resting
  <2>2. Published(j)' <=> Published(j) \/ j = job
    BY <1>0, <2>1, PublishedAfterAppend DEF TypeOK
  <2>3. Len(snapshots) + 1 \in 1..Len(snapshots') /\ snapshots'[Len(snapshots) + 1] = job
    BY <1>0, <2>1 DEF TypeOK
  <2>4. ASSUME NEW m \in 1..Len(snapshots'), snapshots'[m] = j
        PROVE  PositionOf(j)' = m
    <3>1. \A i \in 1..Len(snapshots') : snapshots'[i] = j => i = m
      BY <1>0, <2>4 DEF PublishedOnce
    <3> QED BY <2>4, <3>1 DEF PositionOf
  <2>5. ASSUME Published(j) PROVE PositionOf(j)' = PositionOf(j)
    <3>1. PositionOf(j) \in 1..Len(snapshots) /\ snapshots[PositionOf(j)] = j
      BY <1>0, <2>5, Places
    <3>2. PositionOf(j) \in 1..Len(snapshots') /\ snapshots'[PositionOf(j)] = j
      BY <1>1, <3>1
    <3> QED BY <2>4, <3>2
  <2> QED BY <1>2, <2>2, <2>3, <2>4, <2>5
<1>3. CASE UNCHANGED snapshots
  <2>1. ~ RecordSnapshot
    <3>1. SUFFICES ASSUME RecordSnapshot PROVE FALSE
      OBVIOUS
    <3>2. job \in Jobs /\ snapshots' = Append(snapshots, job)
      BY <3>1, <1>0, JobsAreNat DEF TypeOK, RecordSnapshot, Resting
    <3>3. Len(snapshots') = Len(snapshots) + 1
      BY <1>0, <3>2 DEF TypeOK
    <3> QED BY <1>3, <3>3, <1>1
  <2> QED BY <1>3, <2>1 DEF Published, PositionOf
<1>4. UNCHANGED snapshots \/ RecordSnapshot
  <2>1. ~ Crash /\ ~ CallRaises
    BY QuietBefore DEF BaseInv
  <2> QED BY <2>1 DEF Next, Worker, Engine, Environment, Boot, Claim, Start, LeaseBusy, AcquireLease,
     Abandon, ProfileUnusable, LoadProfile, BindProfile, Execute, ExceptEngine, ReleaseLease, Finish,
     PlanNothing, PlanNotification, EnqueueNotification, EnqueueOrphan, Requeue, GiveUp, CloseRun,
     RowMissing, Enqueue, DelayElapses, DeleteProfile, SetEnabled, LeaseExpires, vars, dbVars, snapVars
<1> QED BY <1>2, <1>3, <1>4

LEMMA NextComparedInv ==
  ASSUME BaseInv, QuietInv, ComparedInv, [Next]_vars
  PROVE  ComparedInv'
<1> SUFFICES ASSUME Quiet', pc' \notin Resting \union {"claimed"}, queueStatus'[job'] # "deleted"
             PROVE  previous' = LatestMatches(profileOf[job], PlaceOf(job))'
  BY DEF ComparedInv
<1>0. Quiet /\ ~ Crash /\ ~ CallRaises /\ TypeOK /\ TypeOK' /\ HoldInv /\ HoldInv'
  <2>1. Quiet /\ ~ Crash /\ ~ CallRaises
    BY QuietBefore DEF BaseInv
  <2>2. TypeOK' /\ HoldInv'
    BY NextTypeOK, NextHoldInv DEF BaseInv
  <2> QED BY <2>1, <2>2 DEF BaseInv
<1>1. job' \in Jobs /\ profileOf' = profileOf
  BY <1>0, StepPast DEF TypeOK, Resting
<1>2. queueStatus'[job'] \notin {"none", "deleted"}
  <2>1. pc' # "handle" \/ queueStatus'[job'] # "none"
    BY <1>0 DEF HoldInv
  <2> QED BY <2>1, <1>0 DEF HoldInv, TypeOK, PCs, Resting, Executing
<1> DEFINE p == profileOf[job']
<1>3. CASE Start
  <2>1. job \in Jobs /\ job' = job /\ previous' = Previous(p) /\ UNCHANGED snapshots
        /\ runStatus[job] \notin Terminal
    BY <1>0, <1>3, JobsAreNat DEF Start, TypeOK, QuietInv, dbVars, snapVars, Resting
  <2>2. ~ Published(job)
    BY <2>1 DEF BaseInv, PublishInv
  <2>3. PlaceOf(job)' = Len(snapshots) + 1
    BY <2>1, <2>2 DEF PlaceOf, Published
  <2>4. ASSUME NEW q, q = p, NEW n, n = Len(snapshots) + 1
        PROVE  LatestMatches(q, n)' = LatestMatches(q, n)
    <3>1. n \in 1..(Len(snapshots) + 1)
      BY <1>0, <2>4 DEF TypeOK
    <3> QED BY <1>1, <1>2, <2>4, <3>1, StepLatest
  <2> QED BY <1>1, <2>1, <2>3, <2>4 DEF Previous
<1>4. CASE UNCHANGED <<previous, job>> /\ pc \notin Resting \union {"claimed"}
           /\ queueStatus[job] # "deleted"
  <2>1. job \in Jobs /\ job' = job /\ previous' = previous
        /\ previous = LatestMatches(p, PlaceOf(job))
    BY <1>0, <1>1, <1>4 DEF ComparedInv
  <2>2. PlaceOf(job)' = PlaceOf(job) /\ PlaceOf(job) \in 1..(Len(snapshots) + 1)
    <3>1. /\ Published(job)' <=> Published(job) \/ RecordSnapshot
          /\ Published(job) => PositionOf(job)' = PositionOf(job)
          /\ RecordSnapshot => PositionOf(job)' = Len(snapshots) + 1
      <4>1. ASSUME NEW j \in Jobs, j = job
            PROVE  /\ Published(j)' <=> Published(j) \/ RecordSnapshot
                   /\ Published(j) => PositionOf(j)' = PositionOf(j)
                   /\ RecordSnapshot => PositionOf(j)' = Len(snapshots) + 1
        BY <4>1, StepPlaces
      <4> QED BY <2>1, <4>1 DEF Published, PositionOf
    <3>2. Published(job) => PositionOf(job) \in 1..Len(snapshots)
      BY <1>0, <2>1, Places
    <3>3. Len(snapshots) \in Nat
      BY <1>0 DEF TypeOK
    <3>4. RecordSnapshot => ~ Published(job)
      BY DEF BaseInv, PublishInv, RecordSnapshot
    <3>5. ~ RecordSnapshot => UNCHANGED snapshots
      BY <1>0 DEF Next, Worker, Engine, Environment, Boot, Claim, Start, LeaseBusy, AcquireLease,
     Abandon, ProfileUnusable, LoadProfile, BindProfile, Execute, ExceptEngine, ReleaseLease, Finish,
     PlanNothing, PlanNotification, EnqueueNotification, EnqueueOrphan, Requeue, GiveUp, CloseRun,
     RowMissing, Enqueue, DelayElapses, DeleteProfile, SetEnabled, LeaseExpires, vars, dbVars, snapVars
    <3> QED BY <3>1, <3>2, <3>3, <3>4, <3>5 DEF PlaceOf
  <2>3. ASSUME NEW q, q = p, NEW n, n = PlaceOf(job)
        PROVE  LatestMatches(q, n)' = LatestMatches(q, n)
    BY <1>1, <1>2, <2>2, <2>3, StepLatest
  <2> QED BY <1>1, <2>1, <2>2, <2>3
<1>5. ASSUME Engine
      PROVE  UNCHANGED <<previous, job>> /\ pc \in Executing \ {"claimed"}
  BY <1>5, <1>0 DEF Engine, LeaseBusy, AcquireLease, Abandon, ProfileUnusable, LoadProfile, BindProfile,
     Execute, RecordSnapshot, ExceptEngine, ReleaseLease, Goto, localVars, Executing, PCs, Resting
<1>6. CASE Engine
  BY <1>0, <1>4, <1>5, <1>6 DEF HoldInv, Executing, Resting
<1>7. CASE Finish
  BY <1>0, <1>4, <1>7 DEF Finish, Goto, localVars, HoldInv, Executing, PCs, Resting
<1>8. CASE PlanNotification \/ EnqueueOrphan
  BY <1>4, <1>8 DEF PlanNotification, EnqueueOrphan, Goto, localVars, dbVars, queueVars, Resting
<1>9. CASE Environment
  <2>1. UNCHANGED <<pc, previous, job>>
    BY <1>9 DEF Environment, Enqueue, DelayElapses, DeleteProfile, SetEnabled, LeaseExpires, localVars
  <2>2. queueStatus[job] # "deleted"
    BY <1>0, <1>1, <1>9, <2>1 DEF Environment, Enqueue, DelayElapses, DeleteProfile, SetEnabled,
       LeaseExpires, queueVars, TypeOK
  <2> QED BY <1>4, <2>1, <2>2
<1>10. CASE UNCHANGED vars
  BY <1>4, <1>10 DEF vars, localVars, dbVars, queueVars
<1>11. Claim \/ PlanNothing \/ EnqueueNotification \/ Requeue \/ CloseRun \/ RowMissing \/ Boot
       => pc' \in Resting \union {"claimed"}
  BY DEF Claim, PlanNothing, EnqueueNotification, Requeue, CloseRun, RowMissing, Boot, Forget, Resting
<1>12. ~ GiveUp
  BY <1>0 DEF QuietInv, GiveUp
<1> QED BY <1>0, <1>3, <1>6, <1>7, <1>8, <1>9, <1>10, <1>11, <1>12 DEF Next, Worker

\* The planner, with what the worker compared, decides as the policy asks.
LEMMA PlannedIsRequired ==
  ASSUME BaseInv, QuietInv, ComparedInv, Quiet, pc \in {"plan", "enqueue"},
         queueStatus[job] \in Terminal
  PROVE  Planned(job, outcome, previous) = Required(job)
<1>1. job \in Jobs /\ queueStatus[job] = outcome
  BY DEF BaseInv, TypeOK, QuietInv, Resting
<1>2. CASE queueStatus[job] = "failed" \/ ~ Published(job)
  BY <1>1, <1>2 DEF Required, Planned
<1>3. CASE queueStatus[job] # "failed" /\ Published(job)
  <2>1. previous = LatestMatches(profileOf[job], PositionOf(job))
    BY <1>3 DEF ComparedInv, PlaceOf, Resting
  <2> QED BY <1>1, <1>3, <2>1 DEF Required
<1> QED BY <1>2, <1>3

\* What the policy asks for a settled row does not change any more.
LEMMA SameRequired ==
  ASSUME BaseInv, QuietInv, [Next]_vars, Quiet', NEW j \in Jobs,
         queueStatus[j] \in Terminal, queueStatus'[j] = queueStatus[j],
         ~ (RecordSnapshot /\ j = job), matches'[j] = matches[j]
  PROVE  Required(j)' = Required(j)
<1>1. profileOf' = profileOf /\ queueStatus'[j] \notin {"none", "deleted"} /\ TypeOK
  BY StepPast DEF BaseInv
<1>2. (Published(j)' <=> Published(j)) /\ (Published(j) => PositionOf(j)' = PositionOf(j))
  BY StepPlaces
<1>3. ASSUME NEW status, NEW old
      PROVE  Planned(j, status, old)' = Planned(j, status, old)
  BY <1>1, <1>2 DEF Planned, Changes
<1>4. CASE queueStatus[j] = "failed" \/ ~ Published(j)
  BY <1>2, <1>3, <1>4 DEF Required
<1>5. CASE ~ (queueStatus[j] = "failed" \/ ~ Published(j))
  <2>1. PositionOf(j) \in 1..(Len(snapshots) + 1)
    BY <1>1, <1>5, Places DEF TypeOK
  <2>2. ASSUME NEW q, q = profileOf[j], NEW n, n = PositionOf(j)
        PROVE  LatestMatches(q, n)' = LatestMatches(q, n)
    BY <1>1, <2>1, <2>2, StepLatest
  <2>3. LatestMatches(profileOf[j], PositionOf(j))' = LatestMatches(profileOf[j], PositionOf(j))
    BY <1>1, <1>2, <1>5, <2>2
  <2> QED BY <1>2, <1>3, <1>5, <2>3 DEF Required
<1> QED BY <1>4, <1>5

LEMMA NextPolicyInv ==
  ASSUME BaseInv, QuietInv, ComparedInv, PolicyInv, [Next]_vars
  PROVE  PolicyInv'
<1> SUFFICES ASSUME Quiet', NEW j \in Jobs, queueStatus'[j] \in Terminal, job' # j
             PROVE  outbox'[j] = Required(j)'
  BY DEF PolicyInv, Done
<1>0. Quiet /\ ~ Crash /\ ~ CallRaises /\ TypeOK
  BY QuietBefore DEF BaseInv
<1> USE DEF dbVars, queueVars, leaseVars, snapVars, runVars, localVars, Goto, Forget, Resting
<1>1. ASSUME queueStatus[j] = queueStatus'[j], job # j, outbox'[j] = outbox[j], matches'[j] = matches[j]
      PROVE  outbox'[j] = Required(j)'
  <2>1. Done(j)
    BY <1>1 DEF Done
  <2>2. outbox[j] = Required(j)
    BY <1>0, <2>1 DEF PolicyInv
  <2>3. Required(j)' = Required(j)
    BY <1>1, SameRequired
  <2> QED BY <1>1, <2>2, <2>3
<1>2. CASE PlanNothing \/ EnqueueNotification
  <2>1. /\ job \in Jobs /\ UNCHANGED <<queueStatus, matches>>
        /\ \A i \in Jobs \ {job} : outbox'[i] = outbox[i]
        /\ pc \in {"plan", "enqueue"}
    BY <1>0, <1>2 DEF PlanNothing, EnqueueNotification, TypeOK
  <2>2. CASE job # j
    BY <1>1, <2>1, <2>2
  <2>3. CASE job = j
    <3>1. queueStatus[job] \in Terminal /\ queueStatus[job] = outcome
      BY <1>0, <2>1, <2>3 DEF QuietInv
    <3>2. Planned(job, outcome, previous) = Required(job)
      BY <1>0, <2>1, <3>1, PlannedIsRequired
    <3>3. outbox[job] = "none"
      BY <1>0, <2>1 DEF QuietInv
    <3>4. profile[profileOf[job]] # "absent"
      BY <2>1, <3>1 DEF BaseInv, ProfileInv
    <3>5. outbox'[job] = Planned(job, outcome, previous)
      BY <1>0, <1>2, <2>1, <3>3, <3>4 DEF PlanNothing, EnqueueNotification, TypeOK
    <3>6. ~ RecordSnapshot
      BY <2>1 DEF RecordSnapshot
    <3>7. Required(j)' = Required(j)
      BY <2>1, <2>3, <3>1, <3>6, SameRequired
    <3> QED BY <2>3, <3>2, <3>5, <3>7
  <2> QED BY <2>2, <2>3
<1>3. CASE RowMissing
  <2>1. job # j /\ UNCHANGED <<queueStatus, matches, outbox>>
    BY <1>3 DEF RowMissing
  <2> QED BY <1>1, <2>1
<1>4. CASE RecordSnapshot
  <2>1. job # j /\ UNCHANGED <<queueStatus, outbox>> /\ matches'[j] = matches[j]
    BY <1>0, <1>4 DEF RecordSnapshot, TypeOK
  <2> QED BY <1>1, <2>1
<1>5. CASE Claim
  <2>1. job # j
    BY <1>0, <1>5, JobsAreNat DEF Claim, TypeOK
  <2>2. queueStatus'[j] = queueStatus[j] /\ UNCHANGED <<matches, outbox>>
    BY <1>0, <1>5 DEF Claim, Claimable, TypeOK
  <2> QED BY <1>1, <2>1, <2>2
<1>6. CASE Finish
  <2>1. job # j /\ queueStatus'[j] = queueStatus[j] /\ UNCHANGED <<matches, outbox>>
    BY <1>0, <1>6 DEF Finish, TypeOK
  <2> QED BY <1>1, <2>1
<1>7. CASE Boot
  <2>1. job # j
    BY <1>0, <1>7, JobsAreNat DEF Boot, TypeOK
  <2>2. queueStatus'[j] = queueStatus[j] /\ UNCHANGED <<matches, outbox>>
    BY <1>0, <1>7 DEF Boot, Recovered, TypeOK
  <2> QED BY <1>1, <2>1, <2>2
<1>8. ASSUME NEW i \in Jobs, Enqueue(i) PROVE outbox'[j] = Required(j)'
  <2>1. job # j /\ queueStatus'[j] = queueStatus[j] /\ UNCHANGED <<matches, outbox>>
    BY <1>0, <1>8 DEF Enqueue, TypeOK
  <2> QED BY <1>1, <2>1
<1>9. ASSUME NEW p \in Profiles, DeleteProfile(p) PROVE outbox'[j] = Required(j)'
  <2>1. job # j /\ queueStatus'[j] = queueStatus[j] /\ UNCHANGED matches /\ outbox'[j] = outbox[j]
    BY <1>0, <1>9 DEF DeleteProfile, TypeOK
  <2> QED BY <1>1, <2>1
<1>10. CASE UNCHANGED <<queueStatus, matches, outbox, job>>
  BY <1>1, <1>10
<1>11. Start \/ LeaseBusy \/ AcquireLease \/ Abandon \/ ProfileUnusable \/ LoadProfile \/ BindProfile
       \/ Execute \/ ExceptEngine \/ ReleaseLease \/ PlanNotification \/ EnqueueOrphan \/ LeaseExpires
       \/ (\E i \in Jobs : DelayElapses(i)) \/ UNCHANGED vars
       \/ (\E p \in Profiles : \E enabled \in BOOLEAN : SetEnabled(p, enabled))
       => UNCHANGED <<queueStatus, matches, outbox, job>>
  BY DEF Start, LeaseBusy, AcquireLease, Abandon, ProfileUnusable, LoadProfile, BindProfile, Execute,
     ExceptEngine, ReleaseLease, PlanNotification, EnqueueOrphan, LeaseExpires, DelayElapses, SetEnabled, vars
<1>12. ~ Requeue /\ ~ GiveUp /\ ~ CloseRun
  BY <1>0 DEF QuietInv, Requeue, GiveUp, CloseRun
<1> QED
  BY <1>0, <1>2, <1>3, <1>4, <1>5, <1>6, <1>7, <1>8, <1>9, <1>10, <1>11, <1>12
  DEF Next, Worker, Engine, Environment

-----------------------------------------------------------------------------
(* Theorems                                                                  *)

\* All that the steps need of one another.
IInv == BaseInv /\ QuietInv /\ ComparedInv /\ PolicyInv

LEMMA InitIInv == Init => IInv
<1> SUFFICES ASSUME Init PROVE IInv
  OBVIOUS
<1> USE JobsAreNat, BoundsAssumption DEF Init, Resting, Executing, PCs
<1>1. TypeOK  BY InitTypeOK
<1>2. HoldInv /\ RunInv /\ CoveredAgrees /\ LeaseInv
  BY DEF HoldInv, RunInv, CoveredAgrees, LeaseInv
<1>3. AttemptInv  BY DEF AttemptInv
<1>4. ProfileInv  BY DEF ProfileInv
<1>5. \A j \in Jobs : ~Published(j)  BY DEF Published
<1>6. PublishInv /\ FailedInv
  BY <1>5 DEF PublishInv, PublishedOnce, FailedInv
<1>7. OutboxInv  BY DEF OutboxInv, OutboxSound
<1>8. QuietInv /\ ComparedInv /\ PolicyInv
  BY DEF QuietInv, ComparedInv, PolicyInv, Done
<1> QED BY <1>1, <1>2, <1>3, <1>4, <1>6, <1>7, <1>8 DEF IInv, BaseInv

LEMMA NextIInv == IInv /\ [Next]_vars => IInv'
<1> SUFFICES ASSUME IInv, [Next]_vars PROVE IInv'
  OBVIOUS
<1>1. BaseInv'
  BY NextTypeOK, NextHoldInv, NextRunInv, NextAttemptInv, NextCoveredAgrees, NextProfileInv,
     NextPublishInv, NextLeaseInv, NextFailedInv, NextOutboxInv DEF IInv, BaseInv
<1> QED BY <1>1, NextQuietInv, NextComparedInv, NextPolicyInv DEF IInv

LEMMA Invariance == Spec => []IInv
  BY InitIInv, NextIInv, PTL DEF Spec

\* A job is tried at most max_attempts times, and once more for each crash.
THEOREM AttemptsBounded == Spec => []AttemptBound
<1>1. IInv => AttemptBound  BY DEF IInv, BaseInv, AttemptInv, AttemptBound
<1> QED BY <1>1, Invariance, PTL

\* A queue row that says completed or partial agrees with the run it stands for.
THEOREM CoverageAgrees == Spec => []CoveredAgrees
<1>1. IInv => CoveredAgrees  BY DEF IInv, BaseInv
<1> QED BY <1>1, Invariance, PTL

\* However often a run is interrupted and resumed, it is published at most once.
THEOREM PublicationOnce == Spec => []PublishedOnce
<1>1. IInv => PublishedOnce  BY DEF IInv, BaseInv, PublishInv
<1> QED BY <1>1, Invariance, PTL

\* No profile is deleted under a run that works for it.
THEOREM ProfileOutlives == Spec => []ProfileOutlivesRun
<1>1. IInv => ProfileOutlivesRun
  BY JobsAreNat DEF IInv, BaseInv, TypeOK, HoldInv, ProfileInv, ProfileOutlivesRun, Executing, Resting, PCs
<1> QED BY <1>1, Invariance, PTL

\* A mail about matches stands for a publication, a mail about a failure for a
\* failed run that published nothing.
THEOREM OutboxIsSound == Spec => []OutboxSound
<1>1. IInv => OutboxSound  BY DEF IInv, BaseInv, OutboxInv
<1> QED BY <1>1, Invariance, PTL

\* Only a crash or an exception can leave the lease behind.
THEOREM LeaseIsReleased == Spec => []LeaseLeakNeedsFault
<1>1. IInv => LeaseLeakNeedsFault
  BY BoundsAssumption DEF IInv, BaseInv, TypeOK, LeaseInv, LeaseLeakNeedsFault
<1> QED BY <1>1, Invariance, PTL

\* While nothing fails, a settled run has exactly the mail its profile's policy asks for:
\* what NotificationPlanner.plan compares with is what the profile was told before that run.
THEOREM PolicyIsFollowed == Spec => []PolicyFollowed
<1>1. IInv => PolicyFollowed  BY DEF IInv, PolicyInv, PolicyFollowed, Quiet
<1> QED BY <1>1, Invariance, PTL

\* No retry, recovery or takeover reopens a settled run.
THEOREM SettledStays == Spec => SettledStaysSettled
<1>1. IInv /\ [Next]_vars =>
        [\A j \in Jobs : runStatus[j] \in Terminal => runStatus'[j] \in {runStatus[j], "failed"}]_vars
  <2> SUFFICES ASSUME IInv, Next, NEW j \in Jobs, runStatus[j] \in Terminal
               PROVE  runStatus'[j] \in {runStatus[j], "failed"}
    OBVIOUS
  <2> USE DEF vars, dbVars, queueVars, leaseVars, snapVars, runVars, localVars, faultVars, Goto, Forget
  <2>1. CASE LoadProfile  BY <2>1 DEF IInv, BaseInv, TypeOK, RunInv, LoadProfile, Settled
  <2>2. CASE Execute  BY <2>2 DEF IInv, BaseInv, TypeOK, RunInv, Execute, Settled
  <2>3. CASE Abandon \/ ExceptEngine \/ CloseRun
    BY <2>3 DEF IInv, BaseInv, TypeOK, Abandon, ExceptEngine, CloseRun
  <2>4. ASSUME NEW i \in Jobs, Enqueue(i) PROVE runStatus'[j] \in {runStatus[j], "failed"}
    BY <2>4 DEF IInv, BaseInv, TypeOK, RunInv, Enqueue
  <2>5. Claim \/ Start \/ LeaseBusy \/ AcquireLease \/ ProfileUnusable \/ BindProfile
        \/ RecordSnapshot \/ ReleaseLease \/ Finish \/ PlanNothing \/ PlanNotification
        \/ EnqueueNotification \/ EnqueueOrphan \/ Requeue \/ GiveUp \/ RowMissing \/ Boot \/ Crash
        \/ CallRaises \/ LeaseExpires \/ (\E i \in Jobs : DelayElapses(i))
        \/ (\E p \in Profiles : DeleteProfile(p))
        \/ (\E p \in Profiles : \E enabled \in BOOLEAN : SetEnabled(p, enabled))
        => UNCHANGED runStatus
    BY DEF Claim, Start, LeaseBusy, AcquireLease, ProfileUnusable, BindProfile, RecordSnapshot,
           ReleaseLease, Finish, PlanNothing, PlanNotification, EnqueueNotification, EnqueueOrphan,
           Requeue, GiveUp, RowMissing, Boot, Crash, CallRaises, LeaseExpires, DelayElapses,
           DeleteProfile, SetEnabled
  <2> QED BY <2>1, <2>2, <2>3, <2>4, <2>5 DEF Next, Worker, Engine, Environment
<1> QED BY <1>1, Invariance, PTL DEF Spec, SettledStaysSettled
=============================================================================
