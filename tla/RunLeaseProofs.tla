--------------------------- MODULE RunLeaseProofs ---------------------------
(***************************************************************************)
(* Proofs about RunLease, for any number of processes, jobs and faults.    *)
(***************************************************************************)
EXTENDS RunLease, TLAPS

\* Where RunOutcome.status is known.
Decided(p) == pc[p] \in {"snapshot", "finish"} \/ (pc[p] = "release" /\ ~raising[p])

\* What the locals hold where they are used.
LocalInv ==
  \A p \in Procs :
    /\ pc[p] \in Working => job[p] \in Jobs
    /\ pc[p] \in {"look", "abandon"} => victim[p] \in Jobs
    /\ Decided(p) => outcome[p] \in Terminal

TInv == TypeOK /\ LocalInv

LEMMA InitTInv == Init => TInv
<1> SUFFICES ASSUME Init PROVE TInv
  OBVIOUS
<1>1. TypeOK
  BY DEF Init, TypeOK
<1>2. LocalInv
  BY DEF Init, LocalInv, Decided, Working, Engine
<1> QED BY <1>1, <1>2 DEF TInv

LEMMA StatusTypes ==
  /\ Covered \subseteq Terminal
  /\ Terminal = {"completed", "partial", "failed"}
  BY DEF Covered, Terminal

LEMMA EnvironmentTInv ==
  ASSUME TInv,
         \/ \E j \in Jobs : Enqueue(j) \/ DelayElapses(j)
         \/ LeaseExpires
         \/ \E p \in Procs : Boot(p) \/ Crash(p) \/ CallRaises(p)
  PROVE  TInv'
<1> USE DEF TInv, TypeOK, LocalInv, Decided, Terminal, Covered, NoJob
<1>1. ASSUME NEW j \in Jobs, Enqueue(j) PROVE TInv'
  BY <1>1 DEF Enqueue, leaseVars, localVars, countVars
<1>2. ASSUME NEW j \in Jobs, DelayElapses(j) PROVE TInv'
  BY <1>2 DEF DelayElapses, leaseVars, localVars, countVars
<1>3. CASE LeaseExpires
  BY <1>3 DEF LeaseExpires, queueVars, localVars
<1>4. ASSUME NEW p \in Procs, Boot(p) PROVE TInv'
  BY <1>4 DEF Boot, Goto, localVars, leaseVars, Recovered, Working, Engine
<1>5. ASSUME NEW p \in Procs, Crash(p) PROVE TInv'
  BY <1>5 DEF Crash, Forget, dbVars, queueVars, leaseVars, Working, Engine
<1>6. ASSUME NEW p \in Procs, CallRaises(p) PROVE TInv'
  <2>0. errors' \in Nat /\ UNCHANGED <<dbVars, late, stolen, crashes>>
    BY <1>6 DEF CallRaises
  <2>1. TypeOK'
    <3>1. CASE pc' = [pc EXCEPT ![p] = "except"] /\ UNCHANGED localVars
      BY <2>0, <3>1 DEF localVars, dbVars, queueVars, leaseVars, Working, Engine
    <3>2. CASE Handles(p)
      BY <2>0, <3>2 DEF Handles, dbVars, queueVars, leaseVars, Working, Engine
    <3>3. CASE /\ pc' = [pc EXCEPT ![p] = "release"]
               /\ raising' = [raising EXCEPT ![p] = TRUE]
               /\ UNCHANGED <<job, victim, outcome>>
      BY <2>0, <3>3 DEF dbVars, queueVars, leaseVars, Working, Engine
    <3> QED BY <1>6, <3>1, <3>2, <3>3 DEF CallRaises, Goto
  <2>2. ASSUME NEW q \in Procs, q # p
        PROVE  /\ pc'[q] = pc[q] /\ job'[q] = job[q] /\ victim'[q] = victim[q]
               /\ outcome'[q] = outcome[q] /\ raising'[q] = raising[q]
    BY <1>6, <2>2 DEF CallRaises, Goto, Handles, localVars
  <2>3. /\ pc'[p] \in Working => job'[p] \in Jobs
        /\ pc'[p] \in {"look", "abandon"} => victim'[p] \in Jobs
        /\ Decided(p)' => outcome'[p] \in Terminal
    BY <1>6 DEF CallRaises, Goto, Handles, localVars, Working, Engine
  <2> QED BY <2>1, <2>2, <2>3
<1> QED BY <1>1, <1>2, <1>3, <1>4, <1>5, <1>6

LEMMA WorkerTInv ==
  ASSUME TInv, NEW p \in Procs, Worker(p)
  PROVE  TInv'
<1> USE DEF TInv, TypeOK, LocalInv, Decided, Terminal, Covered, Working, Engine
<1>1. CASE Claim(p)
  BY <1>1 DEF Claim, Claimable, leaseVars, countVars
<1>2. CASE Start(p)
  BY <1>2 DEF Start, Settled, dbVars, queueVars, leaseVars, countVars
<1>3. CASE LeaseBusy(p)
  BY <1>3 DEF LeaseBusy, Handles, dbVars, queueVars, leaseVars, countVars, NoJob
<1>4. CASE AcquireLease(p)
  <2> USE DEF AcquireLease, Goto, localVars, queueVars, countVars
  <2>1. TypeOK'
    BY <1>4
  <2>2. ASSUME NEW q \in Procs, q # p
        PROVE  /\ pc'[q] = pc[q] /\ job'[q] = job[q] /\ victim'[q] = victim[q]
               /\ outcome'[q] = outcome[q] /\ raising'[q] = raising[q]
    BY <1>4, <2>2
  <2>3. /\ pc'[p] \in Working => job'[p] \in Jobs
        /\ pc'[p] \in {"look", "abandon"} => victim'[p] \in Jobs
        /\ Decided(p)' => outcome'[p] \in Terminal
    BY <1>4
  <2> QED BY <2>1, <2>2, <2>3
<1>5. CASE Look(p)
  <2> USE DEF Look, Goto, Loads, localVars, dbVars, queueVars, leaseVars, countVars, NoJob
  <2>1. TypeOK'
    BY <1>5
  <2>2. LocalInv'
    BY <1>5
  <2> QED BY <2>1, <2>2
<1>6. CASE Abandon(p)
  BY <1>6 DEF Abandon, Loads, queueVars, leaseVars, countVars, NoJob
<1>7. CASE Load(p)
  BY <1>7 DEF Load, Settled, dbVars, queueVars, leaseVars, countVars
<1>8. CASE OpenRun(p)
  BY <1>8 DEF OpenRun, Goto, localVars, queueVars, leaseVars, countVars
<1>9. CASE Execute(p)
  BY <1>9 DEF Execute, queueVars, leaseVars, countVars
<1>10. CASE RecordSnapshot(p)
  BY <1>10 DEF RecordSnapshot, Goto, localVars, queueVars, leaseVars, countVars
<1>11. CASE ExceptEngine(p)
  <2> USE DEF ExceptEngine, Settled, queueVars, leaseVars, countVars
  <2>1. TypeOK'
    BY <1>11
  <2>2. ASSUME NEW q \in Procs, q # p
        PROVE  /\ pc'[q] = pc[q] /\ job'[q] = job[q] /\ victim'[q] = victim[q]
               /\ outcome'[q] = outcome[q] /\ raising'[q] = raising[q]
    BY <1>11, <2>2
  <2>3. /\ pc'[p] \in Working => job'[p] \in Jobs
        /\ pc'[p] \in {"look", "abandon"} => victim'[p] \in Jobs
        /\ Decided(p)' => outcome'[p] \in Terminal
    BY <1>11
  <2> QED BY <2>1, <2>2, <2>3
<1>12. CASE ReleaseLease(p)
  <2> USE DEF ReleaseLease, Handles, Goto, localVars, queueVars, leaseVars, countVars, NoJob
  <2>1. TypeOK'
    BY <1>12
  <2>2. ASSUME NEW q \in Procs, q # p
        PROVE  /\ pc'[q] = pc[q] /\ job'[q] = job[q] /\ victim'[q] = victim[q]
               /\ outcome'[q] = outcome[q] /\ raising'[q] = raising[q]
    BY <1>12, <2>2
  <2>3. /\ pc'[p] \in Working => job'[p] \in Jobs
        /\ pc'[p] \in {"look", "abandon"} => victim'[p] \in Jobs
        /\ Decided(p)' => outcome'[p] \in Terminal
    BY <1>12
  <2> QED BY <2>1, <2>2, <2>3
<1>13. CASE Finish(p)
  BY <1>13 DEF Finish, leaseVars, countVars
<1>14. CASE Plan(p)
  BY <1>14 DEF Plan, Forget, dbVars, queueVars, leaseVars, countVars, NoJob
<1>15. CASE Requeue(p)
  BY <1>15 DEF Requeue, Forget, leaseVars, countVars, NoJob
<1>16. CASE GiveUp(p)
  BY <1>16 DEF GiveUp, Goto, localVars, leaseVars, countVars
<1>17. CASE CloseRun(p)
  BY <1>17 DEF CloseRun, Forget, queueVars, leaseVars, countVars, NoJob
<1> QED BY <1>1, <1>2, <1>3, <1>4, <1>5, <1>6, <1>7, <1>8, <1>9, <1>10, <1>11, <1>12,
           <1>13, <1>14, <1>15, <1>16, <1>17 DEF Worker

LEMMA NextTInv == TInv /\ [Next]_vars => TInv'
<1> SUFFICES ASSUME TInv, [Next]_vars PROVE TInv'
  OBVIOUS
<1>1. CASE UNCHANGED vars
  BY <1>1 DEF vars, dbVars, queueVars, leaseVars, localVars, countVars, TInv, TypeOK, LocalInv, Decided
<1>2. CASE Next
  BY <1>2, EnvironmentTInv, WorkerTInv DEF Next
<1> QED BY <1>1, <1>2

\* The types of the tables and of what each process holds.
THEOREM TypeCorrect == Spec => []TypeOK
<1>1. TInv => TypeOK  BY DEF TInv
<1> QED BY InitTInv, NextTInv, <1>1, PTL DEF Spec

-----------------------------------------------------------------------------
(* While no living process has lost its lease or its job *)

EngineHolds == \A p \in Procs : pc[p] \in Engine => leaseOwner = job[p] /\ ~leaseExpired

JobsApart ==
  \A p, q \in Procs : p # q /\ pc[p] \in Working /\ pc[q] \in Working => job[p] # job[q]

\* What the queue says of a job that a process has in its hands.
RowOf(p) ==
  /\ pc[p] \in Engine \union {"claimed", "lease", "finish"} => queueStatus[job[p]] = "running"
  /\ pc[p] \in {"plan", "handle"} => queueStatus[job[p]] \in {"running"} \union Terminal
  /\ pc[p] = "closeRun" => queueStatus[job[p]] = "failed"

RowInv == \A p \in Procs : RowOf(p)

\* What the record of the run says of it.
RunInv ==
  \A p \in Procs :
    /\ pc[p] \in {"open", "execute"} => runStatus[job[p]] \notin Terminal
    /\ Decided(p) => outcome[p] = runStatus[job[p]]
    /\ pc[p] = "abandon" => runStatus[victim[p]] \in {"running", "failed"}

Agree ==
  \A j \in Jobs : /\ queueStatus[j] \in Covered => runStatus[j] = queueStatus[j]
                  /\ queueStatus[j] = "none" => runStatus[j] = "none"

CalmInv == EngineHolds /\ JobsApart /\ RowInv /\ RunInv /\ Agree

IInv == TInv /\ (~Disturbed => CalmInv)

LEMMA EngineAlone ==
  ASSUME TInv, CalmInv, NEW p \in Procs, NEW q \in Procs, pc[p] \in Engine, pc[q] \in Engine
  PROVE  p = q
  BY DEF CalmInv, EngineHolds, JobsApart, Working

LEMMA InitIInv == Init => IInv
<1> SUFFICES ASSUME Init PROVE CalmInv
  BY InitTInv DEF IInv
<1> USE DEF Init
<1>1. EngineHolds /\ JobsApart  BY DEF EngineHolds, JobsApart, Engine, Working
<1>2. RowInv /\ RunInv          BY DEF RowInv, RowOf, RunInv, Engine, Decided
<1>3. Agree                     BY DEF Agree, Covered
<1> QED BY <1>1, <1>2, <1>3 DEF CalmInv

LEMMA CalmBefore == [Next]_vars /\ ~Disturbed' => ~Disturbed
<1> SUFFICES ASSUME [Next]_vars, Disturbed PROVE Disturbed'
  OBVIOUS
<1> USE DEF Disturbed, countVars
<1>1. CASE UNCHANGED vars
  BY <1>1 DEF vars
<1>2. ASSUME NEW p \in Procs, Worker(p) PROVE Disturbed'
  BY <1>2 DEF Worker, Claim, Start, LeaseBusy, AcquireLease, Look, Abandon, Load, OpenRun, Execute,
    RecordSnapshot, ExceptEngine, ReleaseLease, Finish, Plan, Requeue, GiveUp, CloseRun
<1>3. ASSUME NEW p \in Procs, Boot(p) \/ Crash(p) \/ CallRaises(p) PROVE Disturbed'
  BY <1>3 DEF Boot, Crash, CallRaises
<1>4. ASSUME NEW j \in Jobs, Enqueue(j) \/ DelayElapses(j) PROVE Disturbed'
  BY <1>4 DEF Enqueue, DelayElapses
<1>5. CASE LeaseExpires
  BY <1>5 DEF LeaseExpires
<1> QED BY <1>1, <1>2, <1>3, <1>4, <1>5 DEF Next

LEMMA EnvironmentCalm ==
  ASSUME TInv, TInv', CalmInv, ~Disturbed',
         \/ \E j \in Jobs : Enqueue(j) \/ DelayElapses(j)
         \/ LeaseExpires
         \/ \E p \in Procs : Boot(p) \/ Crash(p) \/ CallRaises(p)
  PROVE  CalmInv'
<1> USE DEF TInv, TypeOK, LocalInv, Decided, Terminal, Covered, Working, Engine,
            CalmInv, EngineHolds, JobsApart, RowInv, RowOf, RunInv, Agree
<1>1. ASSUME NEW j \in Jobs, Enqueue(j) PROVE CalmInv'
  BY <1>1 DEF Enqueue, leaseVars, localVars, countVars
<1>2. ASSUME NEW j \in Jobs, DelayElapses(j) PROVE CalmInv'
  BY <1>2 DEF DelayElapses, leaseVars, localVars, countVars
<1>3. CASE LeaseExpires
  <2>1. UNCHANGED <<queueStatus, runStatus, pc, job, victim, outcome, raising>>
    BY <1>3 DEF LeaseExpires, queueVars, localVars
  <2>2. \A p \in Procs : ~(pc[p] \in Engine /\ job[p] = leaseOwner)
    BY <1>3 DEF LeaseExpires, Disturbed
  <2>3. EngineHolds'
    BY <2>1, <2>2
  <2>4. JobsApart' /\ RowInv' /\ RunInv' /\ Agree'
    BY <2>1
  <2> QED BY <2>3, <2>4
<1>4. ASSUME NEW p \in Procs, Boot(p) PROVE CalmInv'
  <2>1. /\ UNCHANGED <<runStatus, leaseOwner, leaseExpired, job, victim, outcome, raising>>
        /\ pc' = [pc EXCEPT ![p] = "idle"]
        /\ queueStatus' = [j \in Jobs |-> Recovered(j)]
    BY <1>4 DEF Boot, Goto, localVars, leaseVars
  <2>2. \A q \in Procs : pc[q] \in Working => queueStatus[job[q]] # "running"
    BY <1>4 DEF Boot, Disturbed
  <2>3. ASSUME NEW q \in Procs
        PROVE  /\ pc'[q] \in Working => pc[q] = pc'[q]
               /\ pc'[q] \in Working => queueStatus'[job[q]] = queueStatus[job[q]]
    BY <2>1, <2>2 DEF Recovered
  <2>4. EngineHolds' /\ JobsApart' /\ RunInv'
    BY <2>1, <2>3
  <2>5. RowInv'
    <3> SUFFICES ASSUME NEW q \in Procs
                 PROVE  RowOf(q)'
      BY DEF RowOf
    <3>1. CASE pc'[q] \in Working
      <4>1. pc'[q] = pc[q] /\ job'[q] = job[q] /\ queueStatus'[job'[q]] = queueStatus[job[q]]
        BY <2>1, <2>3, <3>1
      <4>2. RowOf(q)
        OBVIOUS
      <4> HIDE DEF Working, Engine, CalmInv, RowInv, TInv
      <4> QED BY <4>1, <4>2 DEF RowOf
    <3>2. CASE pc'[q] \notin Working
      BY <3>2 DEF RowOf
    <3> QED BY <3>1, <3>2
  <2>6. Agree'
    BY <2>1 DEF Recovered
  <2> QED BY <2>4, <2>5, <2>6
<1>5. ASSUME NEW p \in Procs, Crash(p) PROVE CalmInv'
  BY <1>5 DEF Crash, Forget, dbVars, queueVars, leaseVars
<1>6. ASSUME NEW p \in Procs, CallRaises(p) PROVE CalmInv'
  BY <1>6 DEF CallRaises, Goto, Handles, localVars, dbVars, queueVars, leaseVars
<1> QED BY <1>1, <1>2, <1>3, <1>4, <1>5, <1>6

LEMMA WorkerCalm ==
  ASSUME TInv, TInv', CalmInv, NEW p \in Procs, Worker(p)
  PROVE  CalmInv'
<1>0. \A q \in Procs : pc[p] \in Engine /\ pc[q] \in Engine => q = p
  BY EngineAlone
<1> USE DEF TInv, TypeOK, LocalInv, Decided, Terminal, Covered, Working, Engine,
            CalmInv, EngineHolds, JobsApart, RowInv, RowOf, RunInv, Agree
<1>1. CASE Claim(p)
  BY <1>0, <1>1 DEF Claim, Claimable, leaseVars, countVars
<1>2. CASE Start(p)
  BY <1>0, <1>2 DEF Start, Settled, dbVars, queueVars, leaseVars, countVars
<1>3. CASE LeaseBusy(p)
  BY <1>0, <1>3 DEF LeaseBusy, Handles, dbVars, queueVars, leaseVars, countVars
<1>4. CASE AcquireLease(p)
  <2>1. /\ UNCHANGED <<queueStatus, runStatus, job, outcome, raising>>
        /\ pc[p] = "lease" /\ leaseOwner' = job[p] /\ ~leaseExpired'
        /\ pc'[p] \in {"load", "look"}
        /\ \A q \in Procs : q # p => pc'[q] = pc[q] /\ victim'[q] = victim[q]
    BY <1>4 DEF AcquireLease, Goto, localVars, queueVars
  <2>2. ASSUME NEW q \in Procs, pc[q] \in Engine PROVE FALSE
    <3>1. leaseOwner = job[q] /\ ~leaseExpired /\ job[q] \in Jobs
      BY <2>2
    <3>2. job[q] = job[p]
      BY <1>4, <3>1, BoundAssumption DEF AcquireLease, Free, NoJob, Jobs
    <3> QED BY <2>1, <2>2, <3>2
  <2>3. EngineHolds'
    BY <2>1, <2>2
  <2>4. JobsApart' /\ RowInv'
    BY <2>1
  <2>5. RunInv'
    BY <2>1, <2>2
  <2>6. Agree'
    BY <2>1
  <2> QED BY <2>3, <2>4, <2>5, <2>6
<1>5. CASE Look(p)
  BY <1>0, <1>5 DEF Look, Abandoned, Goto, Loads, localVars, dbVars, queueVars, leaseVars, countVars
<1>6. CASE Abandon(p)
  BY <1>0, <1>6 DEF Abandon, Loads, queueVars, leaseVars, countVars
<1>7. CASE Load(p)
  BY <1>0, <1>7 DEF Load, Settled, dbVars, queueVars, leaseVars, countVars
<1>8. CASE OpenRun(p)
  BY <1>0, <1>8 DEF OpenRun, Goto, localVars, queueVars, leaseVars, countVars
<1>9. CASE Execute(p)
  BY <1>0, <1>9 DEF Execute, queueVars, leaseVars, countVars
<1>10. CASE RecordSnapshot(p)
  BY <1>0, <1>10 DEF RecordSnapshot, Goto, localVars, queueVars, leaseVars, countVars
<1>11. CASE ExceptEngine(p)
  BY <1>0, <1>11 DEF ExceptEngine, Settled, queueVars, leaseVars, countVars
<1>12. CASE ReleaseLease(p)
  BY <1>0, <1>12 DEF ReleaseLease, Releases, Handles, Goto, localVars, queueVars, leaseVars, countVars
<1>13. CASE Finish(p)
  BY <1>0, <1>13 DEF Finish, leaseVars, countVars
<1>14. CASE Plan(p)
  BY <1>0, <1>14 DEF Plan, Forget, dbVars, queueVars, leaseVars, countVars
<1>15. CASE Requeue(p)
  BY <1>0, <1>15 DEF Requeue, Forget, leaseVars, countVars
<1>16. CASE GiveUp(p)
  BY <1>0, <1>16 DEF GiveUp, Goto, localVars, leaseVars, countVars
<1>17. CASE CloseRun(p)
  BY <1>0, <1>17 DEF CloseRun, Forget, queueVars, leaseVars, countVars
<1> QED BY <1>1, <1>2, <1>3, <1>4, <1>5, <1>6, <1>7, <1>8, <1>9, <1>10, <1>11, <1>12, <1>13, <1>14, <1>15, <1>16, <1>17 DEF Worker

LEMMA NextIInv == IInv /\ [Next]_vars => IInv'
<1> SUFFICES ASSUME IInv, [Next]_vars PROVE IInv'
  OBVIOUS
<1>1. TInv /\ TInv'
  BY NextTInv DEF IInv
<1>2. ASSUME ~Disturbed' PROVE CalmInv'
  <2>1. CalmInv
    BY <1>2, CalmBefore DEF IInv
  <2>2. CASE UNCHANGED vars
    BY <2>1, <2>2 DEF vars, dbVars, queueVars, leaseVars, localVars, CalmInv, EngineHolds,
      JobsApart, RowInv, RowOf, RunInv, Decided, Agree
  <2>3. CASE Next
    BY <1>1, <1>2, <2>1, <2>3, EnvironmentCalm, WorkerCalm DEF Next
  <2> QED BY <2>2, <2>3
<1> QED BY <1>1, <1>2 DEF IInv

\* Two engines run at once only after a lease expired under a living process, or a
\* process was started beside a working one.
THEOREM EngineIsAlone == Spec => []OverlapNeedsCause
<1>1. IInv => OverlapNeedsCause
  BY EngineAlone DEF IInv, OverlapNeedsCause
<1> QED BY InitIInv, NextIInv, <1>1, PTL DEF Spec

\* Until then a job the queue calls covered is covered in the engine's record.
THEOREM CoverageAgrees == Spec => []CoveredAgrees
<1>1. IInv => CoveredAgrees
  BY DEF IInv, CalmInv, Agree, CoveredAgrees
<1> QED BY InitIInv, NextIInv, <1>1, PTL DEF Spec

LEMMA SettledRunStays ==
  ASSUME TInv, ~Disturbed => CalmInv, [Next]_vars, NEW j \in Jobs, runStatus[j] \in Terminal, ~Disturbed
  PROVE  runStatus'[j] \in {runStatus[j], "failed"}
<1> USE DEF TInv, TypeOK
<1>1. CalmInv
  OBVIOUS
<1>2. CASE UNCHANGED runStatus
  BY <1>2
<1>3. ASSUME NEW i \in Jobs, Enqueue(i) PROVE runStatus'[j] = runStatus[j]
  <2>1. runStatus[i] = "none"
    BY <1>1, <1>3 DEF Enqueue, CalmInv, Agree
  <2>2. i # j
    BY <2>1 DEF Terminal, Covered
  <2> QED BY <1>3, <2>2 DEF Enqueue
<1>4. ASSUME NEW p \in Procs, OpenRun(p) \/ Execute(p) PROVE runStatus'[j] = runStatus[j]
  <2>1. runStatus[job[p]] \notin Terminal
    BY <1>1, <1>4 DEF CalmInv, RunInv, OpenRun, Execute
  <2> QED BY <1>4, <2>1 DEF OpenRun, Execute
<1>5. ASSUME NEW p \in Procs, Abandon(p) \/ ExceptEngine(p) \/ CloseRun(p)
      PROVE  runStatus'[j] \in {runStatus[j], "failed"}
  BY <1>5 DEF Abandon, ExceptEngine, CloseRun
<1>6. ASSUME NEW p \in Procs,
             \/ Claim(p) \/ Start(p) \/ LeaseBusy(p) \/ AcquireLease(p) \/ Look(p) \/ Load(p)
             \/ RecordSnapshot(p) \/ ReleaseLease(p) \/ Finish(p) \/ Plan(p) \/ Requeue(p)
             \/ GiveUp(p) \/ Boot(p) \/ Crash(p) \/ CallRaises(p)
      PROVE  UNCHANGED runStatus
  BY <1>6 DEF Claim, Start, LeaseBusy, AcquireLease, Look, Load, RecordSnapshot, ReleaseLease,
    Finish, Plan, Requeue, GiveUp, Boot, Crash, CallRaises, dbVars
<1>7. ASSUME (\E i \in Jobs : DelayElapses(i)) \/ LeaseExpires PROVE UNCHANGED runStatus
  BY <1>7 DEF DelayElapses, LeaseExpires
<1>8. CASE UNCHANGED vars
  BY <1>2, <1>8 DEF vars, dbVars
<1> QED BY <1>2, <1>3, <1>4, <1>5, <1>6, <1>7, <1>8 DEF Next, Worker

\* A settled run is not reopened: it only ever turns to failed.
THEOREM SettledStays == Spec => SettledStaysSettled
<1>1. IInv /\ [Next]_vars
        => [\A j \in Jobs : runStatus[j] \in Terminal /\ ~Disturbed
              => runStatus'[j] \in {runStatus[j], "failed"}]_vars
  BY SettledRunStays DEF IInv
<1> QED BY InitIInv, NextIInv, <1>1, PTL DEF Spec, SettledStaysSettled

-----------------------------------------------------------------------------
(* The lease, whatever happens to it *)

HeldInv == TInv /\ LeaseHasEngine

LEMMA InitHeldInv == Init => HeldInv
  BY InitTInv DEF HeldInv, LeaseHasEngine, Init

LEMMA NextHeldInv == HeldInv /\ [Next]_vars => HeldInv'
<1> SUFFICES ASSUME HeldInv, [Next]_vars, leaseOwner' # NoJob, crashes' + errors' = 0
             PROVE  \E p \in Procs : pc'[p] \in Engine /\ job'[p] = leaseOwner'
  BY NextTInv DEF HeldInv, LeaseHasEngine
<1>0. TInv /\ LeaseHasEngine
  BY DEF HeldInv
<1> USE DEF TInv, TypeOK
<1>1. CASE UNCHANGED vars
  BY <1>0, <1>1 DEF vars, dbVars, leaseVars, localVars, countVars, LeaseHasEngine
<1>2. ASSUME NEW p \in Procs, Crash(p) \/ CallRaises(p) PROVE FALSE
  BY <1>0, <1>2 DEF Crash, CallRaises
<1>3. ASSUME NEW p \in Procs, AcquireLease(p)
      PROVE  pc'[p] \in Engine /\ job'[p] = leaseOwner'
  BY <1>0, <1>3 DEF AcquireLease, Goto, localVars, Engine
<1> DEFINE Keeps(p) ==
      /\ leaseOwner' = leaseOwner /\ crashes' = crashes /\ errors' = errors
      /\ \A q \in Procs : pc[q] \in Engine => pc'[q] \in Engine /\ job'[q] = job[q]
<1>4. ASSUME NEW p \in Procs,
             \/ Claim(p) \/ Start(p) \/ LeaseBusy(p) \/ Look(p) \/ Abandon(p) \/ Load(p)
             \/ OpenRun(p) \/ Execute(p) \/ RecordSnapshot(p) \/ ExceptEngine(p)
      PROVE  Keeps(p)
  BY <1>0, <1>4 DEF Claim, Start, LeaseBusy, Handles, Look, Abandon, Loads, Load, OpenRun, Execute,
    RecordSnapshot, ExceptEngine, Goto, localVars, dbVars, leaseVars, countVars, Engine
<1>5. ASSUME NEW p \in Procs,
             Finish(p) \/ Plan(p) \/ Requeue(p) \/ GiveUp(p) \/ CloseRun(p) \/ Boot(p)
      PROVE  Keeps(p)
  BY <1>0, <1>5 DEF Finish, Plan, Requeue, GiveUp, CloseRun, Boot, Forget, Goto, localVars, dbVars,
    leaseVars, countVars, Engine
<1>6. ASSUME NEW p \in Procs, ReleaseLease(p)
      PROVE  \E q \in Procs : pc'[q] \in Engine /\ job'[q] = leaseOwner'
  <2>1. leaseOwner' = leaseOwner /\ leaseOwner # job[p] /\ UNCHANGED <<crashes, errors>>
    BY <1>0, <1>6 DEF ReleaseLease, Releases, leaseVars, countVars
  <2>2. PICK q \in Procs : pc[q] \in Engine /\ job[q] = leaseOwner
    BY <1>0, <2>1 DEF LeaseHasEngine
  <2>3. pc'[q] = pc[q] /\ job'[q] = job[q]
    BY <1>0, <1>6, <2>1, <2>2 DEF ReleaseLease, Handles, Goto, localVars
  <2> QED BY <2>1, <2>2, <2>3
<1>7. ASSUME \/ \E j \in Jobs : Enqueue(j) \/ DelayElapses(j)
             \/ LeaseExpires
      PROVE  UNCHANGED <<leaseOwner, crashes, errors, pc, job>>
  BY <1>7 DEF Enqueue, DelayElapses, LeaseExpires, leaseVars, localVars, countVars
<1>8. ASSUME NEW p \in Procs, Keeps(p)
      PROVE  \E q \in Procs : pc'[q] \in Engine /\ job'[q] = leaseOwner'
  BY <1>0, <1>8 DEF LeaseHasEngine
<1> HIDE DEF Keeps
<1>9. ASSUME UNCHANGED <<leaseOwner, crashes, errors, pc, job>>
      PROVE  \E q \in Procs : pc'[q] \in Engine /\ job'[q] = leaseOwner'
  BY <1>0, <1>9 DEF LeaseHasEngine
<1> QED BY <1>1, <1>2, <1>3, <1>4, <1>5, <1>6, <1>7, <1>8, <1>9 DEF Next, Worker

\* Without crashes and failed calls no process leaves its lease behind.
THEOREM LeaseIsReleased == Spec => []LeaseHasEngine
<1>1. HeldInv => LeaseHasEngine
  BY DEF HeldInv
<1> QED BY InitHeldInv, NextHeldInv, <1>1, PTL DEF Spec
=============================================================================
