---------------------- MODULE ClaimTransactionsProofs ----------------------
(***************************************************************************)
(* Proofs about ClaimTransactions, for any number of threads, connections  *)
(* and jobs.  The claim is safe without the lock: a snapshot that has the  *)
(* lock and still counts as fresh says what the tables say (SeenInv).      *)
(***************************************************************************)
EXTENDS ClaimTransactions, TLAPS

Open4 == {"select", "read", "write", "written"}

\* The lock and the transactions.
TxInv ==
  /\ lock # Nobody => pc[lock] \in Open4
  /\ \A a \in Actors :
       /\ pc[a] = "written" => lock = a
       /\ immediate[a] /\ pc[a] \in Open4 => lock = a
       /\ kind[a] = "lease" => immediate[a] /\ a \in Workers
       /\ pc[a] = "write" => kind[a] = "release"
       /\ pc[a] \in {"select", "read"} => kind[a] # "release"
       /\ pc[a] \in {"idle", "dead"} => kind[a] = "read"
       /\ lock = a /\ pc[a] \in {"read", "written"} /\ kind[a] # "release" => fresh[a]

\* What a transaction has read, as long as nothing was committed since.
SeenInv ==
  \A a \in Actors :
    /\ pc[a] \in {"read", "written"} /\ kind[a] = "claim" /\ fresh[a] /\ seen[a] # NoJob
         => status[seen[a]] = "queued"
    /\ pc[a] \in {"read", "written"} /\ kind[a] = "lease" /\ fresh[a] => seen[a] = leaseOwner
    /\ pc[a] = "written" /\ kind[a] = "claim" => seen[a] # NoJob
    /\ pc[a] = "written" /\ kind[a] = "lease" => seen[a] \in {NoJob, held[a]}

\* What a worker is at, and what it holds.
HeldInv ==
  \A a \in Workers :
    /\ next[a] \in {"claim", "lease", "release", "finish", "requeue"}
    /\ kind[a] \in {next[a], "read"} \/ (kind[a] = "persist" /\ next[a] = "release")
    /\ next[a] = "claim" <=> held[a] = NoJob
    /\ held[a] # NoJob => status[held[a]] = "running"
    /\ next[a] = "release" => leaseOwner = held[a]

ClientInv == \A a \in Clients : kind[a] \in ClientKinds

IInv == TypeOK /\ TxInv /\ SeenInv /\ HeldInv /\ ClientInv /\ ClaimedOnce

LEMMA InitIInv == Init => IInv
<1> SUFFICES ASSUME Init PROVE IInv
  OBVIOUS
<1> USE DEF Init, NoJob, Actors
<1>1. TypeOK   BY DEF TypeOK, Kinds, WorkerKinds, ClientKinds
<1>2. TxInv    BY DEF TxInv, Open4
<1>3. SeenInv  BY DEF SeenInv
<1>4. HeldInv  BY DEF HeldInv
<1>5. ClientInv /\ ClaimedOnce  BY DEF ClientInv, ClientKinds, ClaimedOnce
<1> QED BY <1>1, <1>2, <1>3, <1>4, <1>5 DEF IInv

-----------------------------------------------------------------------------
(* The steps within a transaction *)

LEMMA OpenKeeps ==
  ASSUME IInv, NEW a \in Actors, NEW k \in Kinds, NEW c \in Conns, Open(a, k, c)
  PROVE  IInv'
<1> USE DEF Actors, IInv, TypeOK, Open, dbVars
<1>1. TypeOK'
  OBVIOUS
<1>2. TxInv'
  <2>1. lock # a
    BY ActorAssumption DEF TxInv, Open4
  <2>2. k = "lease" => a \in Workers
    BY DEF Opens, ClientKinds
  <2> QED BY <2>1, <2>2 DEF TxInv, Open4, AsksBefore
<1>3. SeenInv'
  BY DEF SeenInv
<1>4. HeldInv'
  BY ActorAssumption DEF HeldInv, Opens
<1>5. ClientInv'
  BY DEF ClientInv, Opens
<1>6. ClaimedOnce'
  BY DEF ClaimedOnce
<1> QED BY <1>1, <1>2, <1>3, <1>4, <1>5, <1>6

LEMMA BeginKeeps ==
  ASSUME IInv, NEW a \in Actors, Begin(a)
  PROVE  IInv'
<1> USE DEF Actors, IInv, TypeOK, Begin, dbVars, txVars
<1>1. TypeOK'
  BY DEF AsksAfter
<1>2. TxInv'
  <2>1. lock # a
    BY ActorAssumption DEF TxInv, Open4
  <2> QED BY <2>1, ActorAssumption DEF TxInv, Open4
<1>3. SeenInv'
  BY DEF SeenInv
<1>4. HeldInv'
  BY DEF HeldInv
<1>5. ClientInv' /\ ClaimedOnce'
  BY DEF ClientInv, ClaimedOnce
<1> QED BY <1>1, <1>2, <1>3, <1>4, <1>5

LEMMA SelectKeeps ==
  ASSUME IInv, NEW a \in Actors, Select(a)
  PROVE  IInv'
<1> USE DEF Actors, IInv, TypeOK, Select, dbVars, txVars
<1>0. PICK row \in Returned(kind[a]) : seen' = [seen EXCEPT ![a] = row]
  OBVIOUS
<1>1. /\ row \in Jobs \union {NoJob}
      /\ kind[a] = "claim" /\ row # NoJob => status[row] = "queued"
      /\ kind[a] = "lease" => row = leaseOwner
  BY <1>0 DEF Returned, Oldest, Queued
<1>2. TypeOK'
  BY <1>0, <1>1
<1>3. TxInv'
  BY <1>0 DEF TxInv, Open4
<1>4. SeenInv'
  BY <1>0, <1>1 DEF SeenInv
<1>5. HeldInv'
  BY DEF HeldInv
<1>6. ClientInv' /\ ClaimedOnce'
  BY DEF ClientInv, ClaimedOnce
<1> QED BY <1>2, <1>3, <1>4, <1>5, <1>6

LEMMA WriteKeeps ==
  ASSUME IInv, NEW a \in Actors, Write(a)
  PROVE  IInv'
<1> USE DEF Actors, IInv, TypeOK, Write, dbVars, txVars
<1>1. TypeOK'
  OBVIOUS
<1>2. pc[a] = "read" => fresh[a]
  BY DEF OutOfDate, OneTransaction
<1>3. TxInv'
  BY <1>2, ActorAssumption DEF TxInv, Open4
<1>4. SeenInv'
  <2>1. kind[a] = "claim" => pc[a] = "read" /\ seen[a] # NoJob
    BY DEF TxInv, NothingToWrite
  <2>2. kind[a] = "lease" => pc[a] = "read" /\ seen[a] \in {NoJob, held[a]}
    BY DEF TxInv, Busy
  <2> QED BY <1>2, <2>1, <2>2 DEF SeenInv
<1>5. HeldInv'
  BY DEF HeldInv
<1>6. ClientInv' /\ ClaimedOnce'
  BY DEF ClientInv, ClaimedOnce
<1> QED BY <1>1, <1>3, <1>4, <1>5, <1>6

-----------------------------------------------------------------------------
(* The ends of a transaction *)

\* What is left when the transaction of a is over, and A the actors whose
\* snapshots expire with it.
LEMMA Closed ==
  ASSUME TypeOK, TxInv, ClientInv, NEW a \in Actors, NEW after \in {"idle", "dead"},
         NEW A \in SUBSET Actors, a \in A, A = {a} \/ lock = a,
         Close(a, after), Expire(A)
  PROVE  TxInv' /\ ClientInv'
<1> USE DEF Actors, Close, TypeOK, LockAfter
<1>1. \A b \in Actors : fresh'[b] <=> fresh[b] /\ b \notin A
  BY DEF Expire
<1>2. \A b \in Actors : b # a => /\ pc'[b] = pc[b] /\ kind'[b] = kind[b]
                                 /\ immediate'[b] = immediate[b]
  OBVIOUS
<1>3. lock' = (IF lock = a THEN Nobody ELSE lock) /\ a # Nobody
  BY ActorAssumption
<1>4. ClientInv'
  BY <1>2 DEF ClientInv, ClientKinds, Actors
<1>5. lock' # Nobody => pc'[lock'] \in Open4
  BY <1>2, <1>3 DEF TxInv
<1>6. ASSUME NEW b \in Actors, b # a
      PROVE  /\ lock' = b <=> lock = b
             /\ lock = b => (fresh'[b] <=> fresh[b])
  BY <1>1, <1>3, <1>6, ActorAssumption
<1>7. pc'[a] \in {"idle", "dead"} /\ kind'[a] = "read" /\ immediate'[a] = FALSE /\ lock' # a
  BY <1>3
<1>8. TxInv'
  BY <1>2, <1>5, <1>6, <1>7 DEF TxInv, Open4
<1> QED BY <1>4, <1>8

\* A transaction that ends without a commit changes no table.
LEMMA EndKeeps ==
  ASSUME IInv, NEW a \in Actors, NEW after \in {"idle", "dead"},
         Close(a, after), Expire({a}), UNCHANGED <<dbVars, held>>,
         \/ UNCHANGED next
         \/ /\ a \in Workers /\ kind[a] \in {"lease", "release", "finish"}
            /\ next' = [next EXCEPT ![a] = "requeue"]
  PROVE  IInv'
<1> USE DEF IInv, Actors, TypeOK, dbVars
<1>1. TypeOK'
  BY DEF Close, LockAfter, Expire, Kinds, WorkerKinds
<1>2. TxInv' /\ ClientInv'
  BY Closed
<1>3. SeenInv'
  <2>1. \A b \in Actors : fresh'[b] => fresh[b]
    BY DEF Expire
  <2> QED BY <2>1 DEF SeenInv, Close
<1>4. HeldInv'
  BY DEF HeldInv, Close
<1>5. ClaimedOnce'
  BY DEF ClaimedOnce
<1> QED BY <1>1, <1>2, <1>3, <1>4, <1>5

LEMMA EndsWithoutCommit ==
  ASSUME IInv, NEW a \in Actors,
         \/ EndsReading(a) \/ Refused(a) \/ TimesOut(a)
         \/ a \in Workers /\ LeaseBusy(a)
  PROVE  IInv'
<1>1. ASSUME Locked(a) PROVE IInv'
  <2>1. PICK after \in {"idle", "dead"} : Close(a, after)
    BY <1>1 DEF Locked
  <2> QED BY <1>1, <2>1, EndKeeps DEF Locked
<1>2. CASE EndsReading(a)
  BY <1>2, EndKeeps DEF EndsReading
<1>3. CASE Refused(a) \/ TimesOut(a)
  BY <1>1, <1>3 DEF Refused, TimesOut
<1>4. CASE a \in Workers /\ LeaseBusy(a)
  BY <1>4, EndKeeps DEF LeaseBusy, Busy
<1> QED BY <1>2, <1>3, <1>4

\* What a commit leaves: the transactions, and no snapshot that is fresh.
LEMMA CommitLeaves ==
  ASSUME IInv, NEW a \in Actors, NEW k \in Kinds, Commits(a, k)
  PROVE  /\ TxInv' /\ ClientInv'
         /\ SeenInv'
         /\ a \in Workers => kind'[a] = "read"
         /\ \A b \in Actors : b # a => kind'[b] = kind[b]
         /\ k # "release" => fresh[a]
         /\ /\ status' \in [Jobs -> {"none", "queued", "running", "done"}]
            /\ leaseOwner' \in Jobs \union {NoJob}
            /\ next' \in [Workers -> WorkerKinds]
            /\ held' \in [Workers -> Jobs \union {NoJob}]
            => TypeOK'
<1> USE DEF IInv, Actors, TypeOK, Commits
<1>1. lock = a
  BY DEF TxInv
<1>2. TxInv' /\ ClientInv'
  BY <1>1, Closed
<1>3. SeenInv'
  <2>1. \A b \in Actors : ~fresh'[b]
    BY DEF Expire
  <2>2. \A b \in Actors : pc'[b] # "written"
    BY <1>1 DEF TxInv, Close
  <2> QED BY <2>1, <2>2 DEF SeenInv
<1>4. kind'[a] = "read" /\ \A b \in Actors : b # a => kind'[b] = kind[b]
  BY DEF Close
<1>5. k # "release" => fresh[a]
  BY <1>1 DEF TxInv
<1>6. ASSUME status' \in [Jobs -> {"none", "queued", "running", "done"}],
             leaseOwner' \in Jobs \union {NoJob}, next' \in [Workers -> WorkerKinds],
             held' \in [Workers -> Jobs \union {NoJob}]
      PROVE  TypeOK'
  BY <1>6 DEF Close, LockAfter, Expire, Kinds, WorkerKinds
<1> QED BY <1>2, <1>3, <1>4, <1>5, <1>6

LEMMA ClaimKeeps ==
  ASSUME IInv, NEW a \in Workers, ClaimCommits(a)
  PROVE  IInv'
<1> USE DEF IInv, TypeOK, ClaimCommits, NoJob, Jobs
<1>0. a \in Actors /\ Commits(a, "claim") /\ "claim" \in Kinds /\ "claim" # "release"
  BY DEF Actors, Kinds, WorkerKinds
<1>1. /\ next[a] = "claim" /\ held[a] = NoJob
      /\ seen[a] \in Jobs /\ seen[a] # NoJob /\ status[seen[a]] = "queued"
  <2>1. fresh[a]
    BY <1>0, CommitLeaves
  <2>2. seen[a] # NoJob /\ status[seen[a]] = "queued"
    BY <1>0, <2>1 DEF SeenInv, Commits
  <2>3. next[a] = "claim"
    BY DEF HeldInv, Commits
  <2> QED BY <1>0, <2>2, <2>3 DEF HeldInv
<1>2. TypeOK' /\ TxInv' /\ SeenInv' /\ ClientInv'
  BY <1>0, <1>1, CommitLeaves DEF WorkerKinds
<1>3. ASSUME NEW b \in Workers, b # a, held[b] # NoJob
      PROVE  held[b] # seen[a]
  BY <1>1, <1>3 DEF HeldInv
<1>4. HeldInv'
  BY <1>0, <1>1, <1>3, CommitLeaves DEF HeldInv, Actors
<1>5. ClaimedOnce'
  BY <1>1, <1>3 DEF ClaimedOnce
<1> QED BY <1>2, <1>4, <1>5

LEMMA LeaseKeeps ==
  ASSUME IInv, NEW a \in Workers, LeaseCommits(a)
  PROVE  IInv'
<1> USE DEF IInv, TypeOK, LeaseCommits
<1>0. a \in Actors /\ Commits(a, "lease") /\ "lease" \in Kinds /\ "lease" # "release"
  BY DEF Actors, Kinds, WorkerKinds
<1>1. /\ next[a] = "lease" /\ held[a] # NoJob
      /\ leaseOwner \in {NoJob, held[a]}
  <2>1. fresh[a]
    BY <1>0, CommitLeaves
  <2>2. leaseOwner \in {NoJob, held[a]}
    BY <1>0, <2>1 DEF SeenInv, Commits
  <2>3. next[a] = "lease"
    BY DEF HeldInv, Commits
  <2> QED BY <1>0, <2>2, <2>3 DEF HeldInv
<1>2. TypeOK' /\ TxInv' /\ SeenInv' /\ ClientInv'
  BY <1>0, <1>1, CommitLeaves DEF WorkerKinds
<1>3. ASSUME NEW b \in Workers, b # a PROVE next[b] # "release"
  BY <1>1, <1>3 DEF HeldInv, ClaimedOnce
<1>4. HeldInv'
  BY <1>0, <1>1, <1>3, CommitLeaves DEF HeldInv, Actors
<1>5. ClaimedOnce'
  BY DEF ClaimedOnce
<1> QED BY <1>2, <1>4, <1>5

LEMMA DataKeeps ==
  ASSUME IInv, NEW a \in Actors, DataCommits(a)
  PROVE  IInv'
<1> USE DEF IInv, TypeOK, DataCommits, dbVars
<1>1. PICK k \in {"persist", "decide"} : Commits(a, k)
  OBVIOUS
<1>2. TypeOK' /\ TxInv' /\ SeenInv' /\ ClientInv'
  BY <1>1, CommitLeaves DEF Kinds, WorkerKinds, ClientKinds
<1>3. HeldInv'
  BY <1>1, CommitLeaves DEF HeldInv, Actors, Kinds, WorkerKinds, ClientKinds
<1>4. ClaimedOnce'
  BY DEF ClaimedOnce
<1> QED BY <1>2, <1>3, <1>4

LEMMA ReleaseKeeps ==
  ASSUME IInv, NEW a \in Workers, ReleaseCommits(a)
  PROVE  IInv'
<1> USE DEF IInv, TypeOK, ReleaseCommits
<1>0. a \in Actors /\ Commits(a, "release") /\ "release" \in Kinds
  BY DEF Actors, Kinds, WorkerKinds
<1>1. next[a] = "release" /\ held[a] # NoJob /\ leaseOwner = held[a]
  BY DEF HeldInv, Commits
<1>2. TypeOK' /\ TxInv' /\ SeenInv' /\ ClientInv'
  BY <1>0, <1>1, CommitLeaves DEF WorkerKinds
<1>3. ASSUME NEW b \in Workers, b # a PROVE next[b] # "release"
  BY <1>1, <1>3 DEF HeldInv, ClaimedOnce
<1>4. HeldInv'
  BY <1>0, <1>1, <1>3, CommitLeaves DEF HeldInv, Actors
<1>5. ClaimedOnce'
  BY DEF ClaimedOnce
<1> QED BY <1>2, <1>4, <1>5

LEMMA SettleKeeps ==
  ASSUME IInv, NEW a \in Workers, SettleCommits(a)
  PROVE  IInv'
<1> USE DEF IInv, TypeOK, SettleCommits, NoJob, Jobs
<1>0. a \in Actors /\ {"finish", "requeue"} \subseteq Kinds \ {"release"}
  BY DEF Actors, Kinds, WorkerKinds
<1>1. PICK k \in {"finish", "requeue"} : Commits(a, k)
  OBVIOUS
<1>2. held[a] # NoJob
  BY <1>1 DEF HeldInv, Commits
<1>3. TypeOK' /\ TxInv' /\ SeenInv' /\ ClientInv'
  BY <1>0, <1>1, <1>2, CommitLeaves DEF WorkerKinds, Settled
<1>4. ASSUME NEW b \in Workers, b # a, held[b] # NoJob PROVE held[b] # held[a]
  BY <1>4 DEF ClaimedOnce
<1>5. HeldInv'
  BY <1>0, <1>1, <1>2, <1>4, CommitLeaves DEF HeldInv, Actors
<1>6. ClaimedOnce'
  BY <1>4 DEF ClaimedOnce
<1> QED BY <1>3, <1>5, <1>6

LEMMA EnqueueKeeps ==
  ASSUME IInv, NEW a \in Clients, EnqueueCommits(a)
  PROVE  IInv'
<1> USE DEF IInv, TypeOK, EnqueueCommits
<1>0. a \in Actors \ Workers /\ Commits(a, "enqueue") /\ "enqueue" \in Kinds
  BY ActorAssumption DEF Actors, Kinds, ClientKinds
<1>1. PICK j \in Jobs : status[j] = "none" /\ status' = [status EXCEPT ![j] = "queued"]
  OBVIOUS
<1>2. TypeOK' /\ TxInv' /\ SeenInv' /\ ClientInv'
  BY <1>0, <1>1, CommitLeaves
<1>3. HeldInv'
  BY <1>0, <1>1, CommitLeaves DEF HeldInv, Actors
<1>4. ClaimedOnce'
  BY DEF ClaimedOnce
<1> QED BY <1>2, <1>3, <1>4

-----------------------------------------------------------------------------
LEMMA NextIInv == IInv /\ [Next]_vars => IInv'
<1> SUFFICES ASSUME IInv, [Next]_vars PROVE IInv'
  OBVIOUS
<1>1. CASE UNCHANGED vars
  BY <1>1 DEF IInv, TypeOK, TxInv, SeenInv, HeldInv, ClientInv, ClaimedOnce, vars, dbVars, txVars
<1>2. ASSUME NEW a \in Actors, Steps(a) PROVE IInv'
  BY <1>2, OpenKeeps, BeginKeeps, SelectKeeps, WriteKeeps, DataKeeps, EndsWithoutCommit DEF Steps
<1>3. ASSUME NEW a \in Workers, WorkerSteps(a) PROVE IInv'
  <2>1. a \in Actors
    BY DEF Actors
  <2> QED BY <1>3, <2>1, EndsWithoutCommit, ClaimKeeps, LeaseKeeps, ReleaseKeeps, SettleKeeps
          DEF WorkerSteps
<1> QED BY <1>1, <1>2, <1>3, EnqueueKeeps DEF Next

\* Two threads that select the same row never both get it.
THEOREM JobsAreClaimedOnce == Spec => []ClaimedOnce
<1>1. IInv => ClaimedOnce
  BY DEF IInv
<1> QED BY InitIInv, NextIInv, <1>1, PTL DEF Spec

\* At most one engine is past acquire_run_lease, whatever fails on the way.
THEOREM LeaseIsExclusive == Spec => []LeaseExclusive
<1>1. IInv => LeaseExclusive
  BY DEF IInv, HeldInv, ClaimedOnce, LeaseExclusive
<1> QED BY InitIInv, NextIInv, <1>1, PTL DEF Spec

\* A transaction that began with the lock is not refused at its first write.
THEOREM LeaseWaitsItsTurn == Spec => []LeaseNeverRefused
<1>1. IInv => LeaseNeverRefused
  BY DEF IInv, TxInv, Open4, LeaseNeverRefused, RefusedAtOnce, OutOfDate, Actors
<1> QED BY InitIInv, NextIInv, <1>1, PTL DEF Spec

\* No transaction leaves the write lock behind.
THEOREM LockIsWithATransaction == Spec => []LockIsOpen
<1>1. IInv => LockIsOpen
  BY DEF IInv, TxInv, Open4, LockIsOpen
<1> QED BY InitIInv, NextIInv, <1>1, PTL DEF Spec

\* The tables, the pool and the transactions keep their types.
THEOREM TypeCorrect == Spec => []TypeOK
<1>1. IInv => TypeOK
  BY DEF IInv
<1> QED BY InitIInv, NextIInv, <1>1, PTL DEF Spec
=============================================================================
