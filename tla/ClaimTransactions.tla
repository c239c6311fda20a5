------------------------- MODULE ClaimTransactions -------------------------
(***************************************************************************)
(* The other modules take a transaction of the database for one step.      *)
(* This one opens it: the worker threads that claim, lease, persist and    *)
(* settle jobs and the API threads beside them share a pool of             *)
(* connections; a transaction is a BEGIN, a SELECT, a first write and a    *)
(* COMMIT, between which others do the same.                               *)
(*                                                                         *)
(* The database is external: SQLite in WAL mode.  A transaction sees the   *)
(* snapshot of its first SELECT, and there is one write lock.  BEGIN       *)
(* IMMEDIATE, and a transaction whose first statement writes, wait for the *)
(* lock up to busy_timeout.  A transaction that has read and then writes   *)
(* does not wait: it is refused at once if another one holds the lock, or  *)
(* has committed since its snapshot.  Restarts and the expiry of the lease *)
(* are left to RunWorker and RunLease.                                     *)
(***************************************************************************)
EXTENDS Naturals

CONSTANTS
  Workers,   \* the worker threads: one for each process on the database
  Clients,   \* requests of the API that are served at the same time
  Conns,     \* the pool of connections
  Nobody, NoConn,
  NumJobs    \* bound: rows the queue ever holds, numbered in enqueue order

ASSUME CountAssumption == NumJobs \in Nat
ASSUME ActorAssumption ==
  Workers \cap Clients = {} /\ Nobody \notin Workers \union Clients /\ NoConn \notin Conns

Jobs   == 1..NumJobs
NoJob  == 0
Actors == Workers \union Clients

VARIABLES
  \* the database
  status,      \* run_queue.status; "none" before the row
  leaseOwner,  \* run_leases.run_id, or NoJob
  lock,        \* who holds the write lock, or Nobody
  \* the pool
  asked,       \* Connection.info["begin_immediate"], which outlives the transaction
  \* the threads
  pc, kind,    \* the transaction and how far it is
  conn,        \* the connection it runs on
  immediate,   \* it begins with BEGIN IMMEDIATE
  fresh,       \* nothing was committed since its SELECT
  seen,        \* what its SELECT returned: a row of the queue or the owner of the lease
  next,        \* the transaction a worker has to do next
  held         \* the job a worker works on

dbVars == <<status, leaseOwner>>
txVars == <<kind, conn, immediate>>
vars   == <<dbVars, lock, asked, pc, txVars, fresh, seen, next, held>>

WorkerKinds == {"claim", "lease", "persist", "release", "finish", "requeue", "read"}
ClientKinds == {"enqueue", "decide", "read"}
Kinds       == WorkerKinds \union ClientKinds

-----------------------------------------------------------------------------
(* What the code decides.  A definition that is named like another one and *)
(* stands before it is a seeded fault.                                     *)

\* Who sets begin_immediate before the transaction begins, and who after it
\* has: session.connection() returns a connection whose transaction has begun.
AsksBefore(k) == k = "lease"
AsksAfter(k) == k = "claim"

\* Whether SELECT and write are statements of the same transaction.
OneTransactionButClaim(k) == k # "claim"
OneTransaction(k) == TRUE

\* The rows claim_next looks for, the oldest one first.
Queued == {j \in Jobs : status[j] = "queued"}
Oldest == {j \in Queued : \A i \in Queued : j <= i}

\* acquire_run_lease found the lease with another run.
BusyNever(a) == FALSE
Busy(a) == kind[a] = "lease" /\ seen[a] \notin {NoJob, held[a]}

\* What finish and requeue make of a row.
Settled(k) == IF k = "finish" THEN "done" ELSE "queued"

\* What a transaction leaves of the lock when it ends, by COMMIT or ROLLBACK.
LockAfter(a) == IF lock = a THEN Nobody ELSE lock

-----------------------------------------------------------------------------
Init ==
  /\ status = [j \in Jobs |-> "none"]
  /\ leaseOwner = NoJob
  /\ lock = Nobody
  /\ asked = [c \in Conns |-> FALSE]
  /\ pc = [a \in Actors |-> "idle"]
  /\ kind = [a \in Actors |-> "read"]
  /\ conn = [a \in Actors |-> NoConn]
  /\ immediate = [a \in Actors |-> FALSE]
  /\ fresh = [a \in Actors |-> FALSE]
  /\ seen = [a \in Actors |-> NoJob]
  /\ next = [a \in Workers |-> "claim"]
  /\ held = [a \in Workers |-> NoJob]

\* The transactions an actor may open.  A worker also reads: the listing of the
\* scheduler, the previous snapshot, the profile.  With the lease in its hands
\* it persists what it scanned, in as many transactions as it takes.
Opens(a) ==
  IF a \in Clients THEN ClientKinds
  ELSE {"read", next[a]} \union (IF next[a] = "release" THEN {"persist"} ELSE {})

\* A connection is taken from the pool; the handler of the "begin" event pops
\* begin_immediate and chooses the statement.
Open(a, k, c) ==
  /\ pc[a] = "idle"
  /\ k \in Opens(a)
  /\ \A b \in Actors : conn[b] # c
  /\ pc' = [pc EXCEPT ![a] = "begin"]
  /\ kind' = [kind EXCEPT ![a] = k]
  /\ conn' = [conn EXCEPT ![a] = c]
  /\ immediate' = [immediate EXCEPT ![a] = AsksBefore(k) \/ asked[c]]
  /\ asked' = [asked EXCEPT ![c] = FALSE]
  /\ UNCHANGED <<dbVars, lock, fresh, seen, next, held>>

\* BEGIN, or BEGIN IMMEDIATE once the lock is free.
Begin(a) ==
  /\ pc[a] = "begin"
  /\ immediate[a] => lock = Nobody
  /\ lock' = IF immediate[a] THEN a ELSE lock
  /\ asked' = [asked EXCEPT ![conn[a]] = AsksAfter(kind[a])]
  /\ pc' = [pc EXCEPT ![a] = IF kind[a] = "release" THEN "write" ELSE "select"]
  /\ UNCHANGED <<dbVars, txVars, fresh, seen, next, held>>

\* What the SELECT of a transaction may return, as far as it matters.
Returned(k) ==
  CASE k = "claim" /\ Queued # {} -> Oldest
    [] k = "lease"                -> {leaseOwner}
    [] OTHER                      -> {NoJob}

\* The SELECT, which fixes the snapshot of the transaction.
Select(a) ==
  /\ pc[a] = "select"
  /\ \E row \in Returned(kind[a]) : seen' = [seen EXCEPT ![a] = row]
  /\ fresh' = [fresh EXCEPT ![a] = TRUE]
  /\ pc' = [pc EXCEPT ![a] = "read"]
  /\ UNCHANGED <<dbVars, lock, asked, txVars, next, held>>

\* The connection goes back to the pool, the locals are gone.
Close(a, after) ==
  /\ pc' = [pc EXCEPT ![a] = after]
  /\ kind' = [kind EXCEPT ![a] = "read"]
  /\ conn' = [conn EXCEPT ![a] = NoConn]
  /\ immediate' = [immediate EXCEPT ![a] = FALSE]
  /\ seen' = [seen EXCEPT ![a] = NoJob]
  /\ lock' = LockAfter(a)
  /\ UNCHANGED asked

\* These actors have no snapshot, or one that is out of date.
Expire(A) == fresh' = [b \in Actors |-> fresh[b] /\ b \notin A]

\* There is nothing to write: it only reads, no job waits, or the queue has
\* all the rows it may hold.
NothingToWrite(a) ==
  \/ kind[a] = "read"
  \/ kind[a] = "claim" /\ seen[a] = NoJob
  \/ kind[a] = "enqueue" /\ \A j \in Jobs : status[j] # "none"

EndsReading(a) ==
  /\ pc[a] = "read"
  /\ NothingToWrite(a)
  /\ Close(a, "idle")
  /\ Expire({a})
  /\ UNCHANGED <<dbVars, next, held>>

\* RunLeaseBusyError: the transaction is rolled back, the job requeued.
LeaseBusy(a) ==
  /\ pc[a] = "read"
  /\ Busy(a)
  /\ Close(a, "idle")
  /\ Expire({a})
  /\ next' = [next EXCEPT ![a] = "requeue"]
  /\ UNCHANGED <<dbVars, held>>

\* Whether the first write comes too late for its snapshot.
OutOfDate(a) == pc[a] = "read" /\ OneTransaction(kind[a]) /\ ~fresh[a]

\* The first write takes the lock.
Write(a) ==
  /\ \/ pc[a] = "write"
     \/ pc[a] = "read" /\ ~NothingToWrite(a) /\ ~Busy(a) /\ ~OutOfDate(a)
  /\ lock \in {Nobody, a}
  /\ lock' = a
  /\ pc' = [pc EXCEPT ![a] = "written"]
  /\ UNCHANGED <<dbVars, asked, txVars, fresh, seen, next, held>>

\* A transaction of kind k is committed: every snapshot is out of date now.
Commits(a, k) ==
  /\ pc[a] = "written" /\ kind[a] = k
  /\ Close(a, "idle")
  /\ Expire(Actors)

\* claim_next: the row is running and the worker has its job.
ClaimCommits(a) ==
  /\ Commits(a, "claim")
  /\ status' = [status EXCEPT ![seen[a]] = "running"]
  /\ held' = [held EXCEPT ![a] = seen[a]]
  /\ next' = [next EXCEPT ![a] = "lease"]
  /\ UNCHANGED leaseOwner

\* acquire_run_lease, of a free lease or of the run's own.
LeaseCommits(a) ==
  /\ Commits(a, "lease")
  /\ leaseOwner' = held[a]
  /\ next' = [next EXCEPT ![a] = "release"]
  /\ UNCHANGED <<status, held>>

\* What a scan, or a user's decision, writes is not part of this model.
DataCommits(a) ==
  /\ Commits(a, "persist") \/ Commits(a, "decide")
  /\ UNCHANGED <<dbVars, next, held>>

\* release_run_lease, one DELETE of the run's own lease.
ReleaseCommits(a) ==
  /\ Commits(a, "release")
  /\ leaseOwner' = IF leaseOwner = held[a] THEN NoJob ELSE leaseOwner
  /\ next' = [next EXCEPT ![a] = "finish"]
  /\ UNCHANGED <<status, held>>

\* finish and requeue: the row is settled, or queued again.
SettleCommits(a) ==
  /\ Commits(a, "finish") \/ Commits(a, "requeue")
  /\ status' = [status EXCEPT ![held[a]] = Settled(kind[a])]
  /\ held' = [held EXCEPT ![a] = NoJob]
  /\ next' = [next EXCEPT ![a] = "claim"]
  /\ UNCHANGED leaseOwner

\* enqueue, of the next row.
EnqueueCommits(a) ==
  /\ Commits(a, "enqueue")
  /\ \E j \in Jobs :
       /\ status[j] = "none"
       /\ \A i \in Jobs : i < j => status[i] # "none"
       /\ status' = [status EXCEPT ![j] = "queued"]
  /\ UNCHANGED <<leaseOwner, next, held>>

\* OperationalError("database is locked").  Nothing catches that of claim_next,
\* which is called before the try of run_once, or of requeue, which is called in
\* its except clause; some reads are caught and some are not.  What else a worker
\* does is followed by the end of the engine or by a requeue.
Locked(a) ==
  /\ \E after \in CASE a \in Clients                     -> {"idle"}
                    [] kind[a] \in {"claim", "requeue"}    -> {"dead"}
                    [] a \in Workers /\ kind[a] = "read" -> {"idle", "dead"}
                    [] OTHER                             -> {"idle"} :
       Close(a, after)
  /\ next' = IF a \in Workers /\ kind[a] \in {"lease", "release", "finish"}
               THEN [next EXCEPT ![a] = "requeue"] ELSE next
  /\ Expire({a})
  /\ UNCHANGED <<dbVars, held>>

\* A write after a read that finds the lock taken or the snapshot out of date.
RefusedAtOnce(a) ==
  /\ pc[a] = "read" /\ ~NothingToWrite(a) /\ ~Busy(a)
  /\ lock \notin {Nobody, a} \/ OutOfDate(a)

Refused(a) == RefusedAtOnce(a) /\ Locked(a)

\* The busy_timeout is over and another one still has the lock.
TimesOut(a) ==
  /\ lock \notin {Nobody, a}
  /\ (pc[a] = "begin" /\ immediate[a]) \/ pc[a] = "write"
  /\ Locked(a)

Steps(a) ==
  \/ \E k \in Kinds, c \in Conns : Open(a, k, c)
  \/ Begin(a) \/ Select(a) \/ EndsReading(a) \/ Write(a) \/ DataCommits(a)
  \/ Refused(a) \/ TimesOut(a)

WorkerSteps(a) ==
  \/ LeaseBusy(a) \/ ClaimCommits(a) \/ LeaseCommits(a) \/ ReleaseCommits(a) \/ SettleCommits(a)

Next ==
  \/ \E a \in Actors : Steps(a)
  \/ \E a \in Workers : WorkerSteps(a)
  \/ \E a \in Clients : EnqueueCommits(a)

Spec == Init /\ [][Next]_vars

-----------------------------------------------------------------------------
(* Properties *)

TypeOK ==
  /\ status \in [Jobs -> {"none", "queued", "running", "done"}]
  /\ leaseOwner \in Jobs \union {NoJob}
  /\ lock \in Actors \union {Nobody}
  /\ asked \in [Conns -> BOOLEAN]
  /\ pc \in [Actors -> {"idle", "begin", "select", "read", "write", "written", "dead"}]
  /\ kind \in [Actors -> Kinds]
  /\ conn \in [Actors -> Conns \union {NoConn}]
  /\ immediate \in [Actors -> BOOLEAN]
  /\ fresh \in [Actors -> BOOLEAN]
  /\ seen \in [Actors -> Jobs \union {NoJob}]
  /\ next \in [Workers -> WorkerKinds]
  /\ held \in [Workers -> Jobs \union {NoJob}]

\* "The database is the mutual exclusion boundary" (RunWorker): two threads that
\* select the same queued row never both get it, although the claim does not begin
\* with the lock.
ClaimedOnce ==
  \A a, b \in Workers : a # b /\ held[a] # NoJob => held[a] # held[b]

\* Of the engines that run before the lease expires, one at most is past
\* acquire_run_lease, also when releases fail and jobs are claimed again.
LeaseExclusive ==
  \A a, b \in Workers : next[a] = "release" /\ next[b] = "release" => a = b

\* acquire_run_lease waits for its turn: having begun with the lock it is never
\* refused for what others do between its SELECT and its write.
LeaseNeverRefused == \A a \in Workers : kind[a] = "lease" => ~RefusedAtOnce(a)

\* The lock is always with a transaction that is still open, whichever way the
\* others ended.
LockIsOpen ==
  lock # Nobody => pc[lock] \in {"select", "read", "write", "written"}
=============================================================================
