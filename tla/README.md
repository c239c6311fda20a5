# Auction Watch: TLA+ models and proofs

Auction Watch scans a few auction sites for the lots that match search profiles,
publishes a snapshot per run and mails what changed.  This directory models the
way of a lot from a site to a mail: the scans of the sources, the reconciliation of the
inventory, the matcher, the run queue with its scheduler, worker and engine, the
planner of mails, the outbox and the delivery, and the profiles and decisions that
users keep.  Paths below are relative to `src/auction_watch/` in the repository.

## 1. The system

One process, one SQLite file, three kinds of actors: the HTTP API (request
threads), one worker thread (`AuctionWatchWorker.run_forever`: schedule, run one
job, deliver one mail, sleep), and the scanner threads of a run, which touch no
table.  They share nothing but the database; every `with sessions.begin()` block is
one transaction.  Nothing keeps a second process away but the queue and the lease, which are
documented as the boundary between processes.

| component | state it keeps | operations |
|---|---|---|
| run queue (`async_ops.py`) | `run_queue`, and the `runs` row created with it | `enqueue`, `claim_next`, `finish`, `requeue`, `recover_interrupted` |
| run worker (`worker.py`) | the claimed job, the previous snapshot (locals) | `run_once`, its `except` clause, construction |
| run engine (`runner.py`) | `runs`, `run_profiles`, `run_leases`, `auction_snapshots` | `run`, `_execute` and its helpers |
| reconciliation (`persistence/operational_repository.py`) | `run_sources`, `coverage_receipts`, `auction_lots`, `opportunities`, `profile_matches` | `record_receipt`, `reconcile_group`, `reconcile_omitted_groups`, `retire_stale_lots`, `record_match`, `deactivate_missing_matches` |
| planner (`notifications/service.py`) | none | `plan` |
| outbox and delivery (`async_ops.py`, `worker.py`) | `notification_outbox` | `enqueue`, `claim_due`, `mark_sent`, `mark_failed`, `recover_inflight` |
| scheduler (`scheduler.py`, `runner.due_profiles`) | none; reads the queue | `enqueue_due_profiles` |
| profiles (`persistence/repository.py`, `server/profiles.py`) | `profiles`, `profile_sources` | create, replace with a revision, delete, clone, seed |
| user decisions (`persistence/operational_repository.py`) | `user_opportunity_states`, `profile_reviews`, `ignored_auctions` | `set_user_state`, `mark_profile_reviewed`, `replace_ignored_auction_titles` |
| sources (`sources/`) | the budget and the deadline of a scan | `scan`: discover groups, page through lots, decode, give receipts |
| matching (`core/matching.py`) | none | `match_lot` |
| mails (`notifications/rendering.py`) | none | `render_matches_notification` |

What is hard: the worker's steps are separate transactions, so a crash, an
exception or an API call can come between any two of them; a retry repeats steps
that were already done; the lease outlives its owner; a profile can disappear
under a job; partial scans must not remove what they did not see.  A site changes while
it is read, and what the reader claims to be complete is removed on that word.  Requests read in
one transaction and write in another.  The clock of a schedule is not the clock of the queue.

What makes each part correct:

- *queue, worker, engine*: a run settles once and is published once; queue and run
  record agree; an accepted job settles in spite of crashes and leases left behind;
  the lease is released; no profile disappears under its run.
- *planner and outbox*: a settled run has exactly the outbox row its policy asks for,
  and no row says what did not happen.
- *delivery*: bounded attempts, at most one mail each, `sent` only after a mail, an end
  for every notification.
- *reconciliation*: a lot leaves the inventory only on evidence, an authoritative scan
  leaves exactly what the site publishes, a snapshot lists what its own attempt
  matched, a lot that is gone is retired in the end.
- *sources*: a receipt that claims authority leaves out no lot that was on sale throughout; a
  group is only given up for a cause of its own; the engine accepts the result.
- *scheduler, submission*: every slot is attended to within its grace, none is run twice, one
  idempotency key is one job.
- *profiles, decisions*: no lost update; a pause lasts; the protected profile says what its
  newest seed says.
- *matching and mails over time*: the mails together tell the recipient what the last snapshot
  says, as far as a mail shows it, and none tells him what he knows.

## 2. Modules

| module | what it is |
|---|---|
| `RunWorker` | queue, run worker and engine, one action per transaction |
| `RunWorkerProofs` | its type correctness and safety, proved |
| `RunLease` | the same loop in several processes on one queue and lease |
| `RunLeaseProofs` | its type correctness and safety, proved |
| `ClaimTransactions` | the transactions of SQLite under the claim, the lease and the requests, statement by statement |
| `ClaimTransactionsProofs` | all its safety, proved |
| `BoundedDelivery` | what the outbox promises, abstractly |
| `Delivery` | outbox and delivery worker, implements `BoundedDelivery` |
| `Reconciliation` | what a run does to inventory and matches of one source and one profile |
| `ReconciliationProofs` | the safety of `Reconciliation` and of `CastellsScan`, the two ends of the evidence, proved |
| `SourceTransport` | what becomes of one request: two attempts under a deadline |
| `SourceContract` | what the engine accepts as the result of a scan |
| `CastellsScan` | the scan of Castells: two threads, cursors, an adaptive decoder; uses `SourceTransport` |
| `CatalogueScan` | the scans of Prado, TodoRemates, Bavastro and Remotes; uses `SourceTransport` and `SourceContract` |
| `CatalogueScanProofs` | all its safety, proved |
| `Submission` | scheduler, worker thread and `POST /runs` in front of the queue |
| `SubmissionProofs` | all its safety, proved |
| `ProfileStore` | profiles, seeds and decisions under concurrent requests and releases |
| `ProfileStoreProofs` | all its safety, proved |
| `Matching` | the matcher, as operators |
| `Announcements` | runs, matches and mails of one profile over time; uses `Matching` |
| `NotificationProofs` | the safety of `Announcements` and of `Delivery`, its refinement, and what a match needs and an edit cannot do, proved |
| `MC...` | instances for TLC |

In every component module a definition that is named like another one and stands
before it (`RecoveredNothing` before `Recovered`) is a seeded fault: the code with a
plausible mistake.  No action uses it.  Replacing the real definition by it makes TLC
report the property that guards against the mistake; `PROJECT.json` lists the pairs.

How the modules fit together: what `Reconciliation` assumes of a scan (its `Reports`) is what
`CastellsScan` and `CatalogueScan` are checked for, as far as it is true (section 6).  `Submission`
fills the queue that `RunWorker` empties, which takes any job at any time.  `RunWorker` leaves
open what a run finds, `Reconciliation` and `Announcements` say it.  `Announcements` supposes that every plan is
carried out and every mail arrives; how far that is so is what `RunWorker` and `Delivery` say.
`ProfileStore` is what `RunWorker`, `Submission` and `Announcements` see as edits, pauses and deletions.

### RunWorker

| state | in the code |
|---|---|
| `profile`, `queueStatus`, `profileOf`, `attempt`, `available` | `profiles.enabled`, the `run_queue` columns; `available` is `available_at <= now` |
| `runStatus`, `bound` | `runs.status`, rows of `run_profiles` |
| `leaseOwner`, `leaseExpired` | the `run_leases` row of the engine, `expires_at <= now` |
| `snapshots`, `matches`, `outbox` | `auction_snapshots` by `published_at`, what a snapshot lists, `notification_outbox` |
| `pc`, `job`, `previous`, `victim`, `outcome`, `raising` | where the thread stands and its locals; a crash erases them |

`RunWorker.run_once` is the path `Claim`, `Start`, the engine, `Finish`, `PlanNothing` or
`PlanNotification`, `EnqueueNotification`.  `AuctionRunEngine.run` is `AcquireLease` (or
`LeaseBusy`), `Abandon` of the owner it replaced, `LoadProfile`, `BindProfile`, `Execute`,
`RecordSnapshot`, `ReleaseLease`.  `Raised` says which `except` clause an exception
reaches from each place; the worker's clause is `Requeue`, `GiveUp` with `CloseRun`, or
`RowMissing`, which ends the thread.  `Enqueue`, `SetEnabled`, `DeleteProfile` are the API
and the scheduler, `DelayElapses` and `LeaseExpires` the clock, `Crash` and `Boot` the
process.  Time is two facts (is the delay over, has the lease expired), so the model
covers every ratio of the five seconds of a requeue and the five minutes of a lease.
The lease may expire at any moment: no call renews it.

What `_execute` finds is free: any terminal status, any set of matches.

### RunLease

The variables of `RunWorker` that the queue and the lease need, with `pc`, `job`, `victim`, `outcome`,
`raising` for each process; profiles, snapshots' contents and mails are left out.  Two reads that another
process can invalidate are steps of their own here: `Look` and `Abandon` are the two transactions in which
the run of a replaced owner is closed, `Load` reads the run again before `OpenRun` writes it.  `Boot` recovers
every running row, whoever runs it.  Two history variables say when the code's assumptions were broken under
a living process: `late`, the lease has expired while its owner was in the engine; `stolen`, a process started
and requeued the job of another one.  `Disturbed` is either.

### ClaimTransactions

| state | in the code |
|---|---|
| `status`, `leaseOwner` | the two tables |
| `lock`, `fresh`, `seen` | the write lock of SQLite; whether a transaction's snapshot is current and what it returned |
| `asked` | `Connection.info["begin_immediate"]`, on a connection of the pool |
| `pc`, `kind`, `conn`, `immediate` | each thread's transaction: how far it is, what it does, its connection, how it began |
| `next`, `held` | what a worker does next, and the job it holds |

`Open` is the `begin` event handler, which takes the flag off the connection; `Begin` waits for the lock if the
flag was set.  `acquire_run_lease` sets it before (`AsksBefore`), `claim_next` after its transaction has begun (`AsksAfter`), so
that it serves the next transaction of that connection.  The rules of SQLite are external: one write lock; a
transaction that has read and then writes is refused at once when the lock is taken (`Refused`) or its
snapshot is out of date (`OutOfDate`); `BEGIN IMMEDIATE` and a write that comes first wait up to `busy_timeout`
(`TimesOut`).  `Locked` says who catches the error: the request answers it, the engine and the worker requeue,
and nobody catches that of `claim_next` and of `requeue`, where the thread ends.  All threads share one pool; several
processes have one each, so that their flags can leak to fewer transactions than in the model.

### Delivery

`status`, `attempts`, `due` are columns of the outbox; `due` is `next_attempt_at` absent or past.
`mails` counts what is really on the wire, which the program cannot know.  `Claim` is
`claim_due`; `Send`, `SendFails`, `SendFailsLate` are the three ways a mail can go;
`MarkSent`, `MarkFailed`, `MarkMissing` are what follows.  The backoff's length is
abstracted to `DelayElapses`.

`BoundedDelivery` is the abstract promise: a notification is tried a bounded number
of times and is done only after a mail.  `Delivery` implements it under the mapping
`Phase` (pending and failed are *open*, sending is *trying*).

### Reconciliation

| state | in the code |
|---|---|
| `live` | what the site publishes, which the program sees only through `scan` |
| `active`, `aged`, `lastAbsence` | `opportunities.active`, `last_seen_at` older than the TTL, `last_absence_run_id` |
| `receipts`, `matched` | `coverage_receipts`, `profile_matches.active` |
| `pending` | runs that were interrupted and are still open |
| `run`, `retried`, `pc`, `scan`, `todo`, `group`, `expected`, `toRecord` | the attempt in progress and its locals |

The steps of `_execute` are `RetireStale`, `Scan`, then `RecordReceipt` and `ReconcileGroup`
for each group, `ReconcileOmitted`, `MatchLots`, `RecordMatch` for each match,
`DeactivateMissing`, `Publish`; `Interrupt` can come between any two and `Retry` starts again
under the same id.  Choices made here:

- One source and one profile: sources are persisted one after the other and every row
  is keyed by its source; profiles only read the inventory.
- Run ids are recycled: when a run is settled, `Forget` erases its id from the receipts and the
  absences, so that a small set of ids stands for any number of runs.  A settled run's
  id is never looked up again.
- The site changes only between attempts, because an attempt reads it once, in `Scan`, where
  the threads of a real scan end.  `Ages` is held back to the same places.
- `Scan` contains the writes of the source and of its run row, which nobody but this
  attempt reads.
- `Reports` says what an adapter may return.  It is the external part: a result whose
  claims do not contradict each other is *truthful* for a non-volatile source (what it
  says is complete is complete).  A result that contradicts itself, or has the wrong
  form, may be untrue; the engine's contract check has to catch it.  A complete
  receipt without authority counts as partial, as the code treats them the same.
- `Wanted` is the set of lots any revision of the profile could match, and `MatchLots` takes any
  part of the active ones: closing dates, terms and scores are data.
- The sighting counter, which is only displayed, is left out.

### SourceTransport and SourceContract

`Tries` are the courses `HttpxTransport.get` can take: an answer, a status of `RETRY_STATUS` or a lost
connection followed by one more attempt if the pause fits the deadline, a final refusal.  `Gets` is what the
code makes of it, `LetDown` what the properties call the server's fault.  Redirects, sizes and encodings are ways to be
refused.  `Accepted` is `_source_contract_error`, check by check, on a result reduced to ids and claims.

### CastellsScan

| state | in the code |
|---|---|
| `published`, `always`, `flaw`, `conflicting`, `title` | the site: the open lots, those open since the scan began, what is odd about a row or a group |
| `phase`, `relevant`, `worker` | `scan`: discovery, `relevant_auctions`, what each thread of the executor does (the group, the cursor, the cursors seen, the rows) |
| `requests`, `expired` | `_request_count` and the deadline, read under the lock in `_get` |
| `receipt`, `listed` | the receipts and the lots of the result |
| `veiled` | history: the groups of which a page with rows was taken for the end of an auction without lots |

`Discover` is the home page with its skipped and conflicting groups, `Take` the executor, `Fetch` one request
with its decoding, `Stops` the page limit, a cursor that comes back and a starved budget, `Settle` the receipt.  Groups are called auctions here, and the
specification `ScanSpec`, since its proofs share a module with those of `Reconciliation`.
A lot is its place in the order of the site, and a page holds the first `PageSize` open rows
after the cursor.  The decoder is modelled by what it decides: `Payload` says in which shape the rows
come (a known key, other lists, nowhere) and whether a meta envelope stands beside them, `Confidence` and `Decode` are the rules of `_candidate_confidence` and
`_decode_lot_page`.  Every shape comes with and without a meta envelope (`Metas`), which may be silent on
whether more rows follow; since the decoder looks for the envelope of a closed auction before it looks for lists under other keys, a silent
one hides such a list (`Veiled`).  A scan has at most one odd row or group, and each request at most one fault: each
is handled apart in the code.

### CatalogueScan

One model for four adapters, with `adapter` fixed at the start.

| state | in the code |
|---|---|
| `shelf`, `flaw`, `counted`, `closed` | the site: what its lists show now, what is odd about the record of a lot, whether it declares its number of pages or lots, the auctions that are not active |
| `always`, `withdrawn`, `changes` | history: the lots shown since the scan began, how many were taken from their lists, how often the site changed |
| `phase`, `target`, `page`, `total`, `rows` | where the scan stands, the list it reads, and the locals of `_pages` (Bavastro: `_discover`, `_lots`) |
| `queue`, `refusals` | the auctions still to be read, priced or reported; the prices refused in a row |
| `groups`, `receipts`, `lots`, `flawless` | the result; `flawless`, no error was noted |
| `faults`, `troubled` | history: requests that went wrong, and for which list |

`Fetch` is one request with what the page leads to: the next page, the end of the list (`Discovered`, `GroupRead`), or
`Broken`.  `Verdict` is the rule by which each adapter sees that a page is the last one, `AtLimit` the guard of `MAX_PAGES`,
`Known` the total Prado goes by.  `NextGroup` and `DetailFails` are the detail of an auction, `Price` and `Priced` the
prices of Remotes, `ReportAuction` and `ReportCategory` the groups of Remotes and Prado, `NoGroupLeft` the end.  `ReceiptFor`
judges a group, `Spoilt` says how each adapter finds that its records are not what they should be.  `Picked` is every
filter of the code: the elements of a list that are in a set, in their order.  `Publish` and `Withdraw` change the site
between two pages.  An id is part of the text of another (`Within`), since Prado looks for ids in error texts.
`Wrong` covers failed requests and absurd declarations.  The result is checked against `SourceContract`.

### Submission

| state | in the code |
|---|---|
| `now`, `zone` | the clock (UTC) and the zone of the schedules, whose clock may go forward or back once |
| `profile` | there and enabled, paused, or deleted |
| `queue` | `run_queue`: key, profile, status, `enqueued_at`, `finished_at` |
| `loop` | `AuctionWatchWorker.run_once`: where it stands, when the pass began, the profiles it listed, those still due, the job |
| `request` | each `POST /runs`, between its transactions |

`ListProfiles`, `ReadCoverage` (two transactions, between which anything may happen), `EnqueueDue`, `ScheduleRaises`, `Scheduled` are the pass of
the scheduler; what a raise leaves due stays in `loop` until the pass is over; `ClaimNext` and `FinishRun` the run
after it; `Ask`, `LookUpKey`, `EnqueueManual` the handler.  `Wall`, `Fold`, `Utc` are what `zoneinfo` does.
`Inserted` is `enqueue` with its unique key.

### ProfileStore

| state | in the code |
|---|---|
| `store` | `profiles`: kind, seed version, enabled, criteria, notification mode, revision |
| `decision` | `user_opportunity_states` of one lot: state and version, for each profile |
| `req` | what each client has read and is about to do; a page of a browser survives a restart, a handler does not |
| `up`, `newest`, `births`, `asked` | the process, and history for the properties |

`Boot(v)` starts the release with seed `v`, which may be older than the last.  `Read` is the first transaction of a
handler, or what a page shows; `Replace`, `Delete`, `Clone`, `Decide` the second; `Refused` every error answer.
Criteria are one value, and schedules are not told from the mode.

### Matching and Announcements

A text is the set of terms that occur in it as whole words.  `Found` is a term in an allowed context,
`Triggered` what makes a match, `Score` the weights, `Matches` the order of rejections as a conjunction.  `Search` are the
profiles that `SearchProfile.validate_profile_rules` lets through.  A profile also writes its terms in an order (`rank`) and a spelling, which
decide no match but are recorded with it: `matched_terms` is a list without repetitions, given here as the place and the spelling of each
term (`Listing`).

In `Announcements` (its specification is `NewsSpec`, as its proofs share a module with those of `Delivery`) the market moves (`market`, `closed`), a `Run` stores all or part of it (`inventory`) and publishes a snapshot
of the matches, `Plan` compares it with the one before and mails.  `picture` is what the recipient
was last told of each lot (`Told`: the score and the first `MaxTerms` terms, as `LotView` shows them), `unsaid` the lots of which something was kept
from him, on purpose (muted, dismissed, or gone in a partial run) or because it fell to the limit of a mail; `stage` is where
the worker stands between a run and its plan.  `Shows` is which lots of a mail are shown: `MaxLots` at most, those
that left the search last.  Among the others the closing times and the titles decide, which the model leaves open.  `wording` is history: how
the profile wrote its terms at the last run and at that of the last plan.

## 3. Runs

| run | asks | states |
|---|---|---|
| `RunWorkerFaults` | two profiles of different policies, under a crash, an exception, lease expiry, pauses and deletions: are records, publication and outbox kept, has every settled run the outbox row its policy asks for, and does every accepted job settle | 870 011 |
| `DeliveryFaults` | are mails bounded and `sent` true under crashes, errors, lost answers and deletions; does `Delivery` implement `BoundedDelivery`; does every notification that no fault touches end | 44 207 |
| `DeliveryThreadDies` | a promise about retries, violated (section 6) | |
| `ReconciliationEvidence` | does only evidence remove, is the inventory exact under authority, is a snapshot that of its attempt | 4 330 794 |
| `ReconciliationVolatile` | does the quarantine hold, and is what is gone still retired in the end | 256 526 |
| `CastellsScan` | is an authoritative receipt true while the site changes, requests fail, envelopes change and pages are garbage; does a group fail only for a cause | 3 335 870 |
| `CatalogueScan` | the same of the four catalogues, and does the engine accept the result | 3 574 755 |
| `RunLease` | two processes, each other's crash, restart and expired lease, one error: do engines overlap only for a cause, do queue and record agree until then, is the lease released | 1 558 076 |
| `ClaimTransactions` | is a job claimed once and has the lease one owner, with two workers, a request and three connections | 443 926 |
| `Submission` | is every slot attended to, none repeated, a key one job, with two requests beside the thread | 3 457 228 |
| `ProfileStore` | is no update lost, a pause kept, the protected profile kept, with two clients and releases that go forward and back | 1 969 367 |
| `Announcements` | do the mails tell the last snapshot as far as they show it, and nothing twice | 335 194 |

States are distinct states, after symmetry.  The longest runs take about two minutes.

**Bounds, and why they are enough.**

- *RunWorker*: two jobs, because everything between jobs (lease, takeover, previous snapshot, oldest
  first) is between two of them, of one profile or of two.  One profile hears of everything and has dismissed the
  only lot, so that it gets the failures alone; the other hears of that lot when it is new and when it is gone, and of no
  failure.  `MaxAttempts` is 2 (3 in the code): a job has a retry and a last attempt.  One crash and one error can each hit an
  attempt or its retry, or one the handling of the other; the safety properties are proved for any number of them.  Both profiles can be deleted.
- *RunLease*: two processes, since every property is about a pair; two jobs, one to be taken over and one to take;
  one crash and one error, which hit either process at any point; two attempts.  Leases expire without bound.
- *ClaimTransactions*: two workers that claim the same row, a client whose commits put both out of date, three
  connections so that nobody waits for one and a flag can reach anybody; two rows.
- *Delivery*: two notifications of two profiles, so that one can suffer for the other; three
  attempts as in the code; two crashes and two errors.
- *Reconciliation*: a group is only related to others by omission, so two groups of one lot
  (`TwoGroups`) cover it, and two open runs give every order of interruption, retry and
  abandonment.  The quarantine needs a group of which a part is less than a fraction: three
  lots, a minimum of 2 and a ratio of 2 stand for 8 and 4 in the code (1 shown of 3 is a
  suspicious drop, 2 of 3 is not).  `QuarantineHolds` is proved for every minimum and ratio.
- *CastellsScan*: two groups and two threads, since threads share only the budget; three lots and
  pages of two rows, so that a group has a full page, a short one and a cursor between them; two
  pages for a group and four requests for a scan, one less than two full groups and the home page
  need, so that both limits bite; one change of the site and one fault at any moment.
- *CatalogueScan*: four lots of one group and one of another, two pages of two, so that a list can fill
  the pages an adapter reads and the catalogue of Prado can outgrow them, which makes its total absurd; two changes, so that a
  lot is published and another withdrawn; two faults, so that a request and its retry fail, or two groups; one odd
  record or closed auction, since the code handles each by itself.  An auction of Bavastro beyond the limit, which
  `ResultIsAccepted` excepts, does not occur here; the proofs cover it.
- *Submission*: a day of four units, a grace of two, slots a grace and a unit apart and one at the end of the day,
  a horizon past midnight; a clock that stays, goes forward or back; two rows, two requests with one
  key, one pause, deletion or crash.  Two rows are a covered slot and the one that could repeat it.
- *ProfileStore*: two clients and four writes are a read, a write in between, and one more on each side; one id
  that can be reused and the protected one; two seed versions installed in any order.
- *Announcements*: two lots, which the code compares one by one, and three events between any runs; three
  contents and three searches that exercise every rule of the matcher, one of them another in other words.  A mail shows one lot (`MaxLots`,
  25 in the code) and two terms of it (`MaxTerms`, 4 in the code), so that a lot is cut as soon as both
  change and a term as soon as three are found; the proofs hold for any limits.

Runs of `RunWorker`, `RunLease` and `Delivery` do not check deadlock: with no job left, faults used
up and profiles deleted the system rests, and a dead thread is a state of the
program (a finding, below).  In `Submission` time ends at its horizon.  All other runs check deadlock;
the scans stutter when they are done.

## 4. Fairness

- *The worker's steps* are weakly fair: `run_forever` (`worker.py:188`) loops every half second
  until the process is told to stop, and each step follows the one before.  Not fair: a thread
  that has died (`pc = "dead"`), a state that only `Crash` leaves; `EveryJobSettles` and
  `EveryNotificationEnds` except it.
- *Boot* is weakly fair: the container's supervisor (`rootfs/etc/services.d`) starts
  the process again.
- *The clock* is weakly fair for the delay of a queue row and of a retry of a mail.
  `LeaseExpires` is not fair: `EveryJobSettles` needs no expiry, because a job that finds the
  lease busy uses up its attempts.
- *Reconciliation*: the attempt's steps and the start of a run (the schedule) are weakly fair.
  `Ages` is strongly fair, as the clock runs during attempts too and the model holds
  it back only to the time between them, where it is enabled again and again.
- Nobody obliges users, faults, the site, or a retry.

The scans, `RunLease`, `ClaimTransactions`, `Submission`, `ProfileStore` and `Announcements` are checked for safety only.  That a pass of the scheduler
comes within the grace of a slot is not guaranteed by the code, since a run may take longer than the
grace; `SlotAttended` therefore says what a pass does once it comes.

## 5. Proofs

TLAPS proves the following for every value of the constants the assumptions allow: any number of
jobs, profiles, notifications, lots, groups, clients, releases, crashes and errors.  The assumptions are the
named `ASSUME`s of the modules; they only type the constants.

**RunWorkerProofs.**  `CoveredAgrees` and the others are not inductive by themselves: a step
of the worker trusts what an earlier step found.  `IInv` adds what is known at each place
of the thread.  `HoldInv` says what the queue row of the claimed job is (running from the claim to
`Finish`, since only the worker writes it and `DeleteProfile` refuses it).  `RunInv` says what its run
row is.  `AttemptInv` counts a queued row one attempt below the bound,
`PublishInv` puts publication after settlement, so that the early return for settled runs keeps a
second snapshot away.  `ProfileInv` is the foreign key of the queue.  `FailedInv` says that only giving up fails a
published run, from which `OutboxInv` follows; `LeaseInv` says that without faults the lease is held exactly where
the engine runs.  Each part is shown to survive each action, from the parts before it.  These hold under faults.
`PolicyFollowed` needs three more, as long as nothing has failed: `QuietInv`, a job is run once and planned once;
`ComparedInv`, the snapshot the worker took before the engine (`previous`) is the last one of the profile
before its own, also when its own has been published; and that a later snapshot changes neither the place of an
earlier one nor what preceded it (`StepPlaces`).  What `plan` writes is then what the policy requires (`PlannedIsRequired`).

**RunLeaseProofs.**  As long as nothing is `Disturbed`, a process in the engine holds a lease that has not expired (`EngineHolds`) and
no two processes work on one job (`JobsApart`); hence an engine is alone.  `RowInv` says what the queue says of a job in a process's
hands, `RunInv` what its record says, `Agree` compares the two.  `CalmInv` is their conjunction, `IInv` makes it conditional: a step
that disturbs it sets `late` or `stolen`, and these stay.  `LeaseHasEngine` needs none of it and is inductive with the types: it holds in overlaps too.

**ClaimTransactionsProofs.**  `TxInv` says that whoever has the lock past its `SELECT` has a fresh snapshot: the first write is refused
otherwise, and no one else commits while the lock is held.  `SeenInv` says that what a fresh snapshot
returned is what the tables say.  So the row of a claim that commits is still queued and, by `HeldInv`,
with nobody; and the lease that is taken is free or one's own.  The claim is therefore safe without
`BEGIN IMMEDIATE`; what the flag's place costs is refusals.

**ReconciliationProofs.**  `ScanInv` is the heart: the kept result claims no more than the contract
check and the quarantine left of it, so a claim of authority is coherent and hence true.
`ReceiptInv` follows each receipt from the scan to its row, `FreshInv` says that an unused id has left no
trace, `FirstInv` that a first attempt finds no receipts or absences of its own, `ExactInv` that a
group it has reconciled is what the scan lists, `QuarantineInv` that a group still to be
reconciled has not become a suspicious drop meanwhile, which is what makes the test of the
quarantine valid when the removal happens.  `InventoryIsExact` needs the first attempt: on a retry it is
false (section 6), and on a retry `RemovalNeedsEvidence` is all that is left.

The same module proves the scan of Castells, which makes the receipts: `AuthorityIsTrue` and `PartialNeedsCause`.  First, what a page
is: the rows of a group are told apart by a number (`Place`), a page is a head of what lies beyond the cursor
(`PageIsHead`), all of it if it is short (`ShortIsAll`), and a full one reaches at least `PageSize` lots further
(`FullPageReaches`).  What the decoder accepts of a site that is well is the page (`AnswersAreRead`), of garbage nothing that was not sent
(`GarbageIsRefused`), and the page of a sound group it always accepts (`SoundPageIsRead`).  All but the last hold of pages that no silent meta
envelope hides; one that is hidden ends its group at once with what was read before it (`VeiledEnds`), and `AuthorityIsTrue` excepts that group.  Then two
invariants of each thread: `ReadInv`, its rows show every lot that was open throughout up to any cursor it has come to, even if only one of two
conflicting rows fell on the page; and `CountInv`, of a group with which nothing is wrong `visited` counts full pages, so that the page limit
is out of reach.  The first gives the truth of a complete receipt, whatever opens and closes meanwhile; the second that
only a cause makes a receipt partial.

**CatalogueScanProofs.**  What a filter returns comes first: since it is defined by ranks, that it returns just the elements in
the set, none twice and no fewer, follows from the cardinalities of finite sets (`Ranks`, `PickedIsSome`), and two
filters of one list by facts about sets.  `SiteInv`, `ShapeInv` and `WorkInv` say what a list can show, which phase belongs to which
adapter, and type the rest; that an answer breaks off, goes on or ends the list (`BreaksOff`, `GoesOn`, `Ends`), and for which cause, is
one lemma over all verdicts.  Three arguments stand on them, none of which needs another:
`CauseInv`, a cause that a receipt was given for stays, because what a list loses is counted in `withdrawn` (`PartialNeedsCause`);
`AcceptInv`, as long as the site stands still the pages read are disjoint parts of the list, hence nothing is read twice, the groups
read and to be read are distinct and a receipt counts its lots (`ResultIsAccepted`);
`AuthorityInv`, as long as nothing is withdrawn, what was listed throughout and stands on a page already read has been
read, since publishing moves it only towards pages still to come (`SeenInv`), is reported (`CompleteInv`), and its auction
is found, in the queue or being read (`NoneForgotten`).  The last is why a scan without errors may close auctions it does not
name.  Each holds under the conditions its property names (`Still`, `Watched`), which can only be lost.

**ProfileStoreProofs.**  The heart is `FreshInv`: as long as its id was not used again, what a client has
read still stands or the row has a higher revision.  So a write whose revision fits replaces the very
row that was read (`ReplacesWhatWasRead`), which gives `UpdatesKept`, and, since a change of mode carries the
`enabled` it read, also `PauseSurvives`.  `BirthInv` says that the only system profile is the seeded one and that it is
there since the first start; with it no edit passes the guard of a protected profile (`ProtectedStays`).
`ReqInv` types what a request has read.

**NotificationProofs.**  Of `Announcements`: between two runs the picture agrees with the last snapshot, and between a run and its plan with
the one before (`previous`), outside `unsaid`; a plan mails every difference or notes that it was kept back or cut.  `WordInv` says
that the terms of a snapshot stand as the profile wrote them at the run it comes from, so that without a rewording two lists that differ
differ in their terms (`FactsDiffer`), which is what makes a mail news.  A
match without a term would look like no match changed, so that a match has a term is part of the type; that
needs `Positive(p) # {}`, which `validate_profile_rules` guarantees.  The prover cannot type the folded sum in `Score`;
the set of matches is therefore made of what searches say of contents, not of numbers.
Of the matcher itself: `MatchNeedsTerm`, neither boosts nor a low minimum match anything alone; `StricterGainsNothing`, an edit
that leaves the wanted terms as they are written and only excludes more, pays less or refuses unknown prices gains no match, and
keeps score and terms of those it leaves, so that no such edit makes the planner speak of a change of what stays.

Of `Delivery`, `HoldInv` says that the mail of the claimed attempt has not been counted before it is
sent, `FaultFreeInv` that without faults a mailed notification is marked or about to be.  The
refinement maps every action to one of `BoundedDelivery`: `Boot` and `MarkFailed` to `Reopen`,
`SendFailsLate` to `Mail`, moves of the thread to stutters.

**SubmissionProofs.**  The calendar comes first.  On a plain day the clock keeps one offset (`OneOffset`), so the slot that
`due_profiles` finds is the one `_slot_stamp` writes into the key (`SlotIsLatest`) and the instant at which the
clock last showed it (`SlotWasShown`).  Then the reads of a pass are tied together: `RowInv` says that the scheduler's key
tells whose row it is and that no row is ahead of the clock, `RunningInv` that only the running thread has a running row,
hence no run ends during a pass and what was due when the pass read it is due when its turn comes (`DueInv`).  `PassInv` says that a
listed profile is attended to or among the due, and that only a deleted profile ends a pass before the due are none, from which `SlotAttended` follows at the end of the pass.  `AnswerInv`
gives an answered request a row of its key; a key has one live row, so two answers under it are one job.

**Proved, without a run of its own.**  The type invariants of the modules above; `LeaseLeakNeedsFault` of `RunWorker`, which
`LeaseHasEngine` checks for several processes; `SettledStaysSettled` of `RunLease`; `LeaseNeverRefused` and `LockIsOpen` of
`ClaimTransactions`.  A proof covers every instance that a run could have.

**Only model-checked.**  `EveryJobSettles`, `EveryNotificationEnds` and `GoneIsRetired`, and the violation of `PendingIsServed`: they are
liveness, which the prover does not reach.  Every other property of the runs is a theorem.  No theorem is by induction over data: where one number
is the least or the last of its kind (the clock's last slot, the last row of a page), the proof takes
the least counterexample in the natural numbers instead, and where things are counted it uses the cardinality of finite sets.

## 6. Where the program and its documents differ

One of these is a run that TLC ends with a counterexample: in `DeliveryThreadDies` `mark_failed` raises for a row
deleted with its profile, inside an `except` clause, and the only worker thread ends (`worker.py:141`).

Others follow from the models; the property named, if any, excepts them:

- A group of Bavastro whose detail or lots cannot be had gives a receipt without a group, and the engine rejects the
  whole source (`sources/bavastro.py:199`); the comment at `runner.py:512` calls that wrong.  `ResultIsAccepted`.
- The same happens to an auction of Bavastro with more lots than the pages it reads (`sources/bavastro.py:91`).  `ResultIsAccepted`.
- Prado raises for an absurd number of pages inside a `try` that swallows its own exception (`sources/prado.py:65`), and reads on with an
  older total, or none; TodoRemates fails, as `tests/sources/test_sources.py:1134` expects.  If the catalogue has grown
  meanwhile, the scan ends early and complete.  `CatalogueScan.AuthorityIsTrue`.
- A decision of a user is refused at once, without waiting for `busy_timeout`, when the worker holds the lock or
  has committed since the decision read its row, because that transaction reads before it writes
  (`persistence/operational_repository.py:722`); `persistence/database.py:41` says that such actions wait their turn.
  `RefusedAtOnce` of `ClaimTransactions`.
- A crash between `update_run` and `record_snapshot` leaves a completed run without a snapshot, and its slot counts
  as covered (`runner.py:318`; `async_ops.py:202` speaks of runs with a publishable snapshot).
- `claim_next` asks for `BEGIN IMMEDIATE` after its transaction has begun (`async_ops.py:144`, and `claim_due` at 298).  Its write can
  be refused, nothing catches that, and the worker thread ends; the request falls to the next transaction of the
  connection, if only a reader.
- A scan longer than five minutes loses its lease while it runs, and a process started beside it runs its job again
  (`runner.py:40`, `async_ops.py:135`).  `OverlapNeedsCause`.
- A job that finds the lease busy spends an attempt on it, so that three short waits fail a job that never
  ran (`worker.py:82`).
- A run that published and then fails in the planner on its last attempt ends failed, its snapshot the
  latest (`worker.py:88`); `docs/ARCHITECTURE.md:69` says that failed runs do not replace the last snapshot.
- A crash between `queue.finish` and the planner loses the notification for good (`worker.py:59`).  `PolicyFollowed`.
- A crash during the last attempt leaves a pending row that nobody may claim (`async_ops.py:303`).  `EveryNotificationEnds`.
- A run that removed a lot, saw it again and is retried cannot remove it a second time
  (`persistence/operational_repository.py:457`; `tests/persistence/test_operational_persistence.py:97` expects it).  `AuthorityIsExact`.
- An interrupted run whose lease expired is closed by the next run that takes the lease
  (`runner.py:137`), and its own retry then only reads that it failed; `docs/ARCHITECTURE.md:74` says that the worker
  resumes abandoned jobs.
- The slots of `due_profiles` are those of the day of the pass: after midnight the rest of the grace of a late slot is
  lost, and around a change of clock a slot can be skipped or come twice (`runner.py:79`; `docs/SEARCH_GUIDE.md:86` promises
  fifteen minutes).  `SlotAttended`.
- Where the clock goes forward over midnight by more than lies between two schedule times, `due_profiles` takes the latest instant
  (`runner.py:84`) and `_slot_stamp` the latest wall time (`scheduler.py:25`) of that day, which are two slots: what one was covered by does
  not stop the other.  `PlainDay` excludes such days, in `SlotAttended` and `CoveredNotRepeated`.
- A profile that is deleted between the listing and its turn makes `enqueue` raise and ends the pass for the due profiles after it
  (`scheduler.py:43`, `worker.py:179`): they get their slot from a later pass, if one comes within the grace
  (`docs/SEARCH_GUIDE.md:86`).  `SlotAttended` excepts those a pass leaves over and says that there are none without such a deletion.
- A page that shows no decision sends no version, and overwrites what another has decided meanwhile
  (`persistence/operational_repository.py:739`; `docs/PERSISTENCE.md:120` says conflicts are reported).  `NoLostUpdate`.
- The revisions of an id that is deleted and created again begin anew, so that a page of the old profile can write
  over the new one.  `NoLostUpdate`, `PauseKept`.
- The upgrade of the seeded profile keeps `enabled` and resets the notification mode and the schedule the user chose
  (`persistence/repository.py:365`).
- What leaves in a partial run is not announced, and the complete run after it compares with the partial one, so
  it never is (`notifications/service.py:88`).  `PictureIsCurrent`.
- A mail shows 25 lots, those that left the search last, and four terms of each (`notifications/rendering.py:22`, `78`, `353`), and counts
  the rest, while the planner compares with the newer snapshot as if all had been told: what was cut is not told by a later
  mail, until it changes again.  For the lots the comment at `rendering.py:20` says so, they wait in the application.  `PictureIsCurrent` excepts them
  and speaks of the terms shown.
- The matched terms are compared as lists in the profile's own spelling (`core/matching.py:68`, `notifications/service.py:84`), so
  that an edit that only reorders or respells keywords mails every lot with such terms again;
  `docs/PERSISTENCE.md:76` speaks of materially changed matches.  `NoNewsTwice` excepts plans between whose runs the profile was reworded.
- A removed match alone makes the planner write a mail (`notifications/service.py:88`);
  `docs/PERSISTENCE.md:76` names only new and materially changed ones.
- Catalogues are read by page number: a removal between two pages moves a lot to a page already read, and a complete
  receipt lacks it.  A record that is no object cannot be told from a short page.  The feed of Remotes drops a
  malformed lot under a complete receipt where it declares no count (`sources/remotes.py:382`).  `CatalogueScan.AuthorityIsTrue`.
- Prado looks for the id of a group anywhere in the text of its errors, so that the error of group 12 makes group 1
  partial (`sources/prado.py:155`).  `CatalogueScan.PartialNeedsCause`.
- The decoder of Castells takes a page for that of a closed auction if it has a meta envelope that does not say `hasMore` and no list under
  `data` or `rows` (`sources/castells.py:583`, `321`), before it looks for lists under other keys.  A page with
  its lots under another key beside such a meta is read as empty and complete, also when two lists compete, and its lots are
  removed; `docs/SEARCH_GUIDE.md:54-59` says that a unique list is recovered and anything doubtful is partial.  `CastellsScan.AuthorityIsTrue` excepts
  the groups of such pages (`veiled`).
- A Castells group that comes back empty is reconciled as such (`runner.py:439`, on
  purpose, as its docstring explains); `docs/CONTRACTS.md:62-64` still says it is quarantined.
- `retire_stale_lots` also removes lots of sources that failed or were partial, after 48 hours;
  `docs/ARCHITECTURE.md:68` says that those preserve their inventory.

## 7. What is not modelled

- *Several processes* outside `RunLease` and `ClaimTransactions`: the other models assume the deployment of
  `main.create_app`, one process with one worker thread.  What two overlapping runs do to the inventory is not modelled.
- *The composition* of the two queues in one thread, and of `RunWorker` with `Reconciliation`.  Each
  model lets the other part do anything it could: `Execute` and `RecordSnapshot` choose freely,
  `Delivery.Enqueue` comes at any time.
- *Text*: normalisation of terms, parsing of prices, dates and links, the wording and layout of mails (which lots and terms they
  show is in `Announcements`, that rendering can raise in `CallRaises`).  The models see which terms occur and whether a record is sound.
- *Page filters*: `mark_profile_reviewed` (the later of two calls need not carry the later time), ignored
  auctions, the sighting counter `seen_count` (a retry may count one sighting twice), and the reading handlers.
- *The test mail*, which is one more `enqueue`.
- *Pure input and output*: static files, settings, packaging, scripts, the request filter, migrations (they end before
  the worker starts), and the web client.
- *SQLite*: outside `ClaimTransactions` a `with sessions.begin()` block is one step, which either happens or raises; that
  each write follows from a current snapshot is what `ClaimTransactions` shows for the queue and the lease.  Durability
  is taken for granted.

## 8. Plan

1. The scheduler, `RunWorker` and `Delivery` in one thread, from a due slot to a mail, with `RunWorker`'s `Execute` replaced by
   `Reconciliation`.
2. The web client's polling and stale responses.
