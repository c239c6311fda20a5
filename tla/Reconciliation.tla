--------------------------- MODULE Reconciliation ---------------------------
(***************************************************************************)
(* What a run does to the inventory: runner._execute between _scan_source  *)
(* and record_snapshot, and the repository methods it calls.  Sources are  *)
(* persisted one after the other and every row is keyed by its source, so  *)
(* the module follows one source and one profile.                          *)
(*                                                                         *)
(* Runs follow each other (one worker thread); a run that is interrupted   *)
(* can be retried under the same id, also after other runs have come in    *)
(* between.  Each action after the scan is one committed transaction.      *)
(*                                                                         *)
(* Run ids are recycled: when a run is settled its id is erased from what  *)
(* the database remembers, so that it is fresh for the next run.           *)
(***************************************************************************)
EXTENDS Integers, FiniteSets

CONSTANTS
  Groups,           \* auction groups of the source
  Lots,             \* lots that ever exist
  GroupOf,          \* the group of each lot
  Volatile,         \* a source like Castells: its omissions prove nothing
  QuarantineMin,    \* 8 in _stabilize_inventory
  QuarantineRatio,  \* 4 in _stabilize_inventory
  Wanted,           \* the lots some revision of the profile can match
  Runs,             \* ids: how many runs can be open at a time
  NoRun, NoGroup,
  MaxInterrupts     \* bound: how often an attempt is cut short

ASSUME GroupAssumption == GroupOf \in [Lots -> Groups]
ASSUME NullAssumption == NoRun \notin Runs /\ NoGroup \notin Groups
ASSUME BoundAssumption ==
  /\ Volatile \in BOOLEAN /\ MaxInterrupts \in Nat
  /\ QuarantineMin \in Nat /\ QuarantineRatio \in Nat

VARIABLES
  live,         \* the lots the site publishes (the world)
  \* the database
  active,       \* opportunities.active
  aged,         \* opportunities.last_seen_at is older than STALE_LOT_TTL
  lastAbsence,  \* opportunities.last_absence_run_id
  receipts,     \* the groups with a coverage_receipts row of a run
  matched,      \* profile_matches.active
  pending,      \* runs that were interrupted and are still open
  \* the run in progress
  run,          \* its id, or NoRun
  retried,      \* it is not the first attempt
  pc,           \* where _execute stands
  scan,         \* SourceScanResult, after the contract and the quarantine
  todo,         \* receipts not yet persisted
  group,        \* the group whose receipt was just persisted, or NoGroup
  expected,     \* expected: what the profile matches in the active inventory
  toRecord,     \* members of expected not yet recorded
  \* bound
  interrupts

worldVars == <<live, aged>>
lotVars   == <<active, lastAbsence>>
runVars   == <<run, retried>>
workVars  == <<todo, group, expected, toRecord>>
vars == <<worldVars, lotVars, receipts, matched, pending, runVars, pc, scan, workVars, interrupts>>

LotsOf(g) == {l \in Lots : GroupOf[l] = g}

-----------------------------------------------------------------------------
(* The scan.  A definition named like another one and standing before it is a *)
(* seeded fault: no action uses it.                                           *)

Coverage == {"none", "failed", "partial", "authoritative"}

\* A SourceScanResult: per group no receipt, or one that is failed, partial (or
\* complete without authority, which nothing tells apart), or complete and
\* authoritative; the lots; the discovery status; inventory_authoritative.  An
\* adapter that reports errors never reports a complete discovery, and a complete
\* one that claims no authority counts as partial here.
Results ==
  [receipt : [Groups -> Coverage], lots : SUBSET Lots,
   discovery : {"complete", "partial", "failed"}, authority : BOOLEAN]

FailedScan ==
  [receipt |-> [g \in Groups |-> "none"], lots |-> {},
   discovery |-> "failed", authority |-> FALSE]

Listed(s, g) == s.lots \intersect LotsOf(g)
Receipted(s) == {g \in Groups : s.receipt[g] # "none"}

\* A claim of authority the rest of the result does not contradict.
Coherent(s) ==
  s.authority =>
    /\ s.discovery = "complete"
    /\ \A g \in Groups : s.receipt[g] # "partial"

\* _source_contract_error: well formed (no duplicates, nothing foreign, one
\* receipt for each group with its count of lots) and no unfounded authority.
ContractFormOnly(s, wellFormed) == wellFormed
ContractCoherenceOnly(s, wellFormed) == Coherent(s)
ContractHolds(s, wellFormed) == wellFormed /\ Coherent(s)

\* What an adapter proves with a result it does not contradict: the lots of an
\* authoritative group are all there, and so are the groups of an authoritative
\* source.  A volatile page proves neither.
Truthful(s) ==
  /\ \A g \in Groups :
       s.receipt[g] = "authoritative" => live \intersect LotsOf(g) \subseteq s.lots
  /\ s.authority => \A l \in live : s.receipt[GroupOf[l]] # "none"

\* What source.scan can return while the site publishes `live'.
Reports(s, wellFormed) ==
  /\ s.lots \subseteq live
  /\ \A l \in s.lots : s.receipt[GroupOf[l]] \in {"partial", "authoritative"}
  /\ s.discovery = "failed" => s = FailedScan
  /\ s.discovery = "complete" => s.authority
  /\ wellFormed /\ Coherent(s) /\ ~Volatile => Truthful(s)

\* suspicious_drop
SuspiciousNever(s, g) == FALSE
Suspicious(s, g) ==
  LET prior == active \intersect LotsOf(g) IN
  /\ Listed(s, g) # {}
  /\ Cardinality(prior) >= QuarantineMin
  /\ Cardinality(Listed(s, g)) * QuarantineRatio < Cardinality(prior)

\* _stabilize_inventory; model_copy does not validate what it puts in.
Stabilized(s) ==
  LET dropped == {g \in Groups : s.receipt[g] = "authoritative" /\ Suspicious(s, g)} IN
  IF ~Volatile \/ dropped = {} THEN s
  ELSE [receipt |-> [g \in Groups |-> IF g \in dropped THEN "partial" ELSE s.receipt[g]],
        lots |-> s.lots, discovery |-> "partial", authority |-> FALSE]

-----------------------------------------------------------------------------
(* The lifecycle of a lot *)

\* The rows of ls that _remove_lifecycle changes for the current run.
RemovableUnchecked(ls) == ls \intersect active
Removable(ls) == {l \in ls \intersect active : lastAbsence[l] # run}

\* The lots a group's authoritative receipt leaves out.
AbsentWhenPartial(g) ==
  IF scan.receipt[g] # "failed" THEN LotsOf(g) \ scan.lots ELSE {}
Absent(g) ==
  IF scan.receipt[g] = "authoritative" THEN LotsOf(g) \ scan.lots ELSE {}

\* The lots of groups without a receipt, when the source has authority over them.
OmittedNever == {}
OmittedAlways == {l \in Lots : GroupOf[l] \notin receipts[run]}
Omitted ==
  IF ~Volatile /\ scan.discovery = "complete" /\ scan.authority
    THEN {l \in Lots : GroupOf[l] \notin receipts[run]} ELSE {}

\* last_seen_at < cutoff
StaleNever == {}
Stale == active \intersect aged

\* deactivate_missing_matches
MissingInactive == matched \ active
Missing == matched \ expected

-----------------------------------------------------------------------------
Init ==
  /\ live = {} /\ aged = {}
  /\ active = {} /\ matched = {}
  /\ lastAbsence = [l \in Lots |-> NoRun]
  /\ receipts = [r \in Runs |-> {}]
  /\ pending = {}
  /\ run = NoRun /\ retried = FALSE /\ pc = "idle"
  /\ scan = FailedScan
  /\ todo = {} /\ group = NoGroup /\ expected = {} /\ toRecord = {}
  /\ interrupts = 0

\* The site publishes a lot or withdraws it.  A run looks at the site only once,
\* in Scan, so changes during a run are as good as changes before the next one.
SiteChanges(l) ==
  /\ pc = "idle"
  /\ live' = IF l \in live THEN live \ {l} ELSE live \union {l}
  /\ UNCHANGED <<aged, lotVars, receipts, matched, pending, runVars, pc, scan, workVars, interrupts>>

\* Forty-eight hours without a confirmation are over.  Only RetireStale, the first
\* step of an attempt, asks for it.
Ages(l) ==
  /\ pc = "idle"
  /\ l \in active \ aged
  /\ aged' = aged \union {l}
  /\ UNCHANGED <<live, lotVars, receipts, matched, pending, runVars, pc, scan, workVars, interrupts>>

\* A run with a new id reaches _execute.
BeginRun(r) ==
  /\ pc = "idle" /\ r \notin pending
  /\ run' = r /\ retried' = FALSE /\ pc' = "retire"
  /\ UNCHANGED <<worldVars, lotVars, receipts, matched, pending, scan, workVars, interrupts>>

\* An interrupted run reaches _execute again, under its id.
Retry(r) ==
  /\ pc = "idle" /\ r \in pending
  /\ run' = r /\ retried' = TRUE /\ pc' = "retire"
  /\ pending' = pending \ {r}
  /\ UNCHANGED <<worldVars, lotVars, receipts, matched, scan, workVars, interrupts>>

\* Run r is settled and its id never comes back.
Forget(r) ==
  /\ receipts' = [receipts EXCEPT ![r] = {}]
  /\ lastAbsence' = [l \in Lots |-> IF lastAbsence[l] = r THEN NoRun ELSE lastAbsence[l]]

\* An interrupted run is settled by someone else (retries used up, lease taken
\* over, an exception that closed it) and never comes back.
Abandon(r) ==
  /\ pc = "idle" /\ r \in pending
  /\ pending' = pending \ {r}
  /\ Forget(r)
  /\ UNCHANGED <<worldVars, active, matched, runVars, pc, scan, workVars, interrupts>>

\* The attempt is over: its locals go out of scope.
Leave ==
  /\ pc' = "idle" /\ run' = NoRun /\ retried' = FALSE
  /\ scan' = FailedScan
  /\ todo' = {} /\ group' = NoGroup /\ expected' = {} /\ toRecord' = {}

\* The process dies or a call raises, between two transactions.
Interrupt ==
  /\ pc # "idle"
  /\ interrupts < MaxInterrupts
  /\ interrupts' = interrupts + 1
  /\ pending' = pending \union {run}
  /\ Leave
  /\ UNCHANGED <<worldVars, lotVars, receipts, matched>>

Remove(ls) ==
  /\ active' = active \ Removable(ls)
  /\ lastAbsence' = [l \in Lots |-> IF l \in Removable(ls) THEN run ELSE lastAbsence[l]]

-----------------------------------------------------------------------------
(* runner._execute *)

\* retire_stale_lots
RetireStale ==
  /\ pc = "retire"
  /\ Remove(Stale)
  /\ pc' = "scan"
  /\ UNCHANGED <<worldVars, receipts, matched, pending, runVars, scan, workVars, interrupts>>

\* _scan_source, _source_contract_error and _stabilize_inventory, then the source
\* and its run row are written, which only this attempt reads again.
Scan ==
  /\ pc = "scan"
  /\ \E s \in Results, wellFormed \in BOOLEAN :
       /\ Reports(s, wellFormed)
       /\ LET kept == Stabilized(IF ContractHolds(s, wellFormed) THEN s ELSE FailedScan)
          IN scan' = kept /\ todo' = Receipted(kept)
  /\ pc' = "groups"
  /\ UNCHANGED <<worldVars, lotVars, receipts, matched, pending, runVars,
                 group, expected, toRecord, interrupts>>

\* record_receipt
RecordReceipt ==
  /\ pc = "groups"
  /\ \E g \in todo :
       /\ receipts' = [receipts EXCEPT ![run] = @ \union {g}]
       /\ todo' = todo \ {g}
       /\ group' = g
  /\ pc' = "reconcile"
  /\ UNCHANGED <<worldVars, lotVars, matched, pending, runVars, scan,
                 expected, toRecord, interrupts>>

\* reconcile_group: what is listed is touched, what an authoritative receipt
\* leaves out is removed.
ReconcileGroup ==
  /\ pc = "reconcile"
  /\ LET seen == Listed(scan, group)
         gone == Removable(Absent(group))
     IN /\ active' = (active \union seen) \ gone
        /\ lastAbsence' = [l \in Lots |-> IF l \in gone THEN run ELSE lastAbsence[l]]
        /\ aged' = aged \ seen
  /\ pc' = "groups" /\ group' = NoGroup
  /\ UNCHANGED <<live, receipts, matched, pending, runVars, scan,
                 todo, expected, toRecord, interrupts>>

\* reconcile_omitted_groups, when omission_authoritative is not False
ReconcileOmitted ==
  /\ pc = "groups" /\ todo = {}
  /\ Remove(Omitted)
  /\ pc' = "match"
  /\ UNCHANGED <<worldVars, receipts, matched, pending, runVars, scan, workVars, interrupts>>

\* active_lots without those that closed, and match_lot on each.
MatchLots ==
  /\ pc = "match"
  /\ \E found \in SUBSET (active \intersect Wanted) : expected' = found /\ toRecord' = found
  /\ pc' = "record"
  /\ UNCHANGED <<worldVars, lotVars, receipts, matched, pending, runVars, scan,
                 todo, group, interrupts>>

\* record_match
RecordMatch ==
  /\ pc = "record"
  /\ \E l \in toRecord : matched' = matched \union {l} /\ toRecord' = toRecord \ {l}
  /\ UNCHANGED <<worldVars, lotVars, receipts, pending, runVars, pc, scan,
                 todo, group, expected, interrupts>>

DeactivateMissing ==
  /\ pc = "record" /\ toRecord = {}
  /\ matched' = matched \ Missing
  /\ pc' = "publish"
  /\ UNCHANGED <<worldVars, lotVars, receipts, pending, runVars, scan, workVars, interrupts>>

\* The run is settled and, unless the source failed, its snapshot recorded.
Publish ==
  /\ pc = "publish"
  /\ Forget(run)
  /\ Leave
  /\ UNCHANGED <<worldVars, active, matched, pending, interrupts>>

Execute ==
  \/ RetireStale \/ Scan \/ RecordReceipt \/ ReconcileGroup \/ ReconcileOmitted
  \/ MatchLots \/ RecordMatch \/ DeactivateMissing \/ Publish

Start == \E r \in Runs : BeginRun(r) \/ Retry(r)

Next ==
  \/ Execute \/ Start \/ Interrupt
  \/ \E r \in Runs : Abandon(r)
  \/ \E l \in Lots : SiteChanges(l) \/ Ages(l)

Spec == Init /\ [][Next]_vars

\* A run takes its next step, the schedule brings the next run, and the clock
\* goes on: strongly fair, because it does so during runs too and Ages is only
\* held back to the time between them.  Nothing obliges the site to change, an
\* attempt to fail or to be retried.
Fairness ==
  /\ WF_vars(Execute)
  /\ WF_vars(Start)
  /\ \A l \in Lots : SF_vars(Ages(l))

FairSpec == Spec /\ Fairness

-----------------------------------------------------------------------------
(* Properties *)

PCs == {"idle", "retire", "scan", "groups", "reconcile", "match", "record", "publish"}

TypeOK ==
  /\ live \subseteq Lots /\ aged \subseteq Lots
  /\ active \subseteq Lots /\ matched \subseteq Lots
  /\ lastAbsence \in [Lots -> Runs \union {NoRun}]
  /\ receipts \in [Runs -> SUBSET Groups]
  /\ pending \subseteq Runs
  /\ run \in (IF pc = "idle" THEN {NoRun} ELSE Runs) /\ retried \in BOOLEAN
  /\ pc \in PCs
  /\ scan \in Results
  /\ todo \subseteq Groups
  /\ group \in (IF pc = "reconcile" THEN Groups ELSE {NoGroup})
  /\ expected \subseteq Lots /\ toRecord \subseteq Lots
  /\ interrupts \in 0..MaxInterrupts

\* Inventory is removed only on evidence: a lot of a source that is not volatile
\* leaves it only when the site had withdrawn it at the time of the scan, or when
\* nobody could confirm it for the whole TTL.  Receipts of earlier attempts,
\* failed groups and rejected results never add up to a removal.
RemovedWasGone ==
  [][~Volatile =>
       \A l \in active \ active' : l \notin live \/ (pc = "retire" /\ l \in aged)]_vars

\* A first attempt whose source had authority ends with exactly the lots the site
\* publishes, except in groups whose own scan failed.
AuthorityIsExact ==
  pc \in {"match", "record", "publish"} /\ ~retried /\ ~Volatile /\ scan.authority =>
    \A l \in Lots : scan.receipt[GroupOf[l]] # "failed" => (l \in active <=> l \in live)

\* What a snapshot lists is the outcome of this attempt alone: matches left over
\* from an interrupted attempt, or of a lot that was removed meanwhile, are gone
\* from profile_matches before active_matches is read.
SnapshotIsCurrent ==
  pc = "publish" => matched = expected /\ matched \subseteq active

\* The quarantine: a page of a volatile source that shows a small remainder of a
\* large group removes nothing of it, however often the run is retried and
\* whatever was reconciled between the test of the quarantine and the removal.
NoImplausibleDrop ==
  [][Volatile /\ pc = "reconcile" =>
       LET before == active \intersect LotsOf(group)
           shown  == Listed(scan, group)
       IN /\ shown # {}
          /\ Cardinality(before) >= QuarantineMin
          /\ Cardinality(shown) * QuarantineRatio < Cardinality(before)
          => before \subseteq active']_vars

\* A lot that is gone for good is not presented as available for ever: neither a
\* source that fails, nor an omission that proves nothing, nor the quarantine,
\* whose baseline is the retained inventory itself, keeps it active.
GoneIsRetired ==
  \A l \in Lots : <>[](l \notin live) => <>[](l \notin active)

=============================================================================
