----------------------- MODULE ReconciliationProofs -----------------------
(* The two ends of the evidence a removal rests on.  Reconciliation, for every *)
(* set of groups, lots and runs, every threshold of the quarantine and any     *)
(* number of interruptions; and the scan of Castells, whose receipts it acts   *)
(* on, for every number of auctions, lots, threads, pages and requests.        *)
EXTENDS Reconciliation, CastellsScan, TLAPS, FiniteSetTheorems, WellFoundedInduction

-----------------------------------------------------------------------------
(* Types *)

LEMMA FailedScanType == FailedScan \in Results
  BY DEF FailedScan, Results, Coverage

LEMMA StabilizedType ==
  ASSUME NEW s \in Results PROVE Stabilized(s) \in Results
  BY DEF Stabilized, Results, Coverage

LEMMA ReceiptedType ==
  ASSUME NEW s PROVE Receipted(s) \subseteq Groups
  BY DEF Receipted

LEMMA InitTypeOK == Init => TypeOK
<1> SUFFICES ASSUME Init PROVE TypeOK
  OBVIOUS
<1>1. interrupts \in 0..MaxInterrupts
  BY BoundAssumption DEF Init
<1>2. lastAbsence \in [Lots -> Runs \union {NoRun}] /\ receipts \in [Runs -> SUBSET Groups]
  BY DEF Init
<1>3. scan \in Results
  BY FailedScanType DEF Init
<1> QED BY <1>1, <1>2, <1>3 DEF Init, TypeOK, PCs

\* Every action keeps every variable within its type.
LEMMA NextTypeOK == TypeOK /\ [Next]_vars => TypeOK'
<1> SUFFICES ASSUME TypeOK, [Next]_vars PROVE TypeOK'
  OBVIOUS
<1> USE NullAssumption, BoundAssumption, FailedScanType
    DEF worldVars, lotVars, runVars, workVars, PCs
<1>1. CASE RetireStale  BY <1>1 DEF TypeOK, RetireStale, Remove
<1>2. CASE Scan
  <2>1. PICK s \in Results, wellFormed \in BOOLEAN :
          LET kept == Stabilized(IF ContractHolds(s, wellFormed) THEN s ELSE FailedScan)
          IN scan' = kept /\ todo' = Receipted(kept)
    BY <1>2 DEF Scan
  <2>2. scan' \in Results /\ todo' \subseteq Groups
    BY <2>1, StabilizedType, ReceiptedType
  <2> QED BY <1>2, <2>2 DEF TypeOK, Scan
<1>3. CASE RecordReceipt  BY <1>3 DEF TypeOK, RecordReceipt
<1>4. CASE ReconcileGroup  BY <1>4 DEF TypeOK, ReconcileGroup, Listed, LotsOf
<1>5. CASE ReconcileOmitted  BY <1>5 DEF TypeOK, ReconcileOmitted, Remove
<1>6. CASE MatchLots  BY <1>6 DEF TypeOK, MatchLots
<1>7. CASE RecordMatch  BY <1>7 DEF TypeOK, RecordMatch
<1>8. CASE DeactivateMissing  BY <1>8 DEF TypeOK, DeactivateMissing
<1>9. CASE Publish  BY <1>9 DEF TypeOK, Publish, Forget, Leave
<1>10. ASSUME NEW r \in Runs, BeginRun(r) \/ Retry(r) PROVE TypeOK'
  BY <1>10 DEF TypeOK, BeginRun, Retry
<1>11. CASE Interrupt
  <2>1. interrupts' \in 0..MaxInterrupts
    BY <1>11 DEF TypeOK, Interrupt
  <2> QED BY <1>11, <2>1 DEF TypeOK, Interrupt, Leave
<1>12. ASSUME NEW r \in Runs, Abandon(r) PROVE TypeOK'
  BY <1>12 DEF TypeOK, Abandon, Forget
<1>13. ASSUME NEW l \in Lots, SiteChanges(l) \/ Ages(l) PROVE TypeOK'
  BY <1>13 DEF TypeOK, SiteChanges, Ages
<1>14. CASE UNCHANGED vars  BY <1>14 DEF TypeOK, vars
<1> QED
  BY <1>1, <1>2, <1>3, <1>4, <1>5, <1>6, <1>7, <1>8, <1>9, <1>10, <1>11, <1>12, <1>13, <1>14
     DEF Next, Execute, Start

\* The database and the run in progress never hold a value outside its type; the
\* copy _stabilize_inventory makes, which is not validated, included.
THEOREM TypeCorrect == Spec => []TypeOK
  BY InitTypeOK, NextTypeOK, PTL DEF Spec

-----------------------------------------------------------------------------
(* The inductive invariant *)

\* An id that is not in use has left no trace in the database.
FreshInv ==
  /\ run \notin pending
  /\ \A r \in Runs : r \notin pending /\ r # run =>
       receipts[r] = {} /\ \A l \in Lots : lastAbsence[l] # r

\* The scan that is kept holds no more than the site published, and says of
\* itself only what it can prove.  Outside a run it is FailedScan, which says
\* nothing; the site changes only there.
ScanInv ==
  /\ pc \in {"idle", "retire", "scan"} => scan = FailedScan
  /\ scan.lots \subseteq live
  /\ \A l \in scan.lots : scan.receipt[GroupOf[l]] \in {"partial", "authoritative"}
  /\ Coherent(scan)
  /\ ~Volatile => Truthful(scan)

\* Every receipt of the scan is persisted or still to do.
ReceiptInv ==
  /\ pc \in {"idle", "retire", "scan"} => todo = {}
  /\ pc \in {"match", "record", "publish"} => todo = {}
  /\ todo \subseteq Receipted(scan)
  /\ run \in Runs => Receipted(scan) \subseteq receipts[run] \union todo
  /\ pc = "reconcile" => group \in receipts[run] \ todo /\ group \in Receipted(scan)

\* In a first attempt only what the scan lists can have been removed and be
\* active again, and a receipt is one of this scan, not of an earlier one.
FirstInv ==
  run \in Runs /\ ~retried =>
    /\ receipts[run] \subseteq Receipted(scan)
    /\ \A l \in active : lastAbsence[l] = run => l \in scan.lots
    /\ pc \in {"retire", "scan"} => receipts[run] = {}

\* A group that a first attempt has reconciled with authority is what the scan
\* lists of it.
ExactInv ==
  run \in Runs /\ ~retried =>
    \A g \in receipts[run] :
      (g # group /\ g \notin todo /\ scan.receipt[g] = "authoritative") =>
        active \intersect LotsOf(g) = Listed(scan, g)

\* A group still to be reconciled is not a suspicious drop.
QuarantineInv ==
  Volatile => \A g \in Groups :
    (g \in todo \/ g = group) /\ scan.receipt[g] = "authoritative" => ~Suspicious(scan, g)

\* What is expected and not to be recorded any more is recorded.
MatchInv ==
  /\ pc = "record" => /\ expected \subseteq active
                      /\ toRecord \subseteq expected
                      /\ expected \ toRecord \subseteq matched
  /\ SnapshotIsCurrent

IInv ==
  /\ TypeOK /\ FreshInv /\ ScanInv /\ ReceiptInv /\ FirstInv /\ ExactInv
  /\ QuarantineInv /\ MatchInv /\ AuthorityIsExact

LEMMA FailedScanFacts ==
  /\ FailedScan.lots = {} /\ ~FailedScan.authority
  /\ Receipted(FailedScan) = {} /\ Coherent(FailedScan) /\ Truthful(FailedScan)
  /\ \A g \in Groups : FailedScan.receipt[g] = "none"
  BY DEF FailedScan, Receipted, Coherent, Truthful

\* The quarantine weakens a result and drops nothing of it.
LEMMA StabilizedFacts ==
  ASSUME NEW s \in Results
  PROVE  /\ Stabilized(s).lots = s.lots
         /\ Receipted(Stabilized(s)) = Receipted(s)
         /\ Stabilized(s).authority => Stabilized(s) = s
         /\ ~Volatile => Stabilized(s) = s
         /\ \A g \in Groups :
              /\ s.receipt[g] \in {"partial", "authoritative"} =>
                   Stabilized(s).receipt[g] \in {"partial", "authoritative"}
              /\ Volatile /\ Stabilized(s).receipt[g] = "authoritative" =>
                   ~Suspicious(Stabilized(s), g)
<1> DEFINE dropped == {g \in Groups : s.receipt[g] = "authoritative" /\ Suspicious(s, g)}
           weaker == [receipt |-> [g \in Groups |-> IF g \in dropped THEN "partial" ELSE s.receipt[g]],
                      lots |-> s.lots, discovery |-> "partial", authority |-> FALSE]
<1>1. CASE ~Volatile \/ dropped = {}
  <2>1. Stabilized(s) = s
    BY <1>1 DEF Stabilized
  <2>2. Volatile => \A g \in Groups : s.receipt[g] = "authoritative" => ~Suspicious(s, g)
    BY <1>1
  <2> QED BY <2>1, <2>2
<1>2. CASE Volatile /\ dropped # {}
  <2>1. Stabilized(s) = weaker
    BY <1>2 DEF Stabilized
  <2>2. weaker.lots = s.lots /\ ~weaker.authority
    OBVIOUS
  <2>3. \A g \in Groups : weaker.receipt[g] = IF g \in dropped THEN "partial" ELSE s.receipt[g]
    OBVIOUS
  <2>4. Receipted(weaker) = Receipted(s)
    BY <2>3 DEF Receipted
  <2>5. \A g \in Groups : Suspicious(weaker, g) = Suspicious(s, g)
    BY <2>2 DEF Suspicious, Listed
  <2>6. \A g \in Groups : weaker.receipt[g] = "authoritative" => ~Suspicious(weaker, g)
    BY <2>3, <2>5
  <2> HIDE DEF weaker, dropped
  <2>7. \A g \in Groups : s.receipt[g] \in {"partial", "authoritative"} =>
                          weaker.receipt[g] \in {"partial", "authoritative"}
    BY <2>3
  <2> QED BY <1>2, <2>1, <2>2, <2>4, <2>6, <2>7
<1> QED BY <1>1, <1>2

\* What the scan of a run is, and that nothing else moves with it.
LEMMA ScanStep ==
  ASSUME TypeOK, Scan
  PROVE  /\ scan'.lots \subseteq live
         /\ \A l \in scan'.lots : scan'.receipt[GroupOf[l]] \in {"partial", "authoritative"}
         /\ Coherent(scan')
         /\ ~Volatile => Truthful(scan')
         /\ \A g \in Groups :
              Volatile /\ scan'.receipt[g] = "authoritative" => ~Suspicious(scan', g)
         /\ todo' = Receipted(scan')
<1>1. PICK s \in Results, wellFormed \in BOOLEAN :
        /\ Reports(s, wellFormed)
        /\ scan' = Stabilized(IF ContractHolds(s, wellFormed) THEN s ELSE FailedScan)
        /\ todo' = Receipted(scan')
  BY DEF Scan
<1>2. CASE ContractHolds(s, wellFormed)
  <2>1. Coherent(s) /\ wellFormed
    BY <1>2 DEF ContractHolds
  <2>2. s.lots \subseteq live /\ (~Volatile => Truthful(s))
        /\ \A l \in s.lots : s.receipt[GroupOf[l]] \in {"partial", "authoritative"}
    BY <1>1, <2>1 DEF Reports
  <2>3. s.lots \subseteq Lots
    BY DEF Results
  <2>4. \A l \in s.lots : GroupOf[l] \in Groups
    BY <2>3, GroupAssumption
  <2>5. Coherent(Stabilized(s))
    BY <2>1, StabilizedFacts DEF Coherent
  <2> QED BY <1>1, <1>2, <2>2, <2>4, <2>5, StabilizedFacts
<1>3. CASE ~ContractHolds(s, wellFormed)
  <2>1. scan' = Stabilized(FailedScan)
    BY <1>1, <1>3
  <2>2. Stabilized(FailedScan) = FailedScan
    BY FailedScanFacts DEF Stabilized
  <2> QED BY <1>1, <2>1, <2>2, FailedScanFacts
<1> QED BY <1>2, <1>3

-----------------------------------------------------------------------------
(* The steps.  A conjunct of IInv is preserved by what IInv says before it.    *)

LEMMA FreshStep == TypeOK /\ FreshInv /\ [Next]_vars => FreshInv'
<1> SUFFICES ASSUME TypeOK, FreshInv, [Next]_vars PROVE FreshInv'
  OBVIOUS
<1> USE NullAssumption DEF TypeOK, FreshInv, worldVars, lotVars, runVars, workVars
<1>1. CASE RetireStale \/ ReconcileOmitted  BY <1>1 DEF RetireStale, ReconcileOmitted, Remove
<1>2. CASE Scan \/ MatchLots \/ RecordMatch \/ DeactivateMissing
  BY <1>2 DEF Scan, MatchLots, RecordMatch, DeactivateMissing
<1>3. CASE RecordReceipt  BY <1>3 DEF RecordReceipt
<1>4. CASE ReconcileGroup  BY <1>4 DEF ReconcileGroup
<1>5. CASE Publish  BY <1>5 DEF Publish, Forget, Leave
<1>6. ASSUME NEW r \in Runs, BeginRun(r) \/ Retry(r) PROVE FreshInv'
  BY <1>6 DEF BeginRun, Retry
<1>7. CASE Interrupt  BY <1>7 DEF Interrupt, Leave
<1>8. ASSUME NEW r \in Runs, Abandon(r) PROVE FreshInv'
  BY <1>8 DEF Abandon, Forget
<1>9. ASSUME NEW l \in Lots, SiteChanges(l) \/ Ages(l) PROVE FreshInv'
  BY <1>9 DEF SiteChanges, Ages
<1>10. CASE UNCHANGED vars  BY <1>10 DEF vars
<1> QED
  BY <1>1, <1>2, <1>3, <1>4, <1>5, <1>6, <1>7, <1>8, <1>9, <1>10 DEF Next, Execute, Start

LEMMA ScanInvStep == TypeOK /\ ScanInv /\ [Next]_vars => ScanInv'
<1> SUFFICES ASSUME TypeOK, ScanInv, [Next]_vars PROVE ScanInv'
  OBVIOUS
<1> USE DEF worldVars, lotVars, runVars, workVars
<1>1. CASE Scan
  <2>1. live' = live /\ pc' = "groups"
    BY <1>1 DEF Scan
  <2>2. Truthful(scan)' = Truthful(scan') /\ Coherent(scan)' = Coherent(scan')
    BY <2>1 DEF Truthful, Coherent
  <2> QED BY <1>1, <2>1, <2>2, ScanStep DEF ScanInv
<1>2. CASE Publish \/ Interrupt
  BY <1>2, FailedScanFacts DEF Publish, Interrupt, Leave, ScanInv, FailedScan, Coherent, Truthful
<1>3. ASSUME NEW l \in Lots, SiteChanges(l) PROVE ScanInv'
  <2>1. scan = FailedScan /\ scan' = FailedScan
    BY <1>3 DEF SiteChanges, ScanInv
  <2> QED BY <2>1, FailedScanFacts DEF ScanInv, FailedScan, Coherent, Truthful
<1>4. ASSUME UNCHANGED <<scan, live>>,
             pc' \in {"idle", "retire", "scan"} => pc \in {"idle", "retire", "scan"}
      PROVE  ScanInv'
  BY <1>4 DEF ScanInv, Coherent, Truthful
<1>5. RetireStale \/ RecordReceipt \/ ReconcileGroup \/ ReconcileOmitted \/ MatchLots
      \/ RecordMatch \/ DeactivateMissing
      \/ (\E r \in Runs : BeginRun(r) \/ Retry(r) \/ Abandon(r))
      \/ (\E l \in Lots : Ages(l)) \/ UNCHANGED vars => ScanInv'
  BY <1>4 DEF RetireStale, RecordReceipt, ReconcileGroup, ReconcileOmitted, MatchLots,
              RecordMatch, DeactivateMissing, BeginRun, Retry, Abandon, Ages, vars
<1> QED BY <1>1, <1>2, <1>3, <1>5 DEF Next, Execute, Start

LEMMA ReceiptStep == TypeOK /\ ScanInv /\ ReceiptInv /\ [Next]_vars => ReceiptInv'
<1> SUFFICES ASSUME TypeOK, ScanInv, ReceiptInv, [Next]_vars PROVE ReceiptInv'
  OBVIOUS
<1> USE DEF worldVars, lotVars, runVars, workVars
<1>1. CASE Scan
  <2>1. pc' = "groups" /\ UNCHANGED <<run, receipts>> /\ todo' = Receipted(scan')
    BY <1>1, ScanStep DEF Scan
  <2> QED BY <2>1 DEF ReceiptInv
<1>2. CASE RecordReceipt
  <2>1. PICK g \in todo : receipts' = [receipts EXCEPT ![run] = @ \union {g}]
                          /\ todo' = todo \ {g} /\ group' = g
    BY <1>2 DEF RecordReceipt
  <2>2. pc' = "reconcile" /\ run \in Runs /\ UNCHANGED <<scan, run>>
    BY <1>2 DEF RecordReceipt, TypeOK
  <2>3. receipts'[run] = receipts[run] \union {g}
    BY <2>1, <2>2 DEF TypeOK
  <2> QED BY <2>1, <2>2, <2>3 DEF ReceiptInv
<1>3. CASE Publish \/ Interrupt
  <2>1. pc' = "idle" /\ run' = NoRun /\ scan' = FailedScan /\ todo' = {}
    BY <1>3 DEF Publish, Interrupt, Leave
  <2> QED BY <2>1, NullAssumption DEF ReceiptInv
<1>4. ASSUME NEW r \in Runs, BeginRun(r) \/ Retry(r) PROVE ReceiptInv'
  <2>1. scan' = FailedScan /\ todo' = {} /\ pc' = "retire"
    BY <1>4 DEF BeginRun, Retry, ScanInv, ReceiptInv
  <2> QED BY <2>1, FailedScanFacts DEF ReceiptInv
<1>5. ASSUME NEW r \in Runs, Abandon(r) PROVE ReceiptInv'
  <2>1. run = NoRun /\ run' = NoRun /\ pc' = "idle" /\ UNCHANGED <<scan, todo>>
    BY <1>5 DEF Abandon, TypeOK
  <2>2. pc = "idle"
    BY <1>5 DEF Abandon
  <2> QED BY <2>1, <2>2, NullAssumption DEF ReceiptInv
<1>6. CASE RetireStale \/ ReconcileOmitted \/ MatchLots \/ DeactivateMissing \/ RecordMatch
  BY <1>6 DEF RetireStale, ReconcileOmitted, MatchLots, DeactivateMissing, RecordMatch, ReceiptInv
<1>7. CASE ReconcileGroup  BY <1>7 DEF ReconcileGroup, ReceiptInv
<1>8. ASSUME NEW l \in Lots, SiteChanges(l) \/ Ages(l) PROVE ReceiptInv'
  BY <1>8 DEF SiteChanges, Ages, ReceiptInv
<1>9. CASE UNCHANGED vars  BY <1>9 DEF vars, ReceiptInv
<1> QED
  BY <1>1, <1>2, <1>3, <1>4, <1>5, <1>6, <1>7, <1>8, <1>9 DEF Next, Execute, Start

LEMMA FirstStep ==
  TypeOK /\ FreshInv /\ ScanInv /\ ReceiptInv /\ FirstInv /\ [Next]_vars => FirstInv'
<1> SUFFICES ASSUME TypeOK, FreshInv, ScanInv, ReceiptInv, FirstInv, [Next]_vars,
                    run' \in Runs, ~retried'
             PROVE  /\ receipts'[run'] \subseteq Receipted(scan')
                    /\ \A l \in active' : lastAbsence'[l] = run' => l \in scan'.lots
                    /\ pc' \in {"retire", "scan"} => receipts'[run'] = {}
  BY DEF FirstInv, Receipted
<1> DEFINE Goal == /\ receipts'[run'] \subseteq Receipted(scan')
                   /\ \A l \in active' : lastAbsence'[l] = run' => l \in scan'.lots
                   /\ pc' \in {"retire", "scan"} => receipts'[run'] = {}
<1> USE DEF worldVars, lotVars, runVars, workVars
<1>1. CASE Scan
  <2>1. scan = FailedScan /\ receipts[run] = {} /\ run \in Runs /\ ~retried /\ pc' = "groups"
        /\ UNCHANGED <<receipts, run, active, lastAbsence>>
    BY <1>1 DEF Scan, TypeOK, ScanInv, FirstInv
  <2>2. \A l \in active : lastAbsence[l] # run
    BY <2>1, FailedScanFacts DEF FirstInv
  <2> QED BY <2>1, <2>2
<1>2. CASE RecordReceipt
  <2>1. PICK g \in todo : receipts' = [receipts EXCEPT ![run] = @ \union {g}]
    BY <1>2 DEF RecordReceipt
  <2>2. pc' = "reconcile" /\ UNCHANGED <<scan, runVars, lotVars>>
    BY <1>2 DEF RecordReceipt
  <2>3. g \in Receipted(scan)
    BY <2>1 DEF ReceiptInv
  <2> QED BY <2>1, <2>2, <2>3 DEF FirstInv, TypeOK
<1>3. CASE ReconcileGroup
  <2>1. pc' = "groups" /\ UNCHANGED <<scan, runVars, receipts>> /\ active' \subseteq Lots
    BY <1>3 DEF ReconcileGroup, TypeOK, Listed, LotsOf
  <2>2. ASSUME NEW l \in active', lastAbsence'[l] = run PROVE l \in scan.lots
    BY <1>3, <2>1, <2>2 DEF ReconcileGroup, TypeOK, FirstInv, Listed
  <2> QED BY <2>1, <2>2 DEF FirstInv
<1>4. CASE RetireStale \/ ReconcileOmitted
  <2>1. UNCHANGED <<scan, runVars, receipts>> /\ (pc' = "scan" => pc = "retire") /\ pc' # "retire"
    BY <1>4 DEF RetireStale, ReconcileOmitted
  <2>2. PICK ls : Remove(ls)
    BY <1>4 DEF RetireStale, ReconcileOmitted
  <2>3. ASSUME NEW l \in active', lastAbsence'[l] = run PROVE l \in scan.lots
    BY <2>1, <2>2, <2>3 DEF Remove, TypeOK, FirstInv
  <2> QED BY <2>1, <2>3 DEF FirstInv
<1>5. CASE MatchLots \/ RecordMatch \/ DeactivateMissing
  BY <1>5 DEF MatchLots, RecordMatch, DeactivateMissing, FirstInv
<1>6. CASE Publish \/ Interrupt
  BY <1>6, NullAssumption DEF Publish, Interrupt, Leave
<1>7. ASSUME NEW r \in Runs, BeginRun(r) PROVE Goal
  <2>1. run' = r /\ UNCHANGED <<receipts, lotVars>> /\ r \notin pending /\ r # run
    BY <1>7, NullAssumption DEF BeginRun, TypeOK
  <2>2. receipts[r] = {} /\ \A l \in Lots : lastAbsence[l] # r
    BY <2>1 DEF FreshInv
  <2> QED BY <2>1, <2>2 DEF TypeOK
<1>8. ASSUME NEW r \in Runs, Retry(r) \/ Abandon(r) PROVE Goal
  BY <1>8, NullAssumption DEF Retry, Abandon, TypeOK
<1>9. ASSUME NEW l \in Lots, SiteChanges(l) \/ Ages(l) PROVE Goal
  BY <1>9 DEF SiteChanges, Ages, FirstInv
<1>10. CASE UNCHANGED vars  BY <1>10 DEF vars, FirstInv
<1> QED
  BY <1>1, <1>2, <1>3, <1>4, <1>5, <1>6, <1>7, <1>8, <1>9, <1>10 DEF Next, Execute, Start

LEMMA ExactStep ==
  TypeOK /\ FreshInv /\ ScanInv /\ ReceiptInv /\ FirstInv /\ ExactInv /\ [Next]_vars => ExactInv'
<1> SUFFICES ASSUME TypeOK, FreshInv, ScanInv, ReceiptInv, FirstInv, ExactInv, [Next]_vars,
                    run' \in Runs, ~retried', NEW g \in receipts'[run'],
                    g # group', g \notin todo', scan'.receipt[g] = "authoritative"
             PROVE  active' \intersect LotsOf(g) = Listed(scan', g)
  BY DEF ExactInv, LotsOf, Listed
<1> DEFINE Goal == active' \intersect LotsOf(g) = Listed(scan', g)
<1> USE DEF worldVars, lotVars, runVars, workVars
<1>1. CASE Scan
  BY <1>1 DEF Scan, TypeOK, FirstInv
<1>2. CASE RecordReceipt
  <2>1. PICK h \in todo : /\ receipts' = [receipts EXCEPT ![run] = @ \union {h}]
                          /\ todo' = todo \ {h} /\ group' = h
    BY <1>2 DEF RecordReceipt
  <2>2. UNCHANGED <<scan, runVars, active>> /\ group = NoGroup
    BY <1>2 DEF RecordReceipt, TypeOK
  <2>3. g \in receipts[run] /\ g \notin todo /\ g # NoGroup
    BY <2>1, <2>2, NullAssumption DEF TypeOK
  <2> QED BY <2>2, <2>3 DEF ExactInv
<1>3. CASE ReconcileGroup
  <2>1. UNCHANGED <<scan, runVars, receipts, todo>> /\ group \in Groups
    BY <1>3 DEF ReconcileGroup, TypeOK
  <2>2. CASE g = group
    <3>1. \A l \in active : lastAbsence[l] = run => l \in scan.lots
      BY <2>1 DEF FirstInv
    <3> QED BY <1>3, <2>1, <2>2, <3>1
            DEF ReconcileGroup, Listed, Absent, Removable, LotsOf, TypeOK
  <2>3. CASE g # group
    <3>1. active \intersect LotsOf(g) = Listed(scan, g)
      BY <2>1, <2>3 DEF ExactInv
    <3>2. active' \intersect LotsOf(g) = active \intersect LotsOf(g)
      BY <1>3, <2>3 DEF ReconcileGroup, Listed, Absent, Removable, LotsOf
    <3> QED BY <2>1, <3>1, <3>2
  <2> QED BY <2>2, <2>3
<1>4. CASE ReconcileOmitted
  <2>1. UNCHANGED <<scan, runVars, receipts, todo, group>>
    BY <1>4 DEF ReconcileOmitted
  <2>2. active \intersect LotsOf(g) = Listed(scan, g)
    BY <2>1 DEF ExactInv
  <2>3. active' \intersect LotsOf(g) = active \intersect LotsOf(g)
    BY <1>4, <2>1 DEF ReconcileOmitted, Remove, Removable, Omitted, LotsOf
  <2> QED BY <2>1, <2>2, <2>3
<1>5. CASE RetireStale
  BY <1>5 DEF RetireStale, TypeOK, FirstInv
<1>6. CASE MatchLots \/ RecordMatch \/ DeactivateMissing
  BY <1>6 DEF MatchLots, RecordMatch, DeactivateMissing, ExactInv
<1>7. CASE Publish \/ Interrupt
  BY <1>7, NullAssumption DEF Publish, Interrupt, Leave
<1>8. ASSUME NEW r \in Runs, BeginRun(r) PROVE Goal
  <2>1. run' = r /\ UNCHANGED receipts /\ r \notin pending /\ r # run
    BY <1>8, NullAssumption DEF BeginRun, TypeOK
  <2> QED BY <2>1 DEF FreshInv
<1>9. ASSUME NEW r \in Runs, Retry(r) \/ Abandon(r) PROVE Goal
  BY <1>9, NullAssumption DEF Retry, Abandon, TypeOK
<1>10. ASSUME NEW l \in Lots, SiteChanges(l) \/ Ages(l) PROVE Goal
  BY <1>10 DEF SiteChanges, Ages, ExactInv
<1>11. CASE UNCHANGED vars  BY <1>11 DEF vars, ExactInv
<1> QED
  BY <1>1, <1>2, <1>3, <1>4, <1>5, <1>6, <1>7, <1>8, <1>9, <1>10, <1>11 DEF Next, Execute, Start

LEMMA QuarantineStep ==
  TypeOK /\ ScanInv /\ ReceiptInv /\ QuarantineInv /\ [Next]_vars => QuarantineInv'
<1> SUFFICES ASSUME TypeOK, ScanInv, ReceiptInv, QuarantineInv, [Next]_vars,
                    Volatile, NEW g \in Groups,
                    g \in todo' \/ g = group', scan'.receipt[g] = "authoritative"
             PROVE  ~Suspicious(scan, g)'
  BY DEF QuarantineInv
<1> DEFINE Goal == ~Suspicious(scan, g)'
<1> USE NullAssumption DEF worldVars, lotVars, runVars, workVars
<1>1. ASSUME UNCHANGED scan, active' \intersect LotsOf(g) = active \intersect LotsOf(g),
             g \in todo \/ g = group
      PROVE  Goal
  <2>1. ~Suspicious(scan, g)
    BY <1>1 DEF QuarantineInv
  <2> QED BY <1>1, <2>1 DEF Suspicious, Listed
<1>2. CASE Scan
  <2>1. UNCHANGED active /\ ~Suspicious(scan', g)
    BY <1>2, ScanStep DEF Scan
  <2> QED BY <2>1 DEF Suspicious, Listed
<1>3. CASE RecordReceipt
  BY <1>1, <1>3 DEF RecordReceipt
<1>4. CASE ReconcileGroup
  <2>1. UNCHANGED <<scan, todo>> /\ group' = NoGroup /\ group \notin todo
    BY <1>4 DEF ReconcileGroup, ReceiptInv
  <2>2. g \in todo /\ g # group
    BY <2>1
  <2>3. active' \intersect LotsOf(g) = active \intersect LotsOf(g)
    BY <1>4, <2>2 DEF ReconcileGroup, Listed, Absent, Removable, LotsOf
  <2> QED BY <1>1, <2>1, <2>2, <2>3
<1>5. CASE RetireStale \/ ReconcileOmitted
  BY <1>5 DEF RetireStale, ReconcileOmitted, TypeOK, ReceiptInv
<1>6. CASE MatchLots \/ RecordMatch \/ DeactivateMissing
  BY <1>1, <1>6 DEF MatchLots, RecordMatch, DeactivateMissing
<1>7. CASE Publish \/ Interrupt
  BY <1>7 DEF Publish, Interrupt, Leave
<1>8. ASSUME NEW r \in Runs, BeginRun(r) \/ Retry(r) \/ Abandon(r) PROVE Goal
  BY <1>1, <1>8 DEF BeginRun, Retry, Abandon
<1>9. ASSUME NEW l \in Lots, SiteChanges(l) \/ Ages(l) PROVE Goal
  BY <1>1, <1>9 DEF SiteChanges, Ages
<1>10. CASE UNCHANGED vars  BY <1>1, <1>10 DEF vars
<1> QED
  BY <1>2, <1>3, <1>4, <1>5, <1>6, <1>7, <1>8, <1>9, <1>10 DEF Next, Execute, Start

LEMMA MatchStep == TypeOK /\ MatchInv /\ [Next]_vars => MatchInv'
<1> SUFFICES ASSUME TypeOK, MatchInv, [Next]_vars PROVE MatchInv'
  OBVIOUS
<1> USE DEF MatchInv, SnapshotIsCurrent, worldVars, lotVars, runVars, workVars
<1>1. CASE MatchLots  BY <1>1 DEF MatchLots
<1>2. CASE RecordMatch  BY <1>2 DEF RecordMatch
<1>3. CASE DeactivateMissing  BY <1>3 DEF DeactivateMissing, Missing
<1>4. CASE RetireStale \/ Scan \/ RecordReceipt \/ ReconcileGroup \/ ReconcileOmitted
  BY <1>4 DEF RetireStale, Scan, RecordReceipt, ReconcileGroup, ReconcileOmitted
<1>5. CASE Publish \/ Interrupt  BY <1>5 DEF Publish, Interrupt, Leave
<1>6. ASSUME NEW r \in Runs, BeginRun(r) \/ Retry(r) \/ Abandon(r) PROVE MatchInv'
  BY <1>6 DEF BeginRun, Retry, Abandon
<1>7. ASSUME NEW l \in Lots, SiteChanges(l) \/ Ages(l) PROVE MatchInv'
  BY <1>7 DEF SiteChanges, Ages
<1>8. CASE UNCHANGED vars  BY <1>8 DEF vars
<1> QED
  BY <1>1, <1>2, <1>3, <1>4, <1>5, <1>6, <1>7, <1>8 DEF Next, Execute, Start

\* A lot that an omission removes was not published any more: the source proved
\* that every published lot belongs to a group with a receipt.
LEMMA OmittedAreGone ==
  ASSUME TypeOK, ScanInv, ReceiptInv, ReconcileOmitted, NEW l \in Omitted
  PROVE  l \notin live
<1>1. ~Volatile /\ scan.authority /\ GroupOf[l] \notin receipts[run] /\ l \in Lots
  BY DEF Omitted
<1>2. run \in Runs /\ todo = {}
  BY DEF ReconcileOmitted, TypeOK
<1>3. GroupOf[l] \notin Receipted(scan) /\ GroupOf[l] \in Groups
  BY <1>1, <1>2, GroupAssumption DEF ReceiptInv
<1> QED BY <1>1, <1>3 DEF ScanInv, Truthful, Receipted

LEMMA ExactnessStep == IInv /\ [Next]_vars => AuthorityIsExact'
<1> SUFFICES ASSUME IInv, [Next]_vars,
                    pc' \in {"match", "record", "publish"}, ~retried', ~Volatile, scan'.authority,
                    NEW l \in Lots, scan'.receipt[GroupOf[l]] # "failed"
             PROVE  l \in active' <=> l \in live'
  BY DEF AuthorityIsExact
<1> DEFINE Goal == l \in active' <=> l \in live'
<1> USE DEF IInv, worldVars, lotVars, runVars, workVars
<1>1. CASE ReconcileOmitted
  <2> DEFINE g == GroupOf[l]
  <2>1. UNCHANGED <<live, scan, runVars>> /\ run \in Runs /\ todo = {} /\ group = NoGroup
    BY <1>1 DEF ReconcileOmitted, TypeOK
  <2>2. Coherent(scan) /\ Truthful(scan) /\ g \in Groups /\ l \in LotsOf(g)
    BY GroupAssumption DEF ScanInv, LotsOf
  <2>3. scan.discovery = "complete" /\ scan.receipt[g] \in {"none", "authoritative"}
    BY <2>1, <2>2 DEF Coherent, TypeOK, Results, Coverage
  <2>4. CASE scan.receipt[g] = "none"
    <3>1. l \in Omitted
      BY <2>1, <2>2, <2>3, <2>4 DEF FirstInv, Omitted, Receipted
    <3>2. l \notin live
      BY <1>1, <3>1, OmittedAreGone
    <3>3. l \in active => lastAbsence[l] # run
      BY <2>1, <2>4 DEF FirstInv, ScanInv
    <3>4. l \notin active'
      BY <1>1, <3>1, <3>3 DEF ReconcileOmitted, Remove, Removable
    <3> QED BY <2>1, <3>2, <3>4
  <2>5. CASE scan.receipt[g] = "authoritative"
    <3>1. g \in receipts[run]
      BY <2>1, <2>2, <2>5 DEF ReceiptInv, Receipted
    <3>2. l \notin Omitted
      BY <3>1 DEF Omitted
    <3>3. active \intersect LotsOf(g) = Listed(scan, g)
      BY <2>1, <2>2, <2>5, <3>1, NullAssumption DEF ExactInv
    <3>4. l \in scan.lots <=> l \in live
      BY <2>2, <2>5 DEF ScanInv, Truthful
    <3>5. l \in active' <=> l \in active
      BY <1>1, <3>2 DEF ReconcileOmitted, Remove, Removable
    <3> QED BY <2>1, <2>2, <3>3, <3>4, <3>5 DEF Listed
  <2> QED BY <2>3, <2>4, <2>5
<1>2. CASE MatchLots \/ RecordMatch \/ DeactivateMissing
  BY <1>2 DEF MatchLots, RecordMatch, DeactivateMissing, AuthorityIsExact
<1>3. CASE RetireStale \/ Scan \/ RecordReceipt \/ ReconcileGroup
  BY <1>3 DEF RetireStale, Scan, RecordReceipt, ReconcileGroup
<1>4. CASE Publish \/ Interrupt  BY <1>4 DEF Publish, Interrupt, Leave
<1>5. ASSUME NEW r \in Runs, BeginRun(r) \/ Retry(r) \/ Abandon(r) PROVE Goal
  BY <1>5 DEF BeginRun, Retry, Abandon
<1>6. ASSUME NEW m \in Lots, SiteChanges(m) \/ Ages(m) PROVE Goal
  BY <1>6 DEF SiteChanges, Ages
<1>7. CASE UNCHANGED vars  BY <1>7 DEF vars, AuthorityIsExact
<1> QED
  BY <1>1, <1>2, <1>3, <1>4, <1>5, <1>6, <1>7 DEF Next, Execute, Start

-----------------------------------------------------------------------------
(* The theorems *)

LEMMA InitIInv == Init => IInv
<1> SUFFICES ASSUME Init PROVE IInv
  OBVIOUS
<1> USE NullAssumption DEF Init
<1>1. FreshInv /\ FirstInv /\ ExactInv
  BY DEF FreshInv, FirstInv, ExactInv
<1>2. ScanInv
  BY FailedScanFacts DEF ScanInv, FailedScan, Coherent, Truthful
<1>3. ReceiptInv
  BY DEF ReceiptInv
<1>4. QuarantineInv
  BY DEF QuarantineInv
<1>5. MatchInv /\ AuthorityIsExact
  BY DEF MatchInv, SnapshotIsCurrent, AuthorityIsExact
<1> QED BY InitTypeOK, <1>1, <1>2, <1>3, <1>4, <1>5 DEF IInv

LEMMA Invariance == Spec => []IInv
<1>1. IInv /\ [Next]_vars => IInv'
  BY NextTypeOK, FreshStep, ScanInvStep, ReceiptStep, FirstStep, ExactStep, QuarantineStep,
     MatchStep, ExactnessStep DEF IInv
<1> QED BY InitIInv, <1>1, PTL DEF Spec

\* A first attempt with an authoritative source ends with exactly what the site
\* publishes, for any number of lots, groups and interrupted runs before it.
THEOREM InventoryIsExact == Spec => []AuthorityIsExact
<1>1. IInv => AuthorityIsExact  BY DEF IInv
<1> QED BY <1>1, Invariance, PTL

\* A snapshot lists the matches of its own attempt, all of them active.
THEOREM SnapshotCurrent == Spec => []SnapshotIsCurrent
<1>1. IInv => SnapshotIsCurrent  BY DEF IInv, MatchInv
<1> QED BY <1>1, Invariance, PTL

\* Nothing leaves the inventory of a source that is not volatile unless the site
\* withdrew it or nobody confirmed it for the whole TTL.
THEOREM RemovalNeedsEvidence == Spec => RemovedWasGone
<1>1. IInv /\ [Next]_vars =>
        [~Volatile =>
           \A l \in active \ active' : l \notin live \/ (pc = "retire" /\ l \in aged)]_vars
  <2> SUFFICES ASSUME IInv, Next, ~Volatile, NEW l \in active, l \notin active'
               PROVE  l \notin live \/ (pc = "retire" /\ l \in aged)
    OBVIOUS
  <2> USE DEF IInv, lotVars
  <2>1. CASE RetireStale
    BY <2>1 DEF RetireStale, Remove, Removable, Stale
  <2>2. CASE ReconcileGroup
    <3>1. l \in Absent(group) /\ scan.receipt[group] = "authoritative" /\ group \in Groups
      BY <2>2 DEF ReconcileGroup, Removable, Absent, TypeOK
    <3>2. live \intersect LotsOf(group) \subseteq scan.lots
      BY <3>1 DEF ScanInv, Truthful
    <3> QED BY <3>1, <3>2 DEF Absent
  <2>3. CASE ReconcileOmitted
    <3>1. l \in Omitted
      BY <2>3 DEF ReconcileOmitted, Remove, Removable
    <3> QED BY <2>3, <3>1, OmittedAreGone
  <2>4. Scan \/ RecordReceipt \/ MatchLots \/ RecordMatch \/ DeactivateMissing \/ Publish
        \/ Interrupt \/ (\E r \in Runs : BeginRun(r) \/ Retry(r) \/ Abandon(r))
        \/ (\E m \in Lots : SiteChanges(m) \/ Ages(m)) => UNCHANGED active
    BY DEF Scan, RecordReceipt, MatchLots, RecordMatch, DeactivateMissing, Publish, Interrupt,
           BeginRun, Retry, Abandon, SiteChanges, Ages
  <2> QED BY <2>1, <2>2, <2>3, <2>4 DEF Next, Execute, Start
<1> QED BY <1>1, Invariance, PTL DEF Spec, RemovedWasGone

\* A page of a volatile source that shows a small remainder of a large group
\* removes nothing of it.
THEOREM QuarantineHolds == Spec => NoImplausibleDrop
<1> DEFINE Kept ==
      Volatile /\ pc = "reconcile" =>
        LET before == active \intersect LotsOf(group)
            shown  == Listed(scan, group)
        IN /\ shown # {}
           /\ Cardinality(before) >= QuarantineMin
           /\ Cardinality(shown) * QuarantineRatio < Cardinality(before)
           => before \subseteq active'
<1>1. IInv /\ [Next]_vars => [Kept]_vars
  <2> SUFFICES ASSUME IInv, Next, Volatile, pc = "reconcile", Suspicious(scan, group)
               PROVE  active \intersect LotsOf(group) \subseteq active'
    BY DEF Suspicious
  <2>1. scan.receipt[group] # "authoritative"
    BY DEF IInv, QuarantineInv, TypeOK
  <2>2. CASE ReconcileGroup
    BY <2>1, <2>2 DEF ReconcileGroup, Absent, Removable
  <2>3. CASE Interrupt
    BY <2>3 DEF Interrupt, lotVars
  <2>4. Next => ReconcileGroup \/ Interrupt
    BY DEF Next, Execute, Start, RetireStale, Scan, RecordReceipt, ReconcileOmitted, MatchLots,
           RecordMatch, DeactivateMissing, Publish, BeginRun, Retry, Abandon, SiteChanges, Ages
  <2> QED BY <2>2, <2>3, <2>4
<1> QED BY <1>1, Invariance, PTL DEF Spec, NoImplausibleDrop

-----------------------------------------------------------------------------
(* The scan of Castells.  The pages of the site: a page is the head of what lies
   beyond a cursor. *)

Forms == {"lot", "untitled", "junk"}
AllRows == [lot : LotIds, form : Forms, copy : {1, 2}]

\* Rows of a group are told apart, and put in order, by this number.
Place(r) == 2 * r.lot + r.copy

\* The site is well typed.
SiteTypes ==
  /\ published \in [Auctions -> SUBSET LotIds] /\ flaw \in [Auctions -> [LotIds -> Flaws]]

LEMMA LeastNumber ==
  ASSUME NEW S \in SUBSET Nat, S # {}
  PROVE  \E x \in S : \A y \in S : x <= y
<1>1. PICK x \in S : \A y \in S : ~ (<<y, x>> \in OpToRel(<, Nat))
  BY NatLessThanWellFounded, WFMin
<1>2. \A y \in S : ~ (y < x)
  BY <1>1 DEF OpToRel
<1> QED BY <1>2

LEMMA BeyondRows ==
  ASSUME SiteTypes, NEW g \in Auctions, NEW c \in Int
  PROVE  /\ Beyond(g, c) \subseteq AllRows
         /\ \A r \in Beyond(g, c) :
              r.lot \in published[g] /\ r.lot > c /\ r \in RowsOf(r.lot, flaw[g][r.lot])
         /\ \A l \in published[g] : l > c => RowsOf(l, flaw[g][l]) \subseteq Beyond(g, c)
<1>1. \A l \in LotIds : \A r \in RowsOf(l, flaw[g][l]) : r \in AllRows /\ r.lot = l
  BY DEF RowsOf, AllRows, Forms
<1>2. \A l \in published[g] : l \in LotIds
  BY DEF SiteTypes
<1> QED BY <1>1, <1>2 DEF Beyond

LEMMA RowsAtPlaces ==
  ASSUME SiteTypes, NEW g \in Auctions, NEW c \in Int,
         NEW q \in Beyond(g, c), NEW r \in Beyond(g, c)
  PROVE  /\ Place(q) \in Nat /\ Place(q) <= 2 * NumLots + 2
         /\ Before(q, r) <=> Place(q) < Place(r)
         /\ q = r <=> Place(q) = Place(r)
<1> USE ScanAssumption DEF Place, LotIds
<1>1. q \in AllRows /\ r \in AllRows
      /\ q \in RowsOf(q.lot, flaw[g][q.lot]) /\ r \in RowsOf(r.lot, flaw[g][r.lot])
  BY BeyondRows
<1>2. q.lot \in 1..NumLots /\ r.lot \in 1..NumLots /\ q.copy \in {1, 2} /\ r.copy \in {1, 2}
  BY <1>1 DEF AllRows
<1>3. Before(q, r) <=> Place(q) < Place(r)
  BY <1>2 DEF Before
<1>4. q.lot = r.lot /\ q.copy = r.copy => q = r
  BY <1>1 DEF RowsOf
<1>5. Place(q) = Place(r) => q.lot = r.lot /\ q.copy = r.copy
  BY <1>2
<1> QED BY <1>2, <1>3, <1>4, <1>5

LEMMA BeyondIsFinite ==
  ASSUME SiteTypes, NEW g \in Auctions, NEW c \in Int
  PROVE  IsFiniteSet(Beyond(g, c))
<1> DEFINE f == [r \in Beyond(g, c) |-> Place(r)]
<1>1. 2 * NumLots + 2 \in Int
  BY ScanAssumption
<1>2. f \in [Beyond(g, c) -> 0..(2 * NumLots + 2)]
  BY <1>1, RowsAtPlaces
<1>3. \A q, r \in Beyond(g, c) : f[q] = f[r] => q = r
  BY RowsAtPlaces
<1>4. f \in Injection(Beyond(g, c), 0..(2 * NumLots + 2))
  BY <1>2, <1>3 DEF Injection, IsInjective
<1> QED BY <1>1, <1>4, FS_Interval, FS_Injection

\* Any set of rows has a first and a last one.
LEMMA FirstRow ==
  ASSUME SiteTypes, NEW g \in Auctions, NEW c \in Int, NEW R \in SUBSET Beyond(g, c), R # {}
  PROVE  \E r \in R : \A q \in R : q = r \/ Before(r, q)
<1> DEFINE S == {Place(r) : r \in R}
<1>1. S \in SUBSET Nat /\ S # {}
  BY RowsAtPlaces
<1>2. PICK n \in S : \A m \in S : n <= m
  BY <1>1, LeastNumber
<1>3. PICK r \in R : Place(r) = n
  BY <1>2
<1>4. \A q \in R : Place(r) <= Place(q)
  BY <1>2, <1>3
<1>5. \A q \in R : Place(r) = Place(q) \/ Place(r) < Place(q)
  BY <1>1, <1>4
<1> QED BY <1>5, RowsAtPlaces

LEMMA FinalRow ==
  ASSUME SiteTypes, NEW g \in Auctions, NEW c \in Int, NEW R \in SUBSET Beyond(g, c), R # {}
  PROVE  \E r \in R : \A q \in R : q = r \/ Before(q, r)
<1> DEFINE top == 2 * NumLots + 2
           S == {top - Place(r) : r \in R}
<1>1. top \in Nat /\ \A r \in R : Place(r) \in Nat /\ Place(r) <= top
  BY RowsAtPlaces, ScanAssumption
<1>2. S \in SUBSET Nat /\ S # {}
  BY <1>1
<1>3. PICK n \in S : \A m \in S : n <= m
  BY <1>2, LeastNumber
<1>4. PICK r \in R : top - Place(r) = n
  BY <1>3
<1>5. \A q \in R : n <= top - Place(q)
  BY <1>3
<1> HIDE DEF S, top
<1>6. \A q \in R : Place(q) = Place(r) \/ Place(q) < Place(r)
  BY <1>1, <1>4, <1>5
<1> QED BY <1>6, RowsAtPlaces

\* A page is a finite head of what lies beyond the cursor, with a last row.
LEMMA PageIsHead ==
  ASSUME SiteTypes, NEW g \in Auctions, NEW c \in Int
  PROVE  /\ Page(g, c) \subseteq Beyond(g, c) /\ IsFiniteSet(Page(g, c))
         /\ \A r \in Page(g, c), q \in Beyond(g, c) : Before(q, r) => q \in Page(g, c)
         /\ Page(g, c) # {} =>
              /\ LastRow(Page(g, c)) \in Page(g, c)
              /\ \A q \in Page(g, c) : q = LastRow(Page(g, c)) \/ Before(q, LastRow(Page(g, c)))
<1> DEFINE Earlier(r) == {q \in Beyond(g, c) : Before(q, r)}
<1>1. Page(g, c) \subseteq Beyond(g, c)
  BY DEF Page
<1>2. IsFiniteSet(Beyond(g, c))
  BY BeyondIsFinite
<1>3. ASSUME NEW r \in Page(g, c), NEW q \in Beyond(g, c), Before(q, r) PROVE q \in Page(g, c)
  <2>1. Earlier(q) \subseteq Earlier(r)
    <3> SUFFICES ASSUME NEW p \in Beyond(g, c), Before(p, q) PROVE Before(p, r)
      OBVIOUS
    <3>1. Place(p) < Place(q) /\ Place(q) < Place(r)
      BY <1>1, <1>3, RowsAtPlaces
    <3>2. Place(p) \in Nat /\ Place(q) \in Nat /\ Place(r) \in Nat
      BY <1>1, <1>3, RowsAtPlaces
    <3>3. Place(p) < Place(r)
      BY <3>1, <3>2
    <3> QED BY <1>1, <3>3, RowsAtPlaces
  <2>2. IsFiniteSet(Earlier(r)) /\ IsFiniteSet(Earlier(q))
    BY <1>2, FS_Subset
  <2>3. Cardinality(Earlier(q)) <= Cardinality(Earlier(r))
    BY <2>1, <2>2, FS_Subset
  <2>4. Cardinality(Earlier(r)) < PageSize
    BY <1>3 DEF Page
  <2>5. Cardinality(Earlier(q)) < PageSize
    BY <2>2, <2>3, <2>4, FS_CardinalityType, ScanAssumption
  <2> QED BY <2>5 DEF Page
<1>4. ASSUME Page(g, c) # {}
      PROVE  \E r \in Page(g, c) : \A q \in Page(g, c) : q = r \/ Before(q, r)
  BY <1>1, <1>4, FinalRow
<1> QED BY <1>1, <1>2, <1>3, <1>4, FS_Subset DEF LastRow

LEMMA PageFits ==
  ASSUME SiteTypes, NEW g \in Auctions, NEW c \in Int
  PROVE  Cardinality(Page(g, c)) \in Nat /\ Cardinality(Page(g, c)) <= PageSize
<1> DEFINE page == Page(g, c)
           last == LastRow(page)
           Earlier == {q \in Beyond(g, c) : Before(q, last)}
<1>1. CASE page = {}
  BY <1>1, FS_EmptySet, ScanAssumption
<1>2. CASE page # {}
  <2>1. last \in page /\ page \subseteq Earlier \union {last}
    BY <1>2, PageIsHead
  <2>2. Cardinality(Earlier) < PageSize
    BY <2>1 DEF Page
  <2>3. IsFiniteSet(Earlier)
    BY BeyondIsFinite, FS_Subset
  <2>4. /\ IsFiniteSet(Earlier \union {last})
        /\ Cardinality(Earlier \union {last}) <= Cardinality(Earlier) + 1
    <3>1. Cardinality(Earlier) \in Nat
      BY <2>3, FS_CardinalityType
    <3>2. /\ IsFiniteSet(Earlier \union {last})
          /\ Cardinality(Earlier \union {last}) =
               IF last \in Earlier THEN Cardinality(Earlier) ELSE Cardinality(Earlier) + 1
      BY <2>3, FS_AddElement
    <3> QED BY <3>1, <3>2
  <2>5. IsFiniteSet(page) /\ Cardinality(page) <= Cardinality(Earlier \union {last})
    BY <2>1, <2>4, FS_Subset
  <2> HIDE DEF page, Earlier, last
  <2>6. /\ Cardinality(page) \in Nat /\ Cardinality(Earlier) \in Nat
        /\ Cardinality(Earlier \union {last}) \in Nat
    BY <2>3, <2>4, <2>5, FS_CardinalityType
  <2>7. Cardinality(page) \in Nat /\ Cardinality(page) <= PageSize
    BY <2>2, <2>4, <2>5, <2>6, ScanAssumption
  <2> QED BY <2>7 DEF page
<1> QED BY <1>1, <1>2

\* A page that is short is all there is.
LEMMA ShortIsAll ==
  ASSUME SiteTypes, NEW g \in Auctions, NEW c \in Int, ShortPage(Page(g, c))
  PROVE  Page(g, c) = Beyond(g, c)
<1> DEFINE rest == Beyond(g, c) \ Page(g, c)
<1> SUFFICES ASSUME rest # {} PROVE FALSE
  BY PageIsHead
<1>1. PICK r \in rest : \A q \in rest : q = r \/ Before(r, q)
  BY FirstRow
<1> DEFINE Earlier == {q \in Beyond(g, c) : Before(q, r)}
<1>2. Earlier \subseteq Page(g, c)
  <2> SUFFICES ASSUME NEW q \in rest, Before(q, r) PROVE FALSE
    OBVIOUS
  <2>1. Place(q) < Place(r) /\ Place(r) <= Place(q)
    BY <1>1, RowsAtPlaces
  <2> QED BY <2>1, RowsAtPlaces
<1>3. Cardinality(Earlier) <= Cardinality(Page(g, c))
  BY <1>2, PageIsHead, FS_Subset
<1>4. ~ (Cardinality(Earlier) < PageSize)
  BY <1>1 DEF Page
<1>5. Cardinality(Earlier) \in Nat /\ Cardinality(Page(g, c)) \in Nat
  BY BeyondIsFinite, PageIsHead, FS_Subset, FS_CardinalityType
<1>6. Cardinality(Page(g, c)) < PageSize
  BY DEF ShortPage
<1> QED BY <1>3, <1>4, <1>5, <1>6, ScanAssumption

\* A page shows every open lot after the cursor, up to its last row or, if it is short,
\* to the end.
LEMMA PageShows ==
  ASSUME SiteTypes, NEW g \in Auctions, NEW c \in Int, NEW l \in published[g], l > c,
         ShortPage(Page(g, c)) \/ (Page(g, c) # {} /\ l <= LastRow(Page(g, c)).lot)
  PROVE  \E r \in Page(g, c) : r.lot = l
<1> DEFINE page == Page(g, c)
           last == LastRow(page)
<1>0. l \in LotIds /\ l \in Int
  BY DEF SiteTypes, LotIds
<1>1. \E r \in RowsOf(l, flaw[g][l]) : r.lot = l /\ r.copy = 1
  <2>1. \E form \in Forms : [lot |-> l, form |-> form, copy |-> 1] \in RowsOf(l, flaw[g][l])
    BY DEF RowsOf, Forms
  <2> QED BY <2>1
<1>2. PICK r \in Beyond(g, c) : r.lot = l /\ r.copy = 1
  BY <1>1, BeyondRows
<1>3. CASE ShortPage(page)
  BY <1>2, <1>3, ShortIsAll
<1>4. CASE page # {} /\ l <= last.lot
  <2>1. last \in page /\ last \in Beyond(g, c)
    BY <1>4, PageIsHead
  <2>2. last \in AllRows
    BY <2>1, BeyondRows
  <2>3. last.lot \in Int /\ last.copy \in {1, 2}
    BY <2>2 DEF AllRows, LotIds
  <2>4. Place(r) <= Place(last)
    BY <1>0, <1>2, <1>4, <2>3 DEF Place
  <2>5. r = last \/ Before(r, last)
    BY <2>1, <2>4, RowsAtPlaces
  <2> QED BY <1>2, <2>1, <2>5, PageIsHead
<1> QED BY <1>3, <1>4

\* A link to more rows leads on from a full page.
LEMMA OnwardIsFull ==
  ASSUME SiteTypes, NEW g \in Auctions, NEW c \in Int, Page(g, c) # {},
         Beyond(g, LastRow(Page(g, c)).lot) # {}
  PROVE  ~ShortPage(Page(g, c))
<1> DEFINE last == LastRow(Page(g, c))
<1> SUFFICES ASSUME ShortPage(Page(g, c)) PROVE FALSE
  OBVIOUS
<1>1. /\ last \in Page(g, c) /\ last \in Beyond(g, c) /\ last \in AllRows
      /\ last.lot \in Int /\ last.lot > c
  BY PageIsHead, BeyondRows DEF AllRows, LotIds
<1>2. PICK r \in Beyond(g, last.lot) : TRUE
  OBVIOUS
<1>3. r.lot \in published[g] /\ r.lot > last.lot /\ r \in RowsOf(r.lot, flaw[g][r.lot])
  BY <1>1, <1>2, BeyondRows
<1>4. r.lot \in Int /\ r.lot > c
  BY <1>1, <1>3 DEF SiteTypes, LotIds
<1>5. r \in Page(g, c)
  BY <1>3, <1>4, BeyondRows, ShortIsAll
<1>6. r = last \/ Before(r, last)
  BY <1>5, PageIsHead
<1> QED BY <1>1, <1>3, <1>4, <1>6 DEF Before

\* The rows of a group with which nothing is wrong.
LEMMA SoundRows ==
  ASSUME SiteTypes, NEW g \in Auctions, NEW c \in Int, flaw[g] = Flawless[g]
  PROVE  \A r \in Page(g, c) : r.form = "lot" /\ r.copy = 1
<1> SUFFICES ASSUME NEW r \in Page(g, c) PROVE r.form = "lot" /\ r.copy = 1
  OBVIOUS
<1>1. r.lot \in LotIds /\ r \in RowsOf(r.lot, flaw[g][r.lot])
  BY PageIsHead, BeyondRows DEF SiteTypes
<1>2. flaw[g][r.lot] = "none"
  BY <1>1 DEF Flawless
<1> QED BY <1>1, <1>2 DEF RowsOf

LEMMA FullPageReaches ==
  ASSUME SiteTypes, NEW g \in Auctions, NEW c \in Int, flaw[g] = Flawless[g],
         ~ShortPage(Page(g, c))
  PROVE  c + PageSize <= LastRow(Page(g, c)).lot
<1> DEFINE page == Page(g, c)
           last == LastRow(page)
           f == [r \in page |-> r.lot]
<1>1. Cardinality(page) \in Nat /\ Cardinality(page) = PageSize
  BY PageFits, ScanAssumption DEF ShortPage
<1>2. page # {}
  BY <1>1, FS_EmptySet, ScanAssumption
<1>3. \A r \in page : r \in AllRows /\ r.lot \in Int /\ r.lot > c
  BY PageIsHead, BeyondRows DEF AllRows, LotIds
<1>4. \A r \in page : r = last \/ Before(r, last)
  BY <1>2, PageIsHead
<1>5. last \in page /\ last.lot \in Int /\ last.lot > c
  BY <1>2, <1>3, PageIsHead
<1>6. \A r \in page : r.lot \in (c + 1)..last.lot
  BY <1>3, <1>4, <1>5 DEF Before
<1>7. \A q, r \in page : q.lot = r.lot => q = r
  BY <1>3, SoundRows DEF AllRows
<1>8. f \in Injection(page, (c + 1)..last.lot)
  BY <1>6, <1>7 DEF Injection, IsInjective
<1> HIDE DEF f, last, page
<1>9. c + 1 \in Int /\ ~ (c + 1 > last.lot)
  BY <1>5
<1>10. /\ IsFiniteSet((c + 1)..last.lot)
       /\ Cardinality((c + 1)..last.lot) = last.lot - (c + 1) + 1
  BY <1>5, <1>9, FS_Interval
<1>11. Cardinality(page) <= Cardinality((c + 1)..last.lot)
  BY <1>8, <1>10, FS_Injection
<1>12. c + PageSize <= last.lot
  BY <1>1, <1>5, <1>10, <1>11, ScanAssumption
<1> QED BY <1>12 DEF last, page

-----------------------------------------------------------------------------
(* The decoder: what it accepts is the page that was sent, but where the envelope of a
   closed auction hides it. *)

\* What the envelope of a closed auction says.
LEMMA EnvelopeIsEmpty ==
  ASSUME NEW p, p.json, ~NamesError(p), p.known = {}, VerifiedEmpty(p)
  PROVE  Decode(p) = Read({})
  BY DEF Decode

LEMMA AnswersAreRead ==
  ASSUME NEW page, NEW more \in BOOLEAN, NEW p \in Answers(page, more), ~Veiled(p), Decode(p).ok
  PROVE  Decode(p).rows = page
<1> USE DEF Decode, Read, Unreadable, NamesError, VerifiedEmpty, ListCandidates, Payload, Drifted
<1>1. ASSUME NEW meta, p = Payload({page}, {}, meta) PROVE Decode(p).rows = page
  BY <1>1
<1>2. CASE page = {} /\ p = Payload({}, {}, "silent")
  BY <1>2
<1>3. ASSUME NEW meta, p = Payload({}, {Drifted(page, TRUE)}, meta) PROVE Decode(p).rows = page
  <2> DEFINE high == {c \in ListCandidates(p) : Confidence(c.rows) = "high"}
  <2>1. /\ p.json /\ ~p.error /\ p.known = {} /\ p.meta = meta
        /\ p.lists = {[rows |-> page, named |-> TRUE]}
    BY <1>3
  <2>4. CASE meta = "silent"
    <3>1. [rows |-> page, named |-> TRUE] \in p.lists /\ p.meta = "silent"
      BY <2>1, <2>4
    <3>2. page = {}
      BY <2>1, <3>1 DEF Veiled
    <3> QED BY <2>1, <3>1, <3>2
  <2>2. CASE meta # "silent" /\ Cardinality(high) = 1
    <3>1. high # {}
      BY <2>2, FS_EmptySet
    <3>2. (CHOOSE c \in high : TRUE) \in high
      BY <3>1
    <3>3. \A c \in high : c = [rows |-> page, named |-> TRUE]
      BY <2>1
    <3>4. (CHOOSE c \in high : TRUE).rows = page
      BY <3>2, <3>3
    <3> QED BY <2>1, <2>2, <3>4
  <2>3. CASE meta # "silent" /\ Cardinality(high) # 1
    <3>1. ASSUME p.lists = {[rows |-> {}, named |-> TRUE]} PROVE page = {}
      <4>1. [rows |-> page, named |-> TRUE] = [rows |-> {}, named |-> TRUE]
        BY <2>1, <3>1
      <4>2. [rows |-> page, named |-> TRUE].rows = [rows |-> {}, named |-> TRUE].rows
        BY <4>1
      <4> QED BY <4>2
    <3> QED BY <2>1, <2>3, <3>1
  <2> QED BY <2>2, <2>3, <2>4
<1> QED BY <1>1, <1>2, <1>3 DEF Answers

LEMMA GarbageIsRefused ==
  ASSUME NEW page, NEW more \in BOOLEAN, NEW p \in Garbage(page, more), ~Veiled(p), Decode(p).ok
  PROVE  Decode(p).rows = page
<1> USE DEF Decode, Read, Unreadable, NamesError, VerifiedEmpty, ListCandidates, Payload, Drifted
<1> DEFINE high == {c \in ListCandidates(p) : Confidence(c.rows) = "high"}
<1>1. CASE p = [Payload({}, {}, "none") EXCEPT !.json = FALSE]
  BY <1>1
<1>2. CASE p = [Payload({{}}, {}, "none") EXCEPT !.error = TRUE]
  BY <1>2
<1>3. CASE p = Payload({}, {}, "more")
  <2>1. high = {} /\ Cardinality(high) # 1 /\ p.lists = {}
    BY <1>3, FS_EmptySet
  <2> QED BY <1>3, <2>1
<1>4. CASE p = Payload({}, {Drifted({}, FALSE)}, "none")
  <2>1. Confidence({}) = "low"
    <3>1. Cardinality({}) = 0
      BY FS_EmptySet
    <3> QED BY <3>1 DEF Confidence
  <2>2. p.lists = {[rows |-> {}, named |-> FALSE]} /\ high = {}
    BY <1>4, <2>1
  <2>3. Cardinality(high) # 1
    BY <2>2, FS_EmptySet
  <2>4. [rows |-> {}, named |-> FALSE] # [rows |-> {}, named |-> TRUE]
    OBVIOUS
  <2>5. p.lists # {[rows |-> {}, named |-> TRUE]}
    BY <2>2, <2>4
  <2> QED BY <1>4, <2>3, <2>5
<1>5. ASSUME NEW meta, p = Payload({}, {Drifted(page, TRUE), Drifted(page, FALSE)}, meta)
      PROVE  Decode(p).rows = page
  <2>1. /\ p.json /\ ~p.error /\ p.known = {} /\ p.meta = meta
        /\ p.lists = {[rows |-> page, named |-> TRUE], [rows |-> page, named |-> FALSE]}
    BY <1>5
  <2>8. CASE meta = "silent"
    <3>1. [rows |-> page, named |-> TRUE] \in p.lists /\ p.meta = "silent"
      BY <2>1, <2>8
    <3>2. page = {}
      BY <2>1, <3>1 DEF Veiled
    <3> QED BY <2>1, <3>1, <3>2
  <2>2. [rows |-> page, named |-> TRUE] # [rows |-> page, named |-> FALSE]
    OBVIOUS
  <2>3. high = {} \/ high = p.lists
    BY <2>1
  <2>4. \A x : high # {x}
    BY <2>1, <2>2, <2>3
  <2>5. IsFiniteSet(high)
    <3>1. p.lists = {[rows |-> page, named |-> TRUE]} \union {[rows |-> page, named |-> FALSE]}
      BY <2>1
    <3>2. IsFiniteSet({[rows |-> page, named |-> TRUE]})
      BY FS_Singleton
    <3>3. IsFiniteSet({[rows |-> page, named |-> TRUE]} \union {[rows |-> page, named |-> FALSE]})
      BY ONLY <3>2, FS_AddElement
    <3>4. IsFiniteSet(p.lists)
      BY <3>1, <3>3
    <3> QED BY <2>3, <3>4, FS_EmptySet
  <2>6. Cardinality(high) # 1
    BY <2>4, <2>5, FS_Singleton
  <2>7. p.lists # {[rows |-> {}, named |-> TRUE]}
    BY <2>1, <2>2
  <2>9. CASE meta # "silent"
    BY <2>1, <2>6, <2>7, <2>9
  <2> QED BY <2>8, <2>9
<1> QED BY <1>1, <1>2, <1>3, <1>4, <1>5 DEF Garbage

\* A page of sound rows is read, in whatever form it comes.
LEMMA SoundPageIsRead ==
  ASSUME NEW page, IsFiniteSet(page), Cardinality(page) <= PageSize,
         \A r \in page : r.form = "lot",
         \A q, r \in page : q.lot = r.lot => q = r,
         NEW more \in BOOLEAN, NEW p \in Answers(page, more)
  PROVE  Decode(p).ok
<1> USE DEF Decode, Read, Unreadable, NamesError, VerifiedEmpty, ListCandidates, Payload, Drifted
<1>1. ASSUME NEW meta, p = Payload({page}, {}, meta) PROVE Decode(p).ok
  BY <1>1
<1>2. CASE page = {} /\ p = Payload({}, {}, "silent")
  BY <1>2
<1>3. ASSUME NEW meta, p = Payload({}, {Drifted(page, TRUE)}, meta) PROVE Decode(p).ok
  <2> DEFINE high == {c \in ListCandidates(p) : Confidence(c.rows) = "high"}
  <2>1. /\ p.json /\ ~p.error /\ p.known = {} /\ p.meta = meta
        /\ p.lists = {[rows |-> page, named |-> TRUE]}
    BY <1>3
  <2>2. CASE page = {}
    BY <2>1, <2>2
  <2>3. CASE page # {}
    <3>1. Mappings(page) = page /\ Shaped(page) = page
      BY DEF Mappings, Shaped
    <3>2. Cardinality(page) \in Nat /\ Cardinality(page) # 0
      BY <2>3, FS_CardinalityType, FS_EmptySet
    <3>3. Confidence(page) = "high"
      BY <3>1, <3>2, ScanAssumption DEF Confidence
    <3>4. high = {[rows |-> page, named |-> TRUE]}
      BY <2>1, <3>3
    <3>5. Cardinality(high) = 1
      BY <3>4, FS_Singleton
    <3> QED BY <2>1, <3>5
  <2> QED BY <2>2, <2>3
<1> QED BY <1>1, <1>2, <1>3 DEF Answers

-----------------------------------------------------------------------------
(* The invariant of the scan *)

Threads == [group : Auctions \union {NoAuction}, cursor : 0..NumLots,
            visited : SUBSET (0..NumLots), rows : SUBSET AllRows]

\* What TypeOK leaves open of the threads, and of the first request.
LocalsInv ==
  /\ worker \in [Workers -> Threads]
  /\ phase = "discover" => requests = 0

\* What was open throughout is still open.
SiteInv == \A g \in Auctions : always[g] \subseteq published[g]

\* The rows a thread has read show every lot that was open throughout, up to any cursor
\* it has come to.
ReadInv ==
  \A w \in Workers : Busy(w) =>
    \A c \in worker[w].visited \union {worker[w].cursor} :
      \A l \in always[worker[w].group] : l <= c => \E r \in worker[w].rows : r.lot = l

\* Nothing is wrong with a group so far.
Fine(g) == g \notin troubled /\ flaw[g] = Flawless[g]

\* Of a group with which nothing is wrong only full pages were read, each further on.
CountInv ==
  \A w \in Workers : Busy(w) /\ Fine(worker[w].group) =>
    /\ \A r \in worker[w].rows : r.form = "lot" /\ r.copy = 1
    /\ \A c \in worker[w].visited : c < worker[w].cursor
    /\ worker[w].cursor >= Cardinality(worker[w].visited) * PageSize

CastellsInv ==
  /\ ScanTypeOK /\ LocalsInv /\ SiteInv /\ ReadInv /\ CountInv
  /\ AuthorityIsTrue /\ PartialNeedsCause

LEMMA RestingType == Resting \in Threads /\ Resting.group = NoAuction
  BY ScanAssumption DEF Resting, Threads

LEMMA InitCastellsInv == ScanInit => CastellsInv
<1> SUFFICES ASSUME ScanInit PROVE CastellsInv
  OBVIOUS
<1> USE ScanAssumption DEF ScanInit
<1>1. /\ published \in [Auctions -> SUBSET LotIds] /\ always \in [Auctions -> SUBSET LotIds]
      /\ always = published
  OBVIOUS
<1>2. flaw \in [Auctions -> [LotIds -> Flaws]] /\ conflicting \in SUBSET Auctions
  <2>1. Flawless \in [Auctions -> [LotIds -> Flaws]]
    BY DEF Flawless, Flaws
  <2>2. \A g \in Auctions, l \in LotIds, f \in Flaws :
          [Flawless EXCEPT ![g][l] = f] \in [Auctions -> [LotIds -> Flaws]]
    BY <2>1
  <2>3. flaw \in [Auctions -> [LotIds -> Flaws]]
    <3>1. CASE flaw = Flawless
      BY <2>1, <3>1
    <3>2. CASE \E g \in Auctions, l \in LotIds, f \in Flaws : flaw = [Flawless EXCEPT ![g][l] = f]
      <4>1. PICK g \in Auctions, l \in LotIds, f \in Flaws : flaw = [Flawless EXCEPT ![g][l] = f]
        BY <3>2
      <4> QED BY <2>2, <4>1
    <3> QED BY <3>1, <3>2
  <2>4. conflicting \in SUBSET Auctions
    OBVIOUS
  <2> QED BY <2>3, <2>4
<1>3. title \in [Auctions -> Titles]
  BY DEF Titles
<1>4. \A w \in Workers : worker[w] = Resting /\ ~Busy(w)
  BY RestingType DEF Busy
<1>5. worker \in [Workers -> Threads]
  BY RestingType
<1>6. ScanTypeOK
  <2>1. \A w \in Workers :
          /\ worker[w].group = NoAuction /\ worker[w].cursor = 0
          /\ worker[w].visited = {} /\ worker[w].rows = {}
    BY <1>4 DEF Resting
  <2>2. /\ receipt \in [Auctions -> Statuses] /\ listed \in [Auctions -> SUBSET LotIds]
        /\ requests \in 0..MaxRequests /\ faults \in 0..MaxFaults /\ changes \in 0..MaxChanges
        /\ 0 \in 0..NumLots
    BY DEF Statuses
  <2> QED BY <1>1, <1>2, <1>3, <2>1, <2>2 DEF ScanTypeOK
<1>7. LocalsInv
  BY <1>5 DEF LocalsInv
<1>8. SiteInv
  BY <1>1 DEF SiteInv
<1>9. ReadInv /\ CountInv
  BY <1>4 DEF ReadInv, CountInv
<1>10. AuthorityIsTrue /\ PartialNeedsCause
  BY DEF AuthorityIsTrue, PartialNeedsCause
<1> QED BY <1>6, <1>7, <1>8, <1>9, <1>10 DEF CastellsInv

-----------------------------------------------------------------------------
(* How a group ends *)

\* Rows without a blemish list every lot they show.
LEMMA CleanShowsAll ==
  ASSUME NEW rows \in SUBSET AllRows, ~Blemished(rows), NEW r \in rows
  PROVE  r.lot \in Clean(rows)
<1>1. r.lot \in LotIds /\ r \in Shaped(rows)
  BY DEF Blemished, AllRows
<1>2. {q \in Shaped(rows) : q.lot = r.lot} = {r}
  BY <1>1 DEF Blemished
<1> QED BY <1>1, <1>2, FS_Singleton DEF Clean

\* What a thread may settle its group with.
Settlement(w, status, lots) ==
  /\ status \in {"complete", "partial", "failed"} /\ lots \subseteq LotIds
  /\ status = "complete" => \/ worker[w].group \in veiled'
                            \/ always[worker[w].group] \subseteq lots
  /\ status # "complete" =>
       \/ NumLots >= MaxPages * PageSize
       \/ worker[w].group \in troubled' \union conflicting
       \/ flaw[worker[w].group] # Flawless[worker[w].group]
       \/ expired \/ requests' = MaxRequests

\* To settle a group in this way keeps the invariant.
LEMMA SettleKeeps ==
  ASSUME CastellsInv, NEW w \in Workers, Busy(w), NEW status, NEW lots,
         Settle(w, status, lots), Settlement(w, status, lots),
         UNCHANGED <<siteVars, phase, relevant, expired, changes>>, phase = "groups",
         requests' \in requests..MaxRequests, faults' \in 0..MaxFaults,
         troubled \subseteq troubled', troubled' \subseteq Auctions,
         veiled \subseteq veiled', veiled' \subseteq Auctions
  PROVE  CastellsInv'
<1> DEFINE g == worker[w].group
<1>1. /\ g \in Auctions /\ worker \in [Workers -> Threads]
  BY DEF CastellsInv, LocalsInv, Threads, Busy
<1>2. /\ worker' = [worker EXCEPT ![w] = Resting]
      /\ receipt' = [receipt EXCEPT ![g] = status]
      /\ listed' = [listed EXCEPT ![g] = lots]
  BY DEF Settle
<1>3. worker' \in [Workers -> Threads]
  BY <1>1, <1>2, RestingType
<1>4. \A v \in Workers : Busy(v)' => Busy(v) /\ worker'[v] = worker[v]
  BY <1>1, <1>2, RestingType DEF Busy
<1>5. receipt' \in [Auctions -> Statuses] /\ listed' \in [Auctions -> SUBSET LotIds]
  BY <1>1, <1>2 DEF CastellsInv, ScanTypeOK, Settlement, Statuses
<1>6. requests \in Nat /\ requests' \in 0..MaxRequests /\ requests <= requests'
  BY ScanAssumption DEF CastellsInv, ScanTypeOK
<1>7. \A v \in Workers :
        /\ worker'[v].group \in Auctions \union {NoAuction}
        /\ worker'[v].cursor \in 0..NumLots /\ worker'[v].visited \subseteq 0..NumLots
        /\ \A r \in worker'[v].rows : r.lot \in LotIds
  BY <1>3 DEF Threads, AllRows
<1>8. ScanTypeOK'
  BY <1>5, <1>6, <1>7 DEF CastellsInv, ScanTypeOK, siteVars
<1>9. LocalsInv'
  BY <1>3 DEF LocalsInv
<1>10. SiteInv'
  BY DEF CastellsInv, SiteInv, siteVars
<1>11. ReadInv'
  BY <1>4 DEF CastellsInv, ReadInv, siteVars
<1>12. CountInv'
  BY <1>4 DEF CastellsInv, CountInv, Fine, siteVars
<1>13. AuthorityIsTrue'
  <2> SUFFICES ASSUME NEW h \in Auctions \ veiled', receipt'[h] = "complete"
               PROVE  always[h] \subseteq listed'[h]
    BY DEF AuthorityIsTrue, siteVars
  <2>1. CASE h = g
    BY <1>1, <1>2, <2>1 DEF CastellsInv, ScanTypeOK, Settlement
  <2>2. CASE h # g
    BY <1>1, <1>2, <2>2 DEF CastellsInv, ScanTypeOK, AuthorityIsTrue
  <2> QED BY <2>1, <2>2
<1>14. PartialNeedsCause'
  <2> SUFFICES ASSUME NEW h \in Auctions, receipt'[h] \in {"partial", "failed"},
                      NumLots < MaxPages * PageSize
               PROVE  \/ h \in troubled' \union conflicting
                      \/ flaw[h] # Flawless[h]
                      \/ expired \/ requests' = MaxRequests
    BY DEF PartialNeedsCause, PagesSuffice, siteVars, Flawless
  <2>0. ~ (NumLots >= MaxPages * PageSize)
    BY ScanAssumption
  <2>1. CASE h = g
    BY <1>1, <1>2, <2>0, <2>1 DEF CastellsInv, ScanTypeOK, Settlement
  <2>2. CASE h # g
    <3>1. receipt[h] \in {"partial", "failed"}
      BY <1>1, <1>2, <2>2 DEF CastellsInv, ScanTypeOK
    <3>2. \/ h \in troubled \union conflicting
          \/ flaw[h] # Flawless[h]
          \/ expired \/ requests = MaxRequests
      BY <3>1 DEF CastellsInv, PartialNeedsCause, PagesSuffice
    <3>3. requests = MaxRequests => requests' = MaxRequests
      BY <1>6, ScanAssumption
    <3> QED BY <3>2, <3>3
  <2> QED BY <2>1, <2>2
<1> QED BY <1>8, <1>9, <1>10, <1>11, <1>12, <1>13, <1>14 DEF CastellsInv

LEMMA CursorsAreFinite == IsFiniteSet(0..NumLots)
<1>1. 0 \in Int /\ NumLots \in Int
  BY ScanAssumption
<1> QED BY <1>1, FS_Interval

\* To go on to another page keeps it, too, if the rows show enough.
LEMMA GoOnKeeps ==
  ASSUME CastellsInv, NEW w \in Workers, Busy(w), NEW cursor \in 0..NumLots,
         NEW rows \in SUBSET AllRows, worker[w].rows \subseteq rows,
         worker' = [worker EXCEPT ![w].cursor = cursor, ![w].rows = rows,
                                  ![w].visited = @ \union {worker[w].cursor}],
         \A l \in always[worker[w].group] :
           (\E c \in worker[w].visited \union {worker[w].cursor, cursor} : l <= c) =>
             \E r \in rows : r.lot = l,
         (worker[w].group \notin troubled' /\ flaw[worker[w].group] = Flawless[worker[w].group]) =>
           /\ \A r \in rows : r.form = "lot" /\ r.copy = 1
           /\ worker[w].cursor + PageSize <= cursor,
         UNCHANGED <<siteVars, phase, relevant, expired, changes, receipt, listed>>,
         phase = "groups",
         requests' \in requests..MaxRequests, faults' \in 0..MaxFaults,
         troubled \subseteq troubled', troubled' \subseteq Auctions,
         veiled \subseteq veiled', veiled' \subseteq Auctions
  PROVE  CastellsInv'
<1> DEFINE me == worker[w]
           next == worker'[w]
<1>1. /\ worker \in [Workers -> Threads] /\ me \in Threads
      /\ me.group \in Auctions
  BY DEF CastellsInv, LocalsInv, Threads, Busy
<1>2. next = [group |-> me.group, cursor |-> cursor,
              visited |-> me.visited \union {me.cursor}, rows |-> rows]
  BY <1>1 DEF Threads
<1>3. \A v \in Workers : v # w => worker'[v] = worker[v]
  BY <1>1
<1>4. next \in Threads
  BY <1>1, <1>2 DEF Threads
<1>5. worker' \in [Workers -> Threads]
  BY <1>1, <1>3, <1>4
<1>6. requests \in Nat /\ requests' \in 0..MaxRequests /\ requests <= requests'
  BY ScanAssumption DEF CastellsInv, ScanTypeOK
<1>7. \A v \in Workers :
        /\ worker'[v].group \in Auctions \union {NoAuction}
        /\ worker'[v].cursor \in 0..NumLots /\ worker'[v].visited \subseteq 0..NumLots
        /\ \A r \in worker'[v].rows : r.lot \in LotIds
  BY <1>5 DEF Threads, AllRows
<1>8. ScanTypeOK'
  BY <1>6, <1>7 DEF CastellsInv, ScanTypeOK, siteVars
<1>9. LocalsInv'
  BY <1>5 DEF LocalsInv
<1>10. SiteInv'
  BY DEF CastellsInv, SiteInv, siteVars
<1>11. ReadInv'
  <2> SUFFICES ASSUME NEW v \in Workers, Busy(v)',
                      NEW c \in worker'[v].visited \union {worker'[v].cursor},
                      NEW l \in always[worker'[v].group], l <= c
               PROVE  \E r \in worker'[v].rows : r.lot = l
    BY DEF ReadInv, siteVars
  <2>1. CASE v = w
    BY <1>2, <2>1
  <2>2. CASE v # w
    <3>1. worker'[v] = worker[v] /\ Busy(v)
      BY <1>3, <2>2 DEF Busy
    <3>2. ReadInv
      BY DEF CastellsInv
    <3> QED BY <3>1, <3>2 DEF ReadInv
  <2> QED BY <2>1, <2>2
<1>12. ASSUME me.group \notin troubled', flaw[me.group] = Flawless[me.group]
       PROVE  /\ \A r \in next.rows : r.form = "lot" /\ r.copy = 1
              /\ \A c \in next.visited : c < next.cursor
              /\ next.cursor >= Cardinality(next.visited) * PageSize
  <2>1. Fine(me.group)
    BY <1>12 DEF Fine
  <2>2. (\A r \in rows : r.form = "lot" /\ r.copy = 1) /\ me.cursor + PageSize <= cursor
    BY <1>12
  <2>3. (\A c \in me.visited : c < me.cursor)
        /\ me.cursor >= Cardinality(me.visited) * PageSize
    BY <2>1 DEF CastellsInv, CountInv
  <2>4. me.visited \subseteq 0..NumLots /\ me.cursor \in 0..NumLots
    BY <1>1 DEF Threads
  <2>5. \A c \in me.visited \union {me.cursor} : c < cursor
    BY <2>2, <2>3, <2>4, ScanAssumption
  <2>6. IsFiniteSet(me.visited) /\ me.cursor \notin me.visited
    <3>1. me.cursor \notin me.visited
      BY <2>3, <2>4
    <3> QED BY <2>4, <3>1, CursorsAreFinite, FS_Subset
  <2>7. /\ Cardinality(me.visited) \in Nat
        /\ Cardinality(me.visited \union {me.cursor}) = Cardinality(me.visited) + 1
    BY <2>6, FS_CardinalityType, FS_AddElement
  <2>8. (Cardinality(me.visited) + 1) * PageSize <= cursor
    <3>1. PICK n \in Nat : n = Cardinality(me.visited)
      BY <2>7
    <3>2. n * PageSize \in Nat /\ (n + 1) * PageSize = n * PageSize + PageSize
      BY ScanAssumption
    <3> QED BY <2>2, <2>3, <2>4, <3>1, <3>2, ScanAssumption
  <2> HIDE DEF next, me
  <2>9. next.rows = rows /\ next.cursor = cursor /\ next.visited = me.visited \union {me.cursor}
    BY <1>2
  <2>10. cursor >= Cardinality(next.visited) * PageSize
    <3>1. Cardinality(next.visited) * PageSize <= cursor
      BY <2>7, <2>8, <2>9
    <3>2. PICK n \in Nat : n = Cardinality(next.visited)
      BY <2>7, <2>9
    <3>3. n * PageSize \in Nat
      BY <3>2, ScanAssumption
    <3> QED BY <3>1, <3>2, <3>3
  <2> QED BY <2>2, <2>5, <2>9, <2>10
<1>15. CountInv'
  <2> SUFFICES ASSUME NEW v \in Workers, Busy(v)', Fine(worker[v].group)'
               PROVE  /\ \A r \in worker'[v].rows : r.form = "lot" /\ r.copy = 1
                      /\ \A c \in worker'[v].visited : c < worker'[v].cursor
                      /\ worker'[v].cursor >= Cardinality(worker'[v].visited) * PageSize
    BY DEF CountInv
  <2>1. worker'[v].group \notin troubled' /\ flaw[worker'[v].group] = Flawless[worker'[v].group]
    BY DEF Fine, siteVars, Flawless
  <2>2. CASE v = w
    <3>1. next.group = me.group
      BY <1>2
    <3> QED BY <1>12, <2>1, <2>2, <3>1
  <2>3. CASE v # w
    <3>1. worker'[v] = worker[v] /\ Busy(v)
      BY <1>3, <2>3 DEF Busy
    <3>2. Fine(worker[v].group)
      BY <2>1, <3>1 DEF Fine
    <3> QED BY <3>1, <3>2 DEF CastellsInv, CountInv
  <2> QED BY <2>2, <2>3
<1>13. AuthorityIsTrue'
  BY DEF CastellsInv, AuthorityIsTrue, siteVars
<1>14. PartialNeedsCause'
  BY <1>6, ScanAssumption DEF CastellsInv, PartialNeedsCause, PagesSuffice, siteVars, Flawless
<1> QED BY <1>8, <1>9, <1>10, <1>11, <1>15, <1>13, <1>14 DEF CastellsInv

\* The rows a group ends with may settle it.
LEMMA EndSettles ==
  ASSUME NEW w \in Workers, NEW rows \in SUBSET AllRows, NEW issue \in BOOLEAN,
         ~issue => \/ worker[w].group \in veiled'
                   \/ \A l \in always[worker[w].group] : \E r \in rows : r.lot = l,
         (/\ worker[w].group \notin troubled'
          /\ flaw[worker[w].group] = Flawless[worker[w].group]) =>
           \A r \in rows : r.form = "lot" /\ r.copy = 1,
         issue => Settlement(w, "failed", {})
  PROVE  Settlement(w, StatusOf(worker[w].group, rows, issue), Clean(rows))
<1> DEFINE g == worker[w].group
           status == StatusOf(g, rows, issue)
<1>1. status \in {"complete", "partial"} /\ Clean(rows) \subseteq LotIds
  BY DEF StatusOf, Clean
<1>2. CASE status = "complete"
  <2>1. ~issue /\ ~Blemished(rows)
    BY <1>2 DEF StatusOf
  <2> QED BY <1>1, <1>2, <2>1, CleanShowsAll DEF Settlement
<1>3. CASE status # "complete"
  <2>1. CASE issue
    BY <1>1, <1>3, <2>1 DEF Settlement
  <2>2. CASE ~issue /\ g \notin troubled' /\ flaw[g] = Flawless[g]
    <3>1. \A r \in rows : r.form = "lot" /\ r.copy = 1 /\ r \in AllRows
      BY <2>2
    <3>2. ~Blemished(rows)
      BY <3>1 DEF Blemished, Shaped, AllRows
    <3> QED BY <1>1, <1>3, <2>2, <3>2 DEF Settlement, StatusOf, Conflicts
  <2>3. CASE g \in troubled' \/ flaw[g] # Flawless[g]
    BY <1>1, <1>3, <2>3 DEF Settlement
  <2> QED BY <2>1, <2>2, <2>3
<1> QED BY <1>2, <1>3

LEMMA ThreadType ==
  ASSUME CastellsInv, NEW w \in Workers, Busy(w)
  PROVE  /\ worker[w] \in Threads /\ worker[w].rows \in SUBSET AllRows
         /\ worker[w].cursor \in 0..NumLots /\ worker[w].visited \subseteq 0..NumLots
         /\ worker[w].group \in Auctions
<1>1. worker[w] \in Threads
  BY DEF CastellsInv, LocalsInv
<1> QED BY <1>1 DEF Threads, Busy

\* The rows a thread has read of a group with which nothing is wrong.
LEMMA RowsInHand ==
  ASSUME CastellsInv, NEW w \in Workers, Busy(w), troubled \subseteq troubled'
  PROVE  (/\ worker[w].group \notin troubled'
          /\ flaw[worker[w].group] = Flawless[worker[w].group]) =>
           \A r \in worker[w].rows : r.form = "lot" /\ r.copy = 1
  BY DEF CastellsInv, CountInv, Fine

LEMMA BreakOffSettles ==
  ASSUME CastellsInv, NEW w \in Workers, Busy(w), BreaksOff(w), Settlement(w, "failed", {}),
         troubled \subseteq troubled'
  PROVE  \E status, lots : Settle(w, status, lots) /\ Settlement(w, status, lots)
<1>1. CASE Mappings(worker[w].rows) = {}
  BY <1>1 DEF BreaksOff
<1>2. CASE Mappings(worker[w].rows) # {}
  <2>1. Settle(w, StatusOf(worker[w].group, worker[w].rows, TRUE), Clean(worker[w].rows))
    BY <1>2 DEF BreaksOff, Ends
  <2>2. Settlement(w, StatusOf(worker[w].group, worker[w].rows, TRUE), Clean(worker[w].rows))
    BY ThreadType, RowsInHand, EndSettles
  <2> QED BY <2>1, <2>2
<1> QED BY <1>1, <1>2

-----------------------------------------------------------------------------
(* What one request does *)

LEMMA PagesOfSite ==
  ASSUME CastellsInv PROVE SiteTypes
  BY DEF CastellsInv, ScanTypeOK, SiteTypes

\* With what it has read up to the end of a page a thread has seen what was open throughout.
LEMMA SeenSoFar ==
  ASSUME CastellsInv, NEW w \in Workers, Busy(w),
         NEW l \in always[worker[w].group],
         \/ \E c \in worker[w].visited \union {worker[w].cursor} : l <= c
         \/ ShortPage(Page(worker[w].group, worker[w].cursor))
         \/ /\ Page(worker[w].group, worker[w].cursor) # {}
            /\ l <= LastRow(Page(worker[w].group, worker[w].cursor)).lot
  PROVE  \E r \in worker[w].rows \union Page(worker[w].group, worker[w].cursor) : r.lot = l
<1> DEFINE g == worker[w].group
           c == worker[w].cursor
<1>1. g \in Auctions /\ c \in Int /\ SiteTypes
  BY ThreadType, PagesOfSite
<1>2. l \in published[g] /\ l \in Int
  BY <1>1 DEF CastellsInv, SiteInv, ScanTypeOK, LotIds
<1>3. CASE \E k \in worker[w].visited \union {c} : l <= k
  BY <1>3 DEF CastellsInv, ReadInv
<1>4. CASE l > c /\ (ShortPage(Page(g, c)) \/ (Page(g, c) # {} /\ l <= LastRow(Page(g, c)).lot))
  BY <1>1, <1>2, <1>4, PageShows
<1>5. l <= c \/ l > c
  BY <1>1, <1>2
<1> QED BY <1>3, <1>4, <1>5

\* A page that is read as it was sent or not at all, with a link or without.
LEMMA ReceiveKeeps ==
  ASSUME CastellsInv, NEW w \in Workers, Requests(w), NEW p, ~Veiled(p),
         Decode(p).ok => Decode(p).rows = Page(worker[w].group, worker[w].cursor),
         NEW more \in BOOLEAN,
         \/ worker[w].group \in troubled'
         \/ p \in Answers(Page(worker[w].group, worker[w].cursor), more),
         NEW link \in {"none", "onward", "back", "foreign"}, Receives(w, p, link),
         link = "onward" =>
           LET page == Page(worker[w].group, worker[w].cursor)
           IN  page # {} /\ Beyond(worker[w].group, LastRow(page).lot) # {},
         link \in {"back", "foreign"} => worker[w].group \in troubled',
         faults' \in 0..MaxFaults, troubled \subseteq troubled', troubled' \subseteq Auctions
  PROVE  CastellsInv'
<1> DEFINE g == worker[w].group
           c == worker[w].cursor
           page == Page(g, c)
           rows == worker[w].rows \union page
           sound == g \notin troubled' /\ flaw[g] = Flawless[g]
<1>1. /\ Busy(w) /\ phase = "groups" /\ requests' \in requests..MaxRequests
      /\ UNCHANGED <<siteVars, phase, relevant, expired, changes>>
  BY ScanAssumption DEF Requests, Starved, CastellsInv, ScanTypeOK
<1>2. /\ g \in Auctions /\ c \in Int /\ c \in 0..NumLots /\ SiteTypes
      /\ worker[w].rows \in SUBSET AllRows
  BY <1>1, ThreadType, PagesOfSite
<1>3. page \in SUBSET AllRows /\ rows \in SUBSET AllRows
  BY <1>2, PageIsHead, BeyondRows
<1>4. sound => (\A r \in page : r.form = "lot" /\ r.copy = 1)
               /\ (\A r \in rows : r.form = "lot" /\ r.copy = 1)
  BY <1>1, <1>2, SoundRows, RowsInHand
<1>10. veiled' = veiled /\ veiled \subseteq Auctions
  BY DEF Receives, CastellsInv, ScanTypeOK
<1>5. ASSUME NEW status, NEW lots, Settle(w, status, lots), Settlement(w, status, lots)
      PROVE  CastellsInv'
  BY <1>1, <1>5, <1>10, SettleKeeps
<1>6. CASE ~Decode(p).ok
  <2>1. BreaksOff(w)
    BY <1>6 DEF Receives
  <2>2. ~sound
    <3> SUFFICES ASSUME sound PROVE FALSE
      OBVIOUS
    <3>1. IsFiniteSet(page) /\ Cardinality(page) <= PageSize
      BY <1>2, PageIsHead, PageFits
    <3>2. (\A r \in page : r.form = "lot") /\ \A q, r \in page : q.lot = r.lot => q = r
      BY <1>3, <1>4 DEF AllRows
    <3>3. p \in Answers(page, more)
      OBVIOUS
    <3> QED BY <1>6, <3>1, <3>2, <3>3, SoundPageIsRead
  <2>3. Settlement(w, "failed", {})
    BY <2>2 DEF Settlement
  <2>4. PICK status, lots : Settle(w, status, lots) /\ Settlement(w, status, lots)
    BY <1>1, <2>1, <2>3, BreakOffSettles
  <2> QED BY <1>5, <2>4
<1>7. ASSUME Decode(p).ok, NEW issue \in BOOLEAN, Ends(w, rows, issue),
             ~issue => ShortPage(page), issue => ~sound
      PROVE  CastellsInv'
  <2>1. ~issue => \A l \in always[g] : \E r \in rows : r.lot = l
    BY <1>1, <1>7, SeenSoFar
  <2>2. issue => Settlement(w, "failed", {})
    BY <1>7 DEF Settlement
  <2>3. Settlement(w, StatusOf(g, rows, issue), Clean(rows))
    BY <1>3, <1>4, <2>1, <2>2, EndSettles
  <2> QED BY <1>5, <1>7, <2>3 DEF Ends
<1>8. ASSUME NEW k \in 0..NumLots,
             worker' = [worker EXCEPT ![w].cursor = k, ![w].rows = rows,
                                      ![w].visited = @ \union {worker[w].cursor}],
             UNCHANGED <<receipt, listed>>,
             k \in worker[w].visited \union {c} \/ (page # {} /\ k = LastRow(page).lot),
             sound => c + PageSize <= k
      PROVE  CastellsInv'
  <2>1. ASSUME NEW l \in always[g], \E i \in worker[w].visited \union {c, k} : l <= i
        PROVE  \E r \in rows : r.lot = l
    BY <1>1, <1>8, <2>1, SeenSoFar
  <2> QED BY <1>1, <1>3, <1>4, <1>8, <1>10, <2>1, GoOnKeeps
<1>9. CASE Decode(p).ok
  <2>1. Decode(p).rows = page
    BY <1>9
  <2>2. Continues(w, page, link)
    BY <1>9, <2>1 DEF Receives
  <2>3. page # {} => LastRow(page).lot \in 0..NumLots
    BY <1>2, <1>3, PageIsHead, ScanAssumption DEF AllRows, LotIds
  <2>4. CASE link = "foreign"
    <3>1. Ends(w, rows, TRUE)
      BY <2>2, <2>4 DEF Continues
    <3> QED BY <1>7, <1>9, <2>4, <3>1
  <2>5. CASE link = "back"
    <3>1. PICK k \in worker[w].visited \union {c} :
            /\ worker' = [worker EXCEPT ![w].cursor = k, ![w].rows = rows,
                                        ![w].visited = @ \union {worker[w].cursor}]
            /\ UNCHANGED <<receipt, listed>>
      BY <2>2, <2>5 DEF Continues
    <3>2. k \in 0..NumLots
      BY <1>1, <3>1, ThreadType
    <3> QED BY <1>8, <2>5, <3>1, <3>2
  <2>6. CASE link = "onward"
    <3>1. /\ worker' = [worker EXCEPT ![w].cursor = LastRow(page).lot, ![w].rows = rows,
                                      ![w].visited = @ \union {worker[w].cursor}]
          /\ UNCHANGED <<receipt, listed>>
      BY <2>2, <2>6 DEF Continues
    <3>2. page # {} /\ ~ShortPage(page)
      BY <1>2, <2>6, OnwardIsFull
    <3>3. sound => c + PageSize <= LastRow(page).lot
      BY <1>2, <3>2, FullPageReaches
    <3> QED BY <1>8, <2>3, <3>1, <3>2, <3>3
  <2>7. CASE link = "none" /\ ShortPage(page)
    <3>1. Ends(w, rows, FALSE)
      BY <2>2, <2>7 DEF Continues
    <3> QED BY <1>7, <1>9, <2>7, <3>1
  <2>8. CASE link = "none" /\ ~ShortPage(page)
    <3>1. page # {}
      BY <2>8, FS_EmptySet, ScanAssumption DEF ShortPage
    <3>2. LastRow(page) \in page
      BY <1>2, <3>1, PageIsHead
    <3>3. CASE LastRow(page).form = "junk"
      <4>1. Ends(w, rows, TRUE)
        BY <2>2, <2>8, <3>3 DEF Continues
      <4>2. ~sound
        BY <1>4, <3>2, <3>3
      <4> QED BY <1>7, <1>9, <4>1, <4>2
    <3>4. CASE LastRow(page).form # "junk"
      <4>1. /\ worker' = [worker EXCEPT ![w].cursor = LastRow(page).lot, ![w].rows = rows,
                                        ![w].visited = @ \union {worker[w].cursor}]
            /\ UNCHANGED <<receipt, listed>>
        BY <2>2, <2>8, <3>4 DEF Continues
      <4>2. sound => c + PageSize <= LastRow(page).lot
        BY <1>2, <2>8, FullPageReaches
      <4> QED BY <1>8, <2>3, <3>1, <4>1, <4>2
    <3> QED BY <3>3, <3>4
  <2> QED BY <2>4, <2>5, <2>6, <2>7, <2>8
<1> QED BY <1>6, <1>9

\* A page that the envelope of a closed auction hides ends the group with what was read
\* before it.
LEMMA VeiledEnds ==
  ASSUME CastellsInv, NEW w \in Workers, Requests(w), NEW p, Veiled(p), NEW link, Receives(w, p, link),
         faults' \in 0..MaxFaults, troubled \subseteq troubled', troubled' \subseteq Auctions
  PROVE  CastellsInv'
<1> DEFINE g == worker[w].group
           rows == worker[w].rows
<1>1. /\ Busy(w) /\ phase = "groups" /\ requests' \in requests..MaxRequests
      /\ UNCHANGED <<siteVars, phase, relevant, expired, changes>>
  BY ScanAssumption DEF Requests, Starved, CastellsInv, ScanTypeOK
<1>2. g \in Auctions /\ rows \in SUBSET AllRows /\ rows \union {} = rows
  BY <1>1, ThreadType
<1>3. veiled \subseteq veiled' /\ veiled' \subseteq Auctions /\ g \in veiled'
  BY <1>2 DEF Receives, CastellsInv, ScanTypeOK
<1>4. Decode(p).ok /\ Decode(p).rows = {}
  BY EnvelopeIsEmpty DEF Veiled, Read
<1>5. Ends(w, rows, FALSE)
  <2>1. ShortPage({})
    BY FS_EmptySet, ScanAssumption DEF ShortPage
  <2>2. Continues(w, {}, "none")
    BY <1>4 DEF Receives
  <2> QED BY <1>2, <2>1, <2>2 DEF Continues
<1>6. Settlement(w, StatusOf(g, rows, FALSE), Clean(rows))
  BY <1>1, <1>2, <1>3, RowsInHand, EndSettles
<1> QED BY <1>1, <1>3, <1>5, <1>6, SettleKeeps DEF Ends

LEMMA PageSpoilt ==
  ASSUME NEW w \in Workers, Wrong(w, TRUE)
  PROVE  worker[w].group \in troubled'
  BY DEF Wrong

LEMMA WrongIsCounted ==
  ASSUME CastellsInv, NEW w \in Workers, Busy(w), NEW blamed \in BOOLEAN, Wrong(w, blamed)
  PROVE  faults' \in 0..MaxFaults /\ troubled \subseteq troubled' /\ troubled' \subseteq Auctions
<1>1. worker[w].group \in Auctions
  BY ThreadType
<1>2. faults \in 0..MaxFaults /\ troubled \subseteq Auctions
  BY DEF CastellsInv, ScanTypeOK
<1> QED BY <1>1, <1>2, ScanAssumption DEF Wrong

\* A request that brings nothing.
LEMMA NothingReceived ==
  ASSUME CastellsInv, NEW w \in Workers, Requests(w), Wrong(w, TRUE), BreaksOff(w),
         UNCHANGED veiled
  PROVE  CastellsInv'
<1>1. /\ Busy(w) /\ phase = "groups" /\ requests' \in requests..MaxRequests
      /\ UNCHANGED <<siteVars, phase, relevant, expired, changes>>
  BY ScanAssumption DEF Requests, Starved, CastellsInv, ScanTypeOK
<1>2. faults' \in 0..MaxFaults /\ troubled \subseteq troubled' /\ troubled' \subseteq Auctions
  BY <1>1, WrongIsCounted
<1>3. Settlement(w, "failed", {})
  BY PageSpoilt DEF Settlement
<1>4. PICK status, lots : Settle(w, status, lots) /\ Settlement(w, status, lots)
  BY <1>1, <1>2, <1>3, BreakOffSettles
<1>5. veiled' \subseteq Auctions
  BY DEF CastellsInv, ScanTypeOK
<1> QED BY <1>1, <1>2, <1>4, <1>5, SettleKeeps

LEMMA FetchKeeps ==
  ASSUME CastellsInv, NEW w \in Workers, Fetch(w)
  PROVE  CastellsInv'
<1> DEFINE page == Page(worker[w].group, worker[w].cursor)
           more == MoreAfter(worker[w].group, page)
           plain == Payload({page}, {}, "none")
<1>1. Requests(w) /\ Busy(w) /\ more \in BOOLEAN
  BY DEF Fetch, Requests, MoreAfter
<1>2. plain \in Answers(page, more) /\ ~Veiled(plain) /\ Decode(plain).rows = page
  <2>1. plain \in Answers(page, more)
    BY DEF Answers, Metas
  <2>2. ~Veiled(plain)
    BY DEF Veiled, Payload
  <2> QED BY <2>1, <2>2 DEF Decode, Payload, NamesError, Read
<1>3. ASSUME NEW t \in Tries, t.first # "answered", Wrong(w, LetDown(t)),
             IF Gets(t) THEN Receives(w, plain, "none") ELSE BreaksOff(w) /\ UNCHANGED veiled
      PROVE  CastellsInv'
  <2>1. LetDown(t) \in BOOLEAN
    BY DEF LetDown
  <2>2. CASE Gets(t)
    BY <1>1, <1>2, <1>3, <2>1, <2>2, WrongIsCounted, ReceiveKeeps
  <2>3. CASE ~Gets(t)
    <3>1. t.first \in Attempt
      BY DEF Tries
    <3>2. LetDown(t) = TRUE
      BY <1>3, <2>3, <3>1 DEF LetDown, Gets, Attempt
    <3> QED BY <1>1, <1>3, <2>3, <3>2, NothingReceived
  <2> QED BY <2>2, <2>3
<1>4. ASSUME NEW p \in Garbage(page, more), Wrong(w, TRUE), Receives(w, p, "none")
      PROVE  CastellsInv'
  <2>1. faults' \in 0..MaxFaults /\ troubled \subseteq troubled' /\ troubled' \subseteq Auctions
    BY <1>1, <1>4, WrongIsCounted
  <2>2. CASE Veiled(p)
    BY <1>1, <1>4, <2>1, <2>2, VeiledEnds
  <2>3. CASE ~Veiled(p)
    <3>1. Decode(p).ok => Decode(p).rows = page
      BY <1>1, <1>4, <2>3, GarbageIsRefused
    <3> QED BY <1>1, <1>4, <2>1, <2>3, <3>1, PageSpoilt, ReceiveKeeps
  <2> QED BY <2>2, <2>3
<1>5. ASSUME NEW link \in {"back", "foreign"}, Wrong(w, TRUE), Receives(w, plain, link)
      PROVE  CastellsInv'
  BY <1>1, <1>2, <1>5, WrongIsCounted, PageSpoilt, ReceiveKeeps
<1>6. ASSUME NEW p \in Answers(page, more), NEW link \in Links(worker[w].group, page),
             UNCHANGED <<faults, troubled>>, Receives(w, p, link)
      PROVE  CastellsInv'
  <2>1. faults' \in 0..MaxFaults /\ troubled \subseteq troubled' /\ troubled' \subseteq Auctions
    BY <1>6 DEF CastellsInv, ScanTypeOK
  <2>2. /\ link \in {"none", "onward"} 
        /\ link = "onward" => page # {} /\ Beyond(worker[w].group, LastRow(page).lot) # {}
    BY <1>6 DEF Links, MoreAfter
  <2>3. CASE Veiled(p)
    BY <1>1, <1>6, <2>1, <2>3, VeiledEnds
  <2>4. CASE ~Veiled(p)
    <3>1. Decode(p).ok => Decode(p).rows = page
      BY <1>1, <1>6, <2>4, AnswersAreRead
    <3> QED BY <1>1, <1>6, <2>1, <2>2, <2>4, <3>1, ReceiveKeeps
  <2> QED BY <2>3, <2>4
<1> QED BY <1>3, <1>4, <1>5, <1>6 DEF Fetch

\* The page limit and the budget.
LEMMA StopsKeeps ==
  ASSUME CastellsInv, NEW w \in Workers, Stops(w)
  PROVE  CastellsInv'
<1> DEFINE g == worker[w].group
<1>1. /\ Busy(w) /\ phase = "groups"
      /\ UNCHANGED <<siteVars, phase, relevant, requests, expired, faults, changes, troubled, veiled>>
  BY DEF Stops
<1>2. /\ requests' \in requests..MaxRequests /\ faults' \in 0..MaxFaults
      /\ troubled' \subseteq Auctions /\ veiled' \subseteq Auctions
  BY <1>1, ScanAssumption DEF CastellsInv, ScanTypeOK
<1>3. worker[w].rows \in SUBSET AllRows /\ worker[w].cursor \in 0..NumLots
      /\ worker[w].visited \subseteq 0..NumLots
  BY <1>1, ThreadType
<1>4. ASSUME AtLimit(w), Ends(w, worker[w].rows, TRUE) PROVE CastellsInv'
  <2>1. ASSUME Fine(g) PROVE NumLots >= MaxPages * PageSize
    <3>1. /\ \A c \in worker[w].visited : c < worker[w].cursor
          /\ worker[w].cursor >= Cardinality(worker[w].visited) * PageSize
      BY <1>1, <2>1 DEF CastellsInv, CountInv
    <3>2. worker[w].cursor \notin worker[w].visited
      BY <1>3, <3>1
    <3>3. Cardinality(worker[w].visited) = MaxPages
      BY <1>4, <3>2 DEF AtLimit
    <3>4. worker[w].cursor >= MaxPages * PageSize
      BY <3>1, <3>3
    <3>5. MaxPages * PageSize \in Int
      BY ScanAssumption
    <3> QED BY <1>3, <3>4, <3>5, ScanAssumption
  <2>2. Settlement(w, "failed", {})
    BY <1>1, <2>1 DEF Settlement, Fine
  <2>3. Settlement(w, StatusOf(g, worker[w].rows, TRUE), Clean(worker[w].rows))
    BY <1>1, <1>3, <2>2, RowsInHand, EndSettles
  <2> QED BY <1>1, <1>2, <1>4, <2>3, SettleKeeps DEF Ends
<1>5. ASSUME Starved, BreaksOff(w) PROVE CastellsInv'
  <2>1. expired \/ requests = MaxRequests
    BY <1>5, ScanAssumption DEF Starved, CastellsInv, ScanTypeOK
  <2>2. Settlement(w, "failed", {})
    BY <1>1, <2>1 DEF Settlement
  <2>3. PICK status, lots : Settle(w, status, lots) /\ Settlement(w, status, lots)
    BY <1>1, <1>5, <2>2, BreakOffSettles
  <2> QED BY <1>1, <1>2, <2>3, SettleKeeps
<1> QED BY <1>4, <1>5 DEF Stops

-----------------------------------------------------------------------------
(* The other steps of the scan *)

LEMMA SiteKeeps ==
  ASSUME CastellsInv, NEW g \in Auctions, NEW l \in LotIds, AuctionChanges(g, l)
  PROVE  CastellsInv'
<1> USE ScanAssumption DEF CastellsInv, AuctionChanges
<1>1. /\ published' \in [Auctions -> SUBSET LotIds] /\ always' \in [Auctions -> SUBSET LotIds]
      /\ \A h \in Auctions : always'[h] \subseteq always[h] /\ always'[h] \subseteq published'[h]
  BY DEF ScanTypeOK, SiteInv
<1>2. changes' \in 0..MaxChanges
  BY DEF ScanTypeOK
<1>3. ScanTypeOK'
  BY <1>1, <1>2 DEF ScanTypeOK
<1>4. LocalsInv' /\ SiteInv'
  BY <1>1 DEF LocalsInv, SiteInv
<1>5. ReadInv'
  <2>1. \A w \in Workers : Busy(w)' => Busy(w) /\ worker[w].group \in Auctions
    BY ThreadType DEF Busy
  <2> QED BY <1>1, <2>1 DEF ReadInv
<1>6. CountInv'
  BY DEF CountInv, Busy, Fine, Flawless
<1>7. AuthorityIsTrue'
  BY <1>1 DEF AuthorityIsTrue, ScanTypeOK
<1>8. PartialNeedsCause'
  BY DEF PartialNeedsCause, PagesSuffice, Flawless
<1> QED BY <1>3, <1>4, <1>5, <1>6, <1>7, <1>8

LEMMA TakeKeeps ==
  ASSUME CastellsInv, NEW w \in Workers, NEW g \in Auctions, Take(w, g)
  PROVE  CastellsInv'
<1> DEFINE fresh == [Resting EXCEPT !.group = g]
<1>1. /\ fresh = [group |-> g, cursor |-> 0, visited |-> {}, rows |-> {}] /\ fresh \in Threads
  BY ScanAssumption DEF Resting, Threads
<1>2. worker' = [worker EXCEPT ![w] = fresh] /\ worker \in [Workers -> Threads]
  BY DEF Take, CastellsInv, LocalsInv
<1> HIDE DEF fresh
<1>3. worker' \in [Workers -> Threads] /\ worker'[w] = fresh
      /\ \A v \in Workers : v # w => worker'[v] = worker[v]
  BY <1>1, <1>2
<1>4. \A v \in Workers :
        /\ worker'[v].group \in Auctions \union {NoAuction}
        /\ worker'[v].cursor \in 0..NumLots /\ worker'[v].visited \subseteq 0..NumLots
        /\ \A r \in worker'[v].rows : r.lot \in LotIds
  BY <1>3 DEF Threads, AllRows
<1>5. ScanTypeOK'
  BY <1>4 DEF CastellsInv, ScanTypeOK, Take, siteVars
<1>6. LocalsInv' /\ SiteInv'
  BY <1>3 DEF CastellsInv, LocalsInv, SiteInv, Take, siteVars
<1>7. ReadInv'
  <2> SUFFICES ASSUME NEW v \in Workers, Busy(v)',
                      NEW c \in worker'[v].visited \union {worker'[v].cursor},
                      NEW l \in always[worker'[v].group], l <= c
               PROVE  \E r \in worker'[v].rows : r.lot = l
    BY DEF ReadInv, Take, siteVars
  <2>1. CASE v = w
    <3>1. c = 0 /\ l \in always[g]
      BY <1>1, <1>3, <2>1
    <3>2. l \in LotIds
      BY <3>1 DEF CastellsInv, ScanTypeOK
    <3> QED BY <3>1, <3>2, ScanAssumption DEF LotIds
  <2>2. CASE v # w
    <3>1. worker'[v] = worker[v] /\ Busy(v)
      BY <1>3, <2>2 DEF Busy
    <3> QED BY <3>1 DEF CastellsInv, ReadInv
  <2> QED BY <2>1, <2>2
<1>8. CountInv'
  <2> SUFFICES ASSUME NEW v \in Workers, Busy(v)', Fine(worker[v].group)'
               PROVE  /\ \A r \in worker'[v].rows : r.form = "lot" /\ r.copy = 1
                      /\ \A c \in worker'[v].visited : c < worker'[v].cursor
                      /\ worker'[v].cursor >= Cardinality(worker'[v].visited) * PageSize
    BY DEF CountInv
  <2>1. CASE v = w
    <3>1. worker'[v].rows = {} /\ worker'[v].visited = {} /\ worker'[v].cursor = 0
      BY <1>1, <1>3, <2>1
    <3>2. Cardinality({}) * PageSize = 0
      BY FS_EmptySet, ScanAssumption
    <3> QED BY <3>1, <3>2
  <2>2. CASE v # w
    <3>1. worker'[v] = worker[v] /\ Busy(v)
      BY <1>3, <2>2 DEF Busy
    <3>2. Fine(worker[v].group)
      BY <3>1 DEF Fine, Take, siteVars, Flawless
    <3> QED BY <3>1, <3>2 DEF CastellsInv, CountInv
  <2> QED BY <2>1, <2>2
<1>9. AuthorityIsTrue'
  BY DEF CastellsInv, AuthorityIsTrue, Take, siteVars
<1>10. PartialNeedsCause'
  BY DEF CastellsInv, PartialNeedsCause, PagesSuffice, Take, siteVars, Flawless
<1> QED BY <1>5, <1>6, <1>7, <1>8, <1>9, <1>10 DEF CastellsInv

\* Steps that leave the threads alone.
LEMMA QuietKeeps ==
  ASSUME CastellsInv, Expires \/ Discover \/ DiscoverFails \/ Finish \/ UNCHANGED scanVars
  PROVE  CastellsInv'
<1> USE ScanAssumption DEF siteVars, scanVars, Expires, Discover, DiscoverFails, Finish
<1>1. UNCHANGED <<siteVars, worker, listed, changes, troubled, veiled>>
  OBVIOUS
<1>2. requests \in 0..MaxRequests /\ faults \in 0..MaxFaults /\ receipt \in [Auctions -> Statuses]
      /\ (phase = "discover" => requests = 0)
  BY DEF CastellsInv, ScanTypeOK, LocalsInv
<1>3. requests' \in 0..MaxRequests /\ faults' \in 0..MaxFaults
  BY <1>2
<1>4. phase' \in {"discover", "groups", "done", "failed"} /\ (phase' = "discover" => requests' = 0)
      /\ expired' \in BOOLEAN
  BY <1>2 DEF CastellsInv, ScanTypeOK
<1>5. relevant' \subseteq Auctions /\ receipt' \in [Auctions -> Statuses]
  BY <1>2 DEF CastellsInv, ScanTypeOK, HomeLists, Statuses
<1>6. \A g \in Auctions : receipt'[g] \in {"complete", "partial", "failed"} =>
        /\ receipt'[g] = receipt[g] /\ (expired => expired')
        /\ (requests = MaxRequests => requests' = MaxRequests)
  BY <1>2
<1>7. ScanTypeOK'
  BY <1>1, <1>3, <1>4, <1>5 DEF CastellsInv, ScanTypeOK
<1>8. LocalsInv' /\ SiteInv'
  BY <1>1, <1>4 DEF CastellsInv, LocalsInv, SiteInv
<1>9. ReadInv' /\ CountInv'
  BY <1>1 DEF CastellsInv, ReadInv, CountInv, Busy, Fine, Flawless
<1>10. AuthorityIsTrue'
  BY <1>1, <1>6 DEF CastellsInv, AuthorityIsTrue
<1>11. PartialNeedsCause'
  BY <1>1, <1>6 DEF CastellsInv, PartialNeedsCause, PagesSuffice, Flawless
<1> QED BY <1>7, <1>8, <1>9, <1>10, <1>11 DEF CastellsInv

LEMMA NextCastellsInv == CastellsInv /\ [ScanNext]_scanVars => CastellsInv'
<1> SUFFICES ASSUME CastellsInv, [ScanNext]_scanVars PROVE CastellsInv'
  OBVIOUS
<1>1. ASSUME NEW g \in Auctions, NEW l \in LotIds, AuctionChanges(g, l) PROVE CastellsInv'
  BY <1>1, SiteKeeps
<1>2. ASSUME NEW w \in Workers, NEW g \in Auctions, Take(w, g) PROVE CastellsInv'
  BY <1>2, TakeKeeps
<1>3. ASSUME NEW w \in Workers, Stops(w) PROVE CastellsInv'
  BY <1>3, StopsKeeps
<1>4. ASSUME NEW w \in Workers, Fetch(w) PROVE CastellsInv'
  BY <1>4, FetchKeeps
<1>5. CASE Expires \/ Discover \/ DiscoverFails \/ Finish \/ UNCHANGED scanVars
  BY <1>5, QuietKeeps
<1>6. CASE Rests
  BY <1>6, QuietKeeps DEF Rests
<1> QED BY <1>1, <1>2, <1>3, <1>4, <1>5, <1>6 DEF ScanNext

-----------------------------------------------------------------------------
(* Theorems about the scan *)

\* The scan's state is well typed, and it never makes more requests than it may.
THEOREM ScanTypes == ScanSpec => []ScanTypeOK
<1>1. CastellsInv => ScanTypeOK
  BY DEF CastellsInv
<1> QED BY <1>1, InitCastellsInv, NextCastellsInv, PTL DEF ScanSpec

\* An authoritative receipt of the scan leaves out no lot that was open all through it, if
\* no page of its group came with its rows under an unknown key beside a meta envelope
\* that does not say that more follow: such a page is read as the end of an auction without lots (castells.py:583).
THEOREM AuthorityTrue == ScanSpec => []AuthorityIsTrue
<1>1. CastellsInv => AuthorityIsTrue
  BY DEF CastellsInv
<1> QED BY <1>1, InitCastellsInv, NextCastellsInv, PTL DEF ScanSpec

\* A group is complete unless something was wrong with it, or the budget of the scan or
\* its time ran out.
THEOREM PartialHasCause == ScanSpec => []PartialNeedsCause
<1>1. CastellsInv => PartialNeedsCause
  BY DEF CastellsInv
<1> QED BY <1>1, InitCastellsInv, NextCastellsInv, PTL DEF ScanSpec
=============================================================================
