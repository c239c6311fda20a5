--------------------------- MODULE SourceContract ---------------------------
(***************************************************************************)
(* runner.AuctionRunEngine._source_contract_error: what the engine accepts *)
(* as the result of a scan.  A result it does not accept is replaced by a  *)
(* failure of the whole source.                                            *)
(*                                                                         *)
(* A result is a record of sequences: groups, skipped (group ids), lots    *)
(* (pairs of a group and a lot id), receipts (records with group, status,  *)
(* authoritative and count), and the claims authoritative, omission and    *)
(* flawless (it reports no error).                                         *)
(***************************************************************************)
EXTENDS Integers, Sequences, FiniteSets

Elements(s) == {s[i] : i \in DOMAIN s}
Distinct(s) == Cardinality(Elements(s)) = Len(s)
GroupOfReceipts(r) == [i \in DOMAIN r.receipts |-> r.receipts[i].group]
LotCount(r, g) == Cardinality({i \in DOMAIN r.lots : r.lots[i][1] = g})

\* Every discovered group has one receipt, even if it failed; lots are distinct and
\* belong to discovered groups.
CoverageMatches(r) ==
  /\ Distinct(r.groups) /\ Distinct(GroupOfReceipts(r)) /\ Distinct(r.skipped)
  /\ Distinct(r.lots)
  /\ Elements(r.groups) \intersect Elements(r.skipped) = {}
  /\ Elements(r.groups) = Elements(GroupOfReceipts(r))
  /\ \A i \in DOMAIN r.lots : r.lots[i][1] \in Elements(r.groups)

\* A receipt counts its lots, and authority is only claimed for what is complete.
ClaimsAgree(r) ==
  /\ \A i \in DOMAIN r.receipts :
       LET receipt == r.receipts[i]
       IN /\ receipt.status # "failed" => receipt.count = LotCount(r, receipt.group)
          /\ receipt.authoritative => receipt.status = "complete"
  /\ r.authoritative =>
       /\ r.flawless
       /\ \A i \in DOMAIN r.receipts :
            r.receipts[i].status # "failed" => r.receipts[i].authoritative
  /\ r.omission => r.authoritative

Accepted(r) == CoverageMatches(r) /\ ClaimsAgree(r)
=============================================================================
