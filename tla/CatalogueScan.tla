---------------------------- MODULE CatalogueScan ----------------------------
(***************************************************************************)
(* The adapters that read a catalogue by page number: Prado (one list of   *)
(* products, grouped by category), TodoRemates and Bavastro (a list of     *)
(* auctions, then the lots of each) and Remotes (one feed, then the prices *)
(* of some auctions).  One thread; the result is what the engine's         *)
(* contract check sees.                                                    *)
(*                                                                         *)
(* A shelf is a list the site shows page by page, newest first: the        *)
(* adapter asks for a number, so a list that changes between two requests  *)
(* moves under it.  The site is modelled from how the adapters use it.     *)
(***************************************************************************)
EXTENDS SourceTransport, SourceContract, SequencesExt

CONSTANTS
  Adapters,      \* the adapters looked at
  Groups,        \* auction ids
  Lots,          \* lot ids
  GroupOf,       \* the auction of each lot
  Within,        \* pairs <<g, h>>: the id of g is part of the text of the id of h
  Home,          \* the shelf that discovery reads
  PageSize, MaxPages,
  MaxPriceFailures,  \* refusals after which Remotes stops asking for prices
  MaxFlaws,      \* bound: records with a flaw, and auctions that are closed
  MaxFaults,     \* bound: requests that fail
  MaxChanges     \* bound: changes of the site during the scan

Flaws == {"none", "untitled", "junk", "hidden"}
Numbered == {"prado", "todoremates", "bavastro"}

ASSUME CatalogueAssumption ==
  /\ Adapters \subseteq Numbered \union {"remotes"}
  /\ IsFiniteSet(Lots) /\ Lots \intersect Groups = {}
  /\ GroupOf \in [Lots -> Groups] /\ Home \notin Groups
  /\ \A g \in Groups : <<g, g>> \in Within
  /\ PageSize \in Nat \ {0} /\ MaxPages \in Nat \ {0} /\ MaxPriceFailures \in Nat \ {0}
  /\ MaxFlaws \in Nat /\ MaxFaults \in Nat /\ MaxChanges \in Nat

VARIABLES
  \* the site and what the adapter is
  adapter,
  shelf,      \* what each list shows: groups or, for Prado, lots at Home, lots elsewhere
  flaw,       \* what is wrong with the record of a lot, if anything
  counted,    \* the site declares its number of pages, or of lots
  closed,     \* auctions whose detail says they are not active
  always,     \* the lots shown ever since the scan began
  withdrawn,  \* how many lots were taken from their lists since then
  \* the scan
  phase,      \* "list", "next", "price", "report", "done" or "failed"
  target,     \* the shelf being read
  page, total, rows,
  queue,      \* discovered groups still to be read, priced or reported
  refusals,   \* prices refused in a row
  groups, receipts, lots, flawless,   \* the result
  \* what happened, for the properties
  faults, changes,
  troubled    \* the lists of which a request failed, each by its group or Home

siteVars == <<adapter, shelf, flaw, counted, closed, always, withdrawn>>
readVars == <<target, page, total, rows>>
resultVars == <<groups, receipts, lots, flawless>>
vars == <<siteVars, phase, readVars, queue, refusals, resultVars, faults, changes, troubled>>

-----------------------------------------------------------------------------
(* A page of a shelf, and what the adapter makes of it.                     *)

\* The elements of a sequence that are in S, in their order.
Picked(s, S) ==
  LET at == {i \in DOMAIN s : s[i] \in S}
      nth(n) == CHOOSE i \in at : Cardinality({j \in at : j <= i}) = n
  IN [n \in 1..Cardinality(at) |-> s[nth(n)]]

Entries(s, n) ==
  SubSeq(s, (n - 1) * PageSize + 1, IF n * PageSize < Len(s) THEN n * PageSize ELSE Len(s))
Objects(s) == {i \in DOMAIN s : s[i] \in Groups \/ flaw[s[i]] # "junk"}
LastPage(s) == (Len(s) + PageSize - 1) \div PageSize
Absurd(declared) == declared > MaxPages
AtLimitLate == page > MaxPages
AtLimitEarly == page >= MaxPages - 1
AtLimit == page = MaxPages

\* X-WP-TotalPages, or the count Bavastro declares: nothing or the number.
Declared(s) == IF counted THEN LastPage(s) ELSE 0

\* _pages and _next: is the page the last one, is there more, or is the answer refused?
\* Prado ignores an absurd total, the others raise.  TodoRemates counts the objects of a
\* short page, Prado what stands on it.  The lots of Bavastro follow the link alone.
KnownFromZero(declared) == IF declared = 0 \/ Absurd(declared) THEN total ELSE declared - 1
Known(declared) == IF declared = 0 \/ Absurd(declared) THEN total ELSE declared
Verdict(declared, entries, onward) ==
  LET full == IF adapter = "todoremates" THEN Cardinality(Objects(entries)) = PageSize
              ELSE Len(entries) = PageSize
      refused == Absurd(declared) /\ adapter # "prado"
                   /\ ~(adapter = "bavastro" /\ target # Home)
      more == IF adapter = "bavastro" THEN onward \/ (target = Home /\ full)
              ELSE IF Known(declared) # 0 THEN page < Known(declared)
              ELSE full
  IN IF adapter = "remotes" THEN "last"
     ELSE IF refused THEN "refused" ELSE IF more THEN "more" ELSE "last"

-----------------------------------------------------------------------------
(* What the records of a group come to.                                     *)

\* Records skipped without an error: junk is dropped by all, and Prado and TodoRemates
\* pass over what cannot be bought.
Hidden(l) == flaw[l] = "hidden" /\ adapter \in {"prado", "todoremates"}
KeptLots == {l \in Lots : flaw[l] # "junk" /\ ~Hidden(l)}
Sound(s) == Picked(s, {l \in KeptLots : flaw[l] # "untitled"})
Malformed(s) == \E i \in DOMAIN s : flaw[s[i]] = "untitled"
OfGroup(g, s) == Picked(s, {l \in KeptLots : GroupOf[l] = g})

\* Is the inventory of a group not what it should be?  Remotes compares the number of lots
\* with the declared one, if there is one; Prado looks for the id of the group in the
\* messages of all malformed products; the others count the malformed records.
SpoiltByPrices(g, s) == refusals > 0 \/ Malformed(s)
Spoilt(g, s) ==
  \/ adapter = "remotes" /\ counted /\ Len(Sound(s)) # Len(s)
  \/ adapter = "prado" /\ \E i \in DOMAIN rows :
       flaw[rows[i]] = "untitled" /\ <<g, GroupOf[rows[i]]>> \in Within
  \/ adapter \in {"todoremates", "bavastro"} /\ Malformed(s)
Receipt(g, status, n) ==
  [group |-> g, status |-> status, authoritative |-> status = "complete", count |-> n]
ReceiptForIgnoringFlaws(g, s) == Receipt(g, "complete", Len(Sound(s)))
ReceiptForAllKept(g, s) ==
  Receipt(g, IF Spoilt(g, s) THEN "partial" ELSE "complete", Len(Picked(s, KeptLots)))
ReceiptFor(g, s) == Receipt(g, IF Spoilt(g, s) THEN "partial" ELSE "complete", Len(Sound(s)))
Pairs(g, s) == [i \in DOMAIN s |-> <<g, s[i]>>]

-----------------------------------------------------------------------------
(* The site.                                                                *)

ShelfOf(l) == IF adapter = "prado" THEN Home ELSE GroupOf[l]
Shown(l) == \E i \in DOMAIN shelf[ShelfOf(l)] : shelf[ShelfOf(l)][i] = l

\* What can be bought: the lots a complete receipt has to list.
Offered(l) == Shown(l) /\ GroupOf[l] \notin closed /\ ~Hidden(l)

\* What a list shows when the lots S are on sale.
Contents(t, S) ==
  IF adapter = "prado" THEN IF t = Home THEN S ELSE {}
  ELSE IF t = Home THEN {GroupOf[l] : l \in S} ELSE {l \in S : GroupOf[l] = t}

\* Only Bavastro tells which auctions are closed, and a feed has no other flaw than a lot
\* without its id or title.
Init ==
  /\ adapter \in Adapters
  /\ \E S \in SUBSET Lots :
       shelf = [t \in Groups \union {Home} |-> SetToSeq(Contents(t, S))]
  /\ flaw \in [Lots -> IF adapter = "remotes" THEN {"none", "untitled"} ELSE Flaws]
  /\ closed \in SUBSET (IF adapter = "bavastro" THEN Groups ELSE {})
  /\ Cardinality({l \in Lots : flaw[l] # "none"} \union closed) <= MaxFlaws
  /\ counted \in BOOLEAN
  /\ always = {l \in Lots : Offered(l)} /\ withdrawn = 0
  /\ phase = "list" /\ target = Home /\ page = 1 /\ total = 0 /\ rows = <<>>
  /\ queue = <<>> /\ refusals = 0
  /\ groups = <<>> /\ receipts = <<>> /\ lots = <<>> /\ flawless = TRUE
  /\ faults = 0 /\ changes = 0 /\ troubled = {}

Changing ==
  /\ phase \in {"list", "next"} /\ adapter # "remotes" /\ changes < MaxChanges
  /\ changes' = changes + 1
  /\ UNCHANGED <<adapter, flaw, counted, closed, phase, readVars, queue, refusals, resultVars,
                 faults, troubled>>

\* A lot appears at the head of its list, and its auction with it if it had no other.
Publish(l) ==
  /\ Changing /\ ~Shown(l)
  /\ shelf' = [t \in DOMAIN shelf |->
                 IF t = ShelfOf(l) THEN <<l>> \o shelf[t]
                 ELSE IF t = Home /\ shelf[GroupOf[l]] = <<>> THEN <<GroupOf[l]>> \o shelf[t]
                 ELSE shelf[t]]
  /\ UNCHANGED <<always, withdrawn>>

\* A lot is taken from its list, and its auction with it if it was the last.
Withdraw(l) ==
  /\ Changing /\ Shown(l)
  /\ LET left == Picked(shelf[ShelfOf(l)], Lots \ {l})
     IN shelf' = [t \in DOMAIN shelf |->
                    IF t = ShelfOf(l) THEN left
                    ELSE IF t = Home /\ left = <<>>
                           THEN Picked(shelf[t], Groups \ {GroupOf[l]})
                    ELSE shelf[t]]
  /\ always' = always \ {l} /\ withdrawn' = withdrawn + 1

-----------------------------------------------------------------------------
(* The scan.                                                                *)

Read(t, ph) ==
  /\ target' = t /\ page' = 1 /\ total' = 0 /\ rows' = <<>> /\ phase' = ph

\* A group joins the result with the lots s.
Reported(g, s) ==
  /\ groups' = Append(groups, g)
  /\ receipts' = Append(receipts, ReceiptFor(g, s))
  /\ lots' = lots \o Pairs(g, Sound(s))
  /\ flawless' = (flawless /\ ~Malformed(s))

\* A list of auctions was read: their lots come next.  Prado's products are all there is,
\* and the feed of Remotes holds the lots of all its auctions, which wait for prices.
Discovered(read) ==
  \/ /\ adapter = "prado"
     /\ rows' = read /\ flawless' = ~Malformed(read) /\ phase' = "report"
     /\ UNCHANGED <<target, page, total, queue, groups, receipts, lots>>
  \/ /\ adapter = "remotes"
     /\ queue' = read /\ phase' = "price" /\ UNCHANGED <<readVars, resultVars>>
  \/ /\ adapter \in {"todoremates", "bavastro"}
     /\ queue' = read /\ Read(Home, "next") /\ UNCHANGED resultVars

\* The lots of an auction were read.
GroupRead(read) == Reported(target, read) /\ Read(Home, "next") /\ UNCHANGED queue

\* A request or a page was not what it should be.  Discovery fails as a whole; a group
\* fails alone, and Bavastro reports its receipt without the group.
Broken(g) ==
  /\ IF g = Home THEN phase' = "failed" /\ UNCHANGED <<resultVars, readVars>>
     ELSE /\ groups' = IF adapter = "bavastro" THEN groups ELSE Append(groups, g)
          /\ receipts' = Append(receipts, Receipt(g, "failed", 0))
          /\ flawless' = FALSE /\ UNCHANGED lots
          /\ Read(Home, "next")
  /\ UNCHANGED queue

\* A page arrives with what the site declares and, if more follows, a link to it.
Receives(declared) ==
  LET entries == Entries(shelf[target], page)
      read == IF adapter = "remotes" THEN shelf[Home] ELSE rows \o entries
      verdict == Verdict(declared, entries, page * PageSize < Len(shelf[target]))
  IN \/ /\ verdict = "refused" \/ (verdict = "more" /\ AtLimit)
        /\ Broken(target)
     \/ /\ verdict = "more" /\ ~AtLimit
        /\ page' = page + 1 /\ rows' = read /\ total' = Known(declared)
        /\ UNCHANGED <<phase, target, queue, resultVars>>
     \/ /\ verdict = "last"
        /\ IF target = Home THEN Discovered(read) ELSE GroupRead(read)

Wrong(g, blamed) ==
  /\ faults < MaxFaults
  /\ faults' = faults + 1
  /\ troubled' = IF blamed THEN troubled \union {g} ELSE troubled

Fetch ==
  /\ phase = "list"
  /\ \/ \E t \in Tries : /\ t.first # "answered" /\ Wrong(target, LetDown(t))
                         /\ IF Gets(t) THEN Receives(Declared(shelf[target])) ELSE Broken(target)
     \/ adapter \in Numbered /\ Wrong(target, TRUE) /\ Receives(MaxPages + 1)
     \/ UNCHANGED <<faults, troubled>> /\ Receives(Declared(shelf[target]))
  /\ UNCHANGED <<siteVars, refusals, changes>>

\* The next auction.  Bavastro asks for its detail first, and passes over one that is not
\* active.
NextGroup ==
  /\ phase = "next" /\ queue # <<>>
  /\ queue' = Tail(queue)
  /\ LET g == Head(queue)
     IN IF adapter = "bavastro" /\ g \in closed THEN UNCHANGED <<phase, readVars>>
        ELSE Read(g, "list")
  /\ UNCHANGED <<siteVars, refusals, resultVars, faults, changes, troubled>>
DetailFails ==
  /\ phase = "next" /\ queue # <<>> /\ adapter = "bavastro"
  /\ \E t \in Tries : ~Gets(t) /\ Wrong(Head(queue), TRUE)
  /\ receipts' = Append(receipts, Receipt(Head(queue), "failed", 0))
  /\ flawless' = FALSE
  /\ queue' = Tail(queue)
  /\ UNCHANGED <<siteVars, phase, readVars, refusals, groups, lots, changes>>
\* Remotes asks for the prices of some auctions; a refusal costs only those prices, and
\* several in a row, or the time they take, end the asking.
Price ==
  /\ phase = "price" /\ queue # <<>> /\ refusals < MaxPriceFailures
  /\ queue' = Tail(queue)
  /\ \E t \in Tries :
       /\ IF t.first = "answered" THEN UNCHANGED faults
          ELSE faults < MaxFaults /\ faults' = faults + 1
       /\ refusals' = IF Gets(t) THEN 0 ELSE refusals + 1
  /\ UNCHANGED <<siteVars, phase, readVars, resultVars, changes, troubled>>
Priced ==
  /\ phase = "price"
  /\ phase' = "report" /\ queue' = shelf[Home]
  /\ UNCHANGED <<siteVars, readVars, refusals, resultVars, faults, changes, troubled>>
ReportAuction ==
  /\ phase = "report" /\ queue # <<>>
  /\ Reported(Head(queue), shelf[Head(queue)])
  /\ queue' = Tail(queue)
  /\ UNCHANGED <<siteVars, phase, readVars, refusals, faults, changes, troubled>>

\* Prado groups the products it keeps by category, in the order it meets them.
NewCategory(i) ==
  rows[i] \in KeptLots /\ \A n \in DOMAIN groups : groups[n] # GroupOf[rows[i]]
ReportCategory ==
  /\ phase = "report" /\ adapter = "prado"
  /\ \E i \in DOMAIN rows :
       /\ NewCategory(i) /\ \A j \in 1..i - 1 : ~NewCategory(j)
       /\ Reported(GroupOf[rows[i]], OfGroup(GroupOf[rows[i]], rows))
  /\ UNCHANGED <<siteVars, phase, readVars, queue, refusals, faults, changes, troubled>>

NoGroupLeft ==
  /\ phase \in {"next", "report"} /\ queue = <<>>
  /\ adapter = "prado" => \A i \in DOMAIN rows : ~NewCategory(i)
  /\ phase' = "done"
  /\ UNCHANGED <<siteVars, readVars, queue, refusals, resultVars, faults, changes, troubled>>

Rests == phase \in {"done", "failed"} /\ UNCHANGED vars

Next ==
  \/ \E l \in Lots : Publish(l) \/ Withdraw(l)
  \/ Fetch \/ NextGroup \/ DetailFails \/ Price \/ Priced
  \/ ReportAuction \/ ReportCategory \/ NoGroupLeft \/ Rests
Spec == Init /\ [][Next]_vars

-----------------------------------------------------------------------------
(* What the engine is told.                                                 *)

Result ==
  [groups |-> groups, skipped |-> <<>>, receipts |-> receipts, lots |-> lots,
   authoritative |-> flawless, omission |-> FALSE, flawless |-> flawless]
Listed(l) == \E i \in DOMAIN lots : lots[i] = <<GroupOf[l], l>>
Found(g) == \E i \in DOMAIN groups : groups[i] = g
StatusOf(g, status) ==
  \E i \in DOMAIN receipts : receipts[i].group = g /\ receipts[i].status = status

\* The engine removes what such a receipt leaves out, and the lots of the groups that a
\* scan without errors does not name.
Claimed(g) == Accepted(Result) /\ (StatusOf(g, "complete") \/ (flawless /\ ~Found(g)))

TypeOK ==
  /\ adapter \in Adapters /\ counted \in BOOLEAN /\ withdrawn \in 0..changes
  /\ flaw \in [Lots -> Flaws] /\ closed \subseteq Groups /\ always \subseteq Lots
  /\ phase \in {"list", "next", "price", "report", "done", "failed"}
  /\ target \in Groups \union {Home} /\ page \in 1..MaxPages /\ total \in Nat
  /\ \A i \in DOMAIN groups : groups[i] \in Groups
  /\ \A i \in DOMAIN receipts : receipts[i].count \in Nat
  /\ refusals \in 0..MaxPriceFailures /\ flawless \in BOOLEAN
  /\ faults \in 0..MaxFaults /\ changes \in 0..MaxChanges /\ troubled \subseteq Groups \union {Home}

\* What the engine removes was not on sale all through the scan, also when lots and
\* auctions are added while it reads.  Four things have to be excepted: something taken
\* from a list moves a lot to a page already read; a record that is no object cannot be
\* noticed; the feed of Remotes drops a malformed lot under a complete receipt when it
\* declares no number of lots; and Prado, which ignores an absurd number of pages, goes on
\* with an older one that the list has outgrown.
AuthorityIsTrue ==
  (/\ phase = "done" /\ withdrawn = 0 /\ \A l \in Lots : flaw[l] # "junk"
   /\ (adapter = "remotes" /\ ~counted) => \A l \in Lots : flaw[l] = "none"
   /\ (adapter = "prado" /\ changes > 0) =>
        Home \notin troubled /\ ~Absurd(LastPage(shelf[Home])))
  => \A l \in always : Claimed(GroupOf[l]) => Listed(l)

\* The state is well typed, and a site that stands still gives a result the engine accepts,
\* whatever records are malformed and whichever requests fail, with one exception: an
\* auction of Bavastro that cannot be read, or has more lots than the limit of pages holds.
ResultIsAccepted ==
  /\ TypeOK
  /\ (/\ phase = "done" /\ changes = 0
      /\ adapter = "bavastro" =>
           troubled = {} /\ \A g \in Groups : Len(shelf[g]) <= MaxPages * PageSize)
     => Accepted(Result)

\* A receipt that is not complete has its cause in its own group: a request for it that
\* failed, a malformed lot, or, at Prado, one of a group whose id contains its own, or so
\* many lots, those withdrawn meanwhile included, that they fill the pages an adapter
\* reads.  Prices that cannot be had never cost a receipt.
PartialNeedsCause ==
  \A g \in Groups :
    StatusOf(g, "partial") \/ StatusOf(g, "failed") =>
      \/ g \in troubled
      \/ \E l \in Lots : flaw[l] = "untitled" /\ <<g, GroupOf[l]>> \in Within
      \/ Len(shelf[g]) + withdrawn >= MaxPages * PageSize
=============================================================================
