---------------------------- MODULE CastellsScan ----------------------------
(***************************************************************************)
(* sources.castells.CastellsSource.scan: a home page lists the auctions    *)
(* (groups), two workers page through the open lots of each with a keyset  *)
(* cursor, and every group gets a receipt that says whether its list of    *)
(* lots is the whole truth.  The engine removes from the inventory what an *)
(* authoritative receipt leaves out.                                       *)
(*                                                                         *)
(* The site changes while it is read.  It is modelled from how the adapter *)
(* uses it: a page holds the first PageSize open rows after the cursor, in *)
(* the order of their lots, and what it says in a form the decoder accepts *)
(* is true at that moment.  An answer is taken at one instant, so the      *)
(* request and its answer are one step; what the workers share, the        *)
(* request budget and the deadline, is read in that step under the lock.   *)
(*                                                                         *)
(* Where Reconciliation speaks of groups and lots, this module speaks of   *)
(* auctions and the ids of their lots, so that the two can be reasoned     *)
(* about side by side.                                                     *)
(***************************************************************************)
EXTENDS Integers, FiniteSets, SourceTransport

CONSTANTS
  Auctions,     \* auction ids
  NoAuction,    \* what a resting thread works on
  NumLots,      \* lot ids of a group are 1..NumLots
  Workers,      \* threads of the executor
  PageSize,     \* Limit of a page request
  MaxPages,     \* page requests for one group
  MaxRequests,  \* requests of one scan
  Capacity,     \* bound: a group publishes at most so many lots at a time
  MaxFaults,    \* bound: requests that fail and pages that cannot be read
  MaxChanges    \* bound: changes of the site during the scan

LotIds == 1..NumLots
Titles == {"plain", "ignored", "art"}
Flaws == {"none", "untitled", "junk", "doubled"}
Statuses == {"none", "skipped", "complete", "partial", "failed"}

ASSUME ScanAssumption ==
  /\ NumLots \in Nat /\ MaxFaults \in Nat /\ MaxChanges \in Nat /\ Capacity \in Nat
  /\ PageSize \in Nat \ {0} /\ MaxPages \in Nat \ {0} /\ MaxRequests \in Nat \ {0}
  /\ IsFiniteSet(Auctions) /\ NoAuction \notin Auctions

VARIABLES
  \* the site
  published,    \* the open lots of each group
  always,       \* those of them that have been open since the scan began
  flaw,         \* what is wrong with the row of a lot, if anything
  conflicting,  \* groups the home page lists twice with different data
  title,        \* of a group: "plain", "ignored" by the user, or only about "art"
  \* the scan
  phase,        \* "discover", "groups", "done" or "failed"
  relevant,     \* relevant_auctions nobody has taken yet
  worker,       \* what each thread of the executor works on
  requests,     \* _request_count
  expired,      \* the deadline has passed
  receipt,      \* status of each group's receipt
  listed,       \* the lots reported for each group
  \* what happened, for the properties
  faults, changes,
  troubled,     \* groups of which a request failed or a page was unreadable
  veiled        \* groups of which a page was taken for the end of an auction without lots

siteVars == <<published, always, flaw, conflicting, title>>
scanVars == <<siteVars, phase, relevant, worker, requests, expired, receipt, listed,
          faults, changes, troubled, veiled>>

Resting == [group |-> NoAuction, cursor |-> 0, visited |-> {}, rows |-> {}]
Busy(w) == worker[w].group # NoAuction

-----------------------------------------------------------------------------
(* Rows and pages of the site.                                              *)

\* The rows that show lot l: no title, no JSON object, or two rows that disagree.
RowsOf(l, f) ==
  CASE f = "untitled" -> {[lot |-> l, form |-> "untitled", copy |-> 1]}
    [] f = "junk"     -> {[lot |-> l, form |-> "junk", copy |-> 1]}
    [] f = "doubled"  -> [lot : {l}, form : {"lot"}, copy : {1, 2}]
    [] OTHER          -> {[lot |-> l, form |-> "lot", copy |-> 1]}

Before(q, r) == q.lot < r.lot \/ (q.lot = r.lot /\ q.copy < r.copy)
Beyond(g, cursor) ==
  UNION {RowsOf(l, flaw[g][l]) : l \in {k \in published[g] : k > cursor}}
Page(g, cursor) ==
  {r \in Beyond(g, cursor) :
     Cardinality({q \in Beyond(g, cursor) : Before(q, r)}) < PageSize}
LastRow(page) == CHOOSE r \in page : \A q \in page : q = r \/ Before(q, r)

-----------------------------------------------------------------------------
(* _decode_lot_page.  A payload is text or JSON; it may name an error; its  *)
(* rows stand under one of the known keys, or in other lists, or nowhere;   *)
(* there may be a meta envelope, which says "more" when more rows follow or *)
(* does not say so ("silent").                                              *)

Payload(known, lists, meta) ==
  [json |-> TRUE, error |-> FALSE, known |-> known, lists |-> lists, meta |-> meta]
Drifted(rows, named) == [rows |-> rows, named |-> named]

NamesError(p)     == p.error
VerifiedEmpty(p)  == p.meta = "silent"
ListCandidates(p) == p.lists

Mappings(rows) == {r \in rows : r.form # "junk"}
Shaped(rows)   == {r \in rows : r.form = "lot"}

\* _candidate_confidence: most rows are objects, most of them have an identity and
\* a title, and no identity occurs twice.
Confidence(rows) ==
  LET n == Cardinality(rows)
      m == Cardinality(Mappings(rows))
      s == Cardinality(Shaped(rows))
  IN IF n = 0 \/ n > PageSize \/ 2 * m < n THEN "low"
     ELSE IF /\ 5 * m >= 4 * n /\ 5 * s >= 4 * m
             /\ \A q, r \in Mappings(rows) : q.lot = r.lot => q = r THEN "high"
     ELSE "medium"

Unreadable == [ok |-> FALSE, rows |-> {}]
Read(rows) == [ok |-> TRUE, rows |-> rows]

\* A page is read from a known key, from the envelope of a closed auction, from the
\* only list that looks like lots, or from one empty list that is named like lots.
DecodeGuessesEmpty(p) ==
  IF ~p.json \/ NamesError(p) THEN Unreadable
  ELSE IF p.known # {} THEN Read(CHOOSE rows \in p.known : TRUE)
  ELSE IF VerifiedEmpty(p) THEN Read({})
  ELSE LET high == {c \in ListCandidates(p) : Confidence(c.rows) = "high"}
       IN IF Cardinality(high) = 1 THEN Read((CHOOSE c \in high : TRUE).rows) ELSE Read({})
Decode(p) ==
  IF ~p.json \/ NamesError(p) THEN Unreadable
  ELSE IF p.known # {} THEN Read(CHOOSE rows \in p.known : TRUE)
  ELSE IF VerifiedEmpty(p) THEN Read({})
  ELSE LET high == {c \in ListCandidates(p) : Confidence(c.rows) = "high"}
       IN IF Cardinality(high) = 1 THEN Read((CHOOSE c \in high : TRUE).rows)
          ELSE IF ListCandidates(p) = {Drifted({}, TRUE)} THEN Read({})
          ELSE Unreadable

\* What the site answers for the rows of a page when it is well: the known form, a
\* new envelope around the same list, or the envelope of an auction without lots; with or
\* without a meta envelope, which says that more rows follow only if they do.
Metas(more) == {"none", "silent"} \union (IF more THEN {"more"} ELSE {})
Answers(rows, more) ==
  {Payload({rows}, {}, meta) : meta \in Metas(more)}
    \union {Payload({}, {Drifted(rows, TRUE)}, meta) : meta \in Metas(more)}
    \union (IF rows = {} THEN {Payload({}, {}, "silent")} ELSE {})

\* What it answers when it is not: an HTML page, an error beside an empty list, an
\* empty list of something else, two lists that look alike, an envelope without rows.
Garbage(rows, more) ==
  {[Payload({}, {}, "none") EXCEPT !.json = FALSE],
   [Payload({{}}, {}, "none") EXCEPT !.error = TRUE],
   Payload({}, {Drifted({}, FALSE)}, "none"),
   Payload({}, {}, "more")}
    \union {Payload({}, {Drifted(rows, TRUE), Drifted(rows, FALSE)}, meta) : meta \in Metas(more)}

\* The envelope of a closed auction is looked for before any list but those under the
\* known keys: beside it, rows under another key go unseen, and a link as well.
Veiled(p) ==
  /\ p.json /\ ~NamesError(p) /\ p.known = {} /\ VerifiedEmpty(p)
  /\ \E c \in ListCandidates(p) : c.rows # {}

-----------------------------------------------------------------------------
(* The scan.                                                                *)

\* At most one row is flawed or one group listed twice: more of them add no case.
Flawless == [g \in Auctions |-> [l \in LotIds |-> "none"]]
ScanInit ==
  /\ published \in [Auctions -> {S \in SUBSET LotIds : Cardinality(S) <= Capacity}]
  /\ always = published
  /\ \/ /\ \E g \in Auctions, l \in LotIds, f \in Flaws : flaw = [Flawless EXCEPT ![g][l] = f]
        /\ conflicting = {}
     \/ flaw = Flawless /\ \E g \in Auctions : conflicting = {g}
  /\ \E g \in Auctions, t \in Titles : title = [[h \in Auctions |-> "plain"] EXCEPT ![g] = t]
  /\ phase = "discover" /\ relevant = {} /\ worker = [w \in Workers |-> Resting]
  /\ requests = 0 /\ expired = FALSE
  /\ receipt = [g \in Auctions |-> "none"] /\ listed = [g \in Auctions |-> {}]
  /\ faults = 0 /\ changes = 0 /\ troubled = {} /\ veiled = {}

\* The site opens or closes one lot, of a group that has still to be read.
AuctionChanges(g, l) ==
  /\ phase = "groups" /\ receipt[g] = "none" /\ changes < MaxChanges
  /\ changes' = changes + 1
  /\ published' = [published EXCEPT ![g] = IF l \in @ THEN @ \ {l} ELSE @ \union {l}]
  /\ Cardinality(published'[g]) <= Capacity
  /\ always' = [always EXCEPT ![g] = @ \ {l}]
  /\ UNCHANGED <<flaw, conflicting, title, phase, relevant, worker, requests, expired, receipt,
                 listed, faults, troubled, veiled>>

\* The clock passes the deadline.
Expires ==
  /\ phase = "groups" /\ ~expired
  /\ expired' = TRUE
  /\ UNCHANGED <<siteVars, phase, relevant, worker, requests, receipt, listed, faults, changes,
                 troubled, veiled>>

\* The home page lists some of the groups, maybe one of them twice with different data.
\* A title the user ignores is skipped in any case, an art title only when the home
\* page is clear about the group.
HomeLists == SUBSET Auctions \ {{}}
Conflicts(g) == g \in conflicting
Skipped(g) == title[g] = "ignored" \/ (title[g] = "art" /\ ~Conflicts(g))

\* Discovery: the home page shows some of the groups, or cannot be had or read.
Discover ==
  /\ phase = "discover"
  /\ requests' = requests + 1
  /\ \E home \in HomeLists :
       /\ phase' = "groups"
       /\ relevant' = {g \in home : ~Skipped(g)}
       /\ receipt' = [g \in Auctions |-> IF g \in home /\ Skipped(g) THEN "skipped" ELSE "none"]
  /\ UNCHANGED <<siteVars, worker, expired, listed, faults, changes, troubled, veiled>>
DiscoverFails ==
  /\ phase = "discover" /\ faults < MaxFaults
  /\ requests' = requests + 1
  /\ phase' = "failed" /\ faults' = faults + 1
  /\ UNCHANGED <<siteVars, relevant, worker, expired, receipt, listed, changes, troubled, veiled>>

\* A thread of the executor takes the next group.
Take(w, g) ==
  /\ phase = "groups" /\ ~Busy(w) /\ g \in relevant
  /\ relevant' = relevant \ {g}
  /\ worker' = [worker EXCEPT ![w] = [Resting EXCEPT !.group = g]]
  /\ UNCHANGED <<siteVars, phase, requests, expired, receipt, listed, faults, changes, troubled,
                 veiled>>

-----------------------------------------------------------------------------
(* One group: _fetch_lots and what _scan_group makes of the rows.           *)

\* Lots of which one row is well formed and no other disagrees with it.
Clean(rows) == {l \in LotIds : Cardinality({r \in Shaped(rows) : r.lot = l}) = 1}
Blemished(rows) ==
  rows # Shaped(rows) \/ \E q, r \in Shaped(rows) : q.lot = r.lot /\ q # r

\* The receipt of a group that was read; one that conflicts at home is never complete.
StatusOf(g, rows, issue) ==
  IF issue \/ Blemished(rows) \/ Conflicts(g) THEN "partial" ELSE "complete"

Settle(w, status, lots) ==
  /\ worker' = [worker EXCEPT ![w] = Resting]
  /\ receipt' = [receipt EXCEPT ![worker[w].group] = status]
  /\ listed' = [listed EXCEPT ![worker[w].group] = lots]

\* The group ends with the rows read so far.
Ends(w, rows, issue) == Settle(w, StatusOf(worker[w].group, rows, issue), Clean(rows))

\* A request that brings nothing ends the group: what was read before it is kept, and
\* without it the group has failed.
BreaksOff(w) ==
  IF Mappings(worker[w].rows) = {} THEN Settle(w, "failed", {})
  ELSE Ends(w, worker[w].rows, TRUE)

\* _get refuses under the lock: no time or no request is left.
StarvedLate == expired \/ requests > MaxRequests
Starved == expired \/ requests >= MaxRequests

\* The page limit, and a link or a cursor that leads back to a page already read.
AtLimit(w) == Cardinality(worker[w].visited) = MaxPages \/ worker[w].cursor \in worker[w].visited

Stops(w) ==
  /\ phase = "groups" /\ Busy(w)
  /\ \/ AtLimit(w) /\ Ends(w, worker[w].rows, TRUE)
     \/ ~AtLimit(w) /\ Starved /\ BreaksOff(w)
  /\ UNCHANGED <<siteVars, phase, relevant, requests, expired, faults, changes, troubled, veiled>>

\* A link to another host or path is not followed; without a link a short page is the
\* last one, and the next page starts after the last row, if that row has an identity.
ShortPage(page) == Cardinality(page) < PageSize
Continues(w, page, link) ==
  LET g == worker[w].group
      rows == worker[w].rows \union page
      GoesTo(cursor) ==
        /\ worker' = [worker EXCEPT ![w].cursor = cursor, ![w].rows = rows,
                                    ![w].visited = @ \union {worker[w].cursor}]
        /\ UNCHANGED <<receipt, listed>>
  IN CASE link = "foreign"  -> Ends(w, rows, TRUE)
       [] link = "back"     -> \E c \in worker[w].visited \union {worker[w].cursor} : GoesTo(c)
       [] link = "onward"   -> GoesTo(LastRow(page).lot)
       [] link = "none" /\ ShortPage(page) -> Ends(w, rows, FALSE)
       [] OTHER             -> IF LastRow(page).form = "junk" THEN Ends(w, rows, TRUE)
                               ELSE GoesTo(LastRow(page).lot)

\* A page carries no link, or the right one when more rows follow.
MoreAfter(g, page) == page # {} /\ Beyond(g, LastRow(page).lot) # {}
Links(g, page) == {"none"} \union (IF MoreAfter(g, page) THEN {"onward"} ELSE {})

\* One request, with at most one thing wrong with it, which is enough to spoil it: an
\* attempt fails, the page cannot be read, or it carries a link that leads nowhere.
Requests(w) ==
  /\ phase = "groups" /\ Busy(w) /\ ~AtLimit(w) /\ ~Starved
  /\ requests' = requests + 1
  /\ UNCHANGED <<siteVars, phase, relevant, expired, changes>>
Wrong(w, blamed) ==
  /\ faults < MaxFaults
  /\ faults' = faults + 1
  /\ troubled' = IF blamed THEN troubled \union {worker[w].group} ELSE troubled
Receives(w, p, link) ==
  /\ veiled' = IF Veiled(p) THEN veiled \union {worker[w].group} ELSE veiled
  /\ IF Decode(p).ok
     THEN Continues(w, Decode(p).rows, IF Veiled(p) THEN "none" ELSE link)
     ELSE BreaksOff(w)

Fetch(w) ==
  LET page == Page(worker[w].group, worker[w].cursor)
      more == MoreAfter(worker[w].group, page)
      plain == Payload({page}, {}, "none")
  IN /\ Requests(w)
     /\ \/ \E t \in Tries : /\ t.first # "answered" /\ Wrong(w, LetDown(t))
                            /\ IF Gets(t) THEN Receives(w, plain, "none")
                               ELSE BreaksOff(w) /\ UNCHANGED veiled
        \/ \E p \in Garbage(page, more) : Wrong(w, TRUE) /\ Receives(w, p, "none")
        \/ \E link \in {"back", "foreign"} : Wrong(w, TRUE) /\ Receives(w, plain, link)
        \/ \E p \in Answers(page, more), link \in Links(worker[w].group, page) :
             UNCHANGED <<faults, troubled>> /\ Receives(w, p, link)

\* The executor has no group left: the result is put together.
Finish ==
  /\ phase = "groups" /\ relevant = {} /\ \A w \in Workers : ~Busy(w)
  /\ phase' = "done"
  /\ UNCHANGED <<siteVars, relevant, worker, requests, expired, receipt, listed, faults, changes,
                 troubled, veiled>>

Rests == phase \in {"done", "failed"} /\ UNCHANGED scanVars

ScanNext ==
  \/ \E g \in Auctions, l \in LotIds : AuctionChanges(g, l)
  \/ Expires \/ Discover \/ DiscoverFails
  \/ \E w \in Workers : \/ \E g \in Auctions : Take(w, g)
                        \/ Stops(w) \/ Fetch(w)
  \/ Finish \/ Rests
ScanSpec == ScanInit /\ [][ScanNext]_scanVars

-----------------------------------------------------------------------------
ScanTypeOK ==
  /\ published \in [Auctions -> SUBSET LotIds] /\ always \in [Auctions -> SUBSET LotIds]
  /\ flaw \in [Auctions -> [LotIds -> Flaws]] /\ conflicting \in SUBSET Auctions
  /\ title \in [Auctions -> Titles]
  /\ phase \in {"discover", "groups", "done", "failed"} /\ relevant \in SUBSET Auctions
  /\ \A w \in Workers :
       /\ worker[w].group \in Auctions \union {NoAuction}
       /\ worker[w].cursor \in 0..NumLots
       /\ worker[w].visited \subseteq 0..NumLots
       /\ \A r \in worker[w].rows : r.lot \in LotIds
  /\ requests \in 0..MaxRequests /\ expired \in BOOLEAN
  /\ receipt \in [Auctions -> Statuses] /\ listed \in [Auctions -> SUBSET LotIds]
  /\ faults \in 0..MaxFaults /\ changes \in 0..MaxChanges /\ troubled \in SUBSET Auctions
  /\ veiled \in SUBSET Auctions

\* An authoritative receipt removes the lots it leaves out, so it must leave out no lot
\* that was open all through the scan: whatever the site does meanwhile, and whatever
\* pages, rows or requests go wrong.  Excepted are the groups of which a page came with its
\* rows under an unknown key beside a meta envelope that does not say that more follow: that
\* page is taken for the end of an auction without lots (castells.py:583), although
\* docs/SEARCH_GUIDE.md:54-59 has such a list recovered.
AuthorityIsTrue ==
  \A g \in Auctions \ veiled : receipt[g] = "complete" => always[g] \subseteq listed[g]

\* A group is complete unless something was wrong with that group, or the budget the
\* groups share ran out: the failure of one group costs no other its receipt.
PagesSuffice == NumLots < MaxPages * PageSize
PartialNeedsCause ==
  \A g \in Auctions :
    receipt[g] \in {"partial", "failed"} /\ PagesSuffice =>
      \/ g \in troubled \union conflicting
      \/ flaw[g] # Flawless[g]
      \/ expired \/ requests = MaxRequests
=============================================================================
