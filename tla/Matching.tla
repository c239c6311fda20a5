------------------------------- MODULE Matching -------------------------------
(***************************************************************************)
(* core.matching.match_lot: whether a profile matches a lot, and the score *)
(* and terms the match is recorded with.  Texts are the sets of terms that *)
(* occur in them as whole words (normalization.contains_term); the reason  *)
(* and the wording of a rejection are left out.  What the profile itself   *)
(* writes, the order and the spelling of its terms, decides nothing here   *)
(* but is recorded with the match.                                         *)
(***************************************************************************)
EXTENDS Integers, FiniteSets, Functions

CONSTANTS
  Terms,   \* words and phrases, normalised
  Free     \* no maximum price, no known price

ASSUME TermsAssumption == IsFiniteSet(Terms) /\ Free \notin Nat

\* SearchProfile, what match_lot reads of it.  A term without a context rule requires and
\* excludes nothing; a boost or a risk of 0 is none.  A valid profile looks for something,
\* in one list each, and excludes nothing it looks for or boosts.
Rules ==
  [enabled : BOOLEAN, any : SUBSET Terms, all : SUBSET Terms, exact : SUBSET Terms,
   exclude : SUBSET Terms, categories : SUBSET Terms,
   boost : [Terms -> Nat], risk : [Terms -> Nat],
   required : [Terms -> SUBSET Terms], excluded : [Terms -> SUBSET Terms],
   minimum : Nat, maximum : Nat \union {Free}, unknown : {"include", "exclude"},
   rank : [Terms -> Nat], spelling : [Terms -> Nat]]
Positive(p) == p.any \union p.all \union p.exact
Boosts(p) == {t \in Terms : p.boost[t] > 0}

\* `rank' is the order in which match_lot comes to the terms: the lists one after the
\* other, and each in the order the user gave it.
InOrder(p, S, T) == \A t \in S, u \in T : t = u \/ p.rank[t] < p.rank[u]
Ranked(p) ==
  /\ InOrder(p, p.any, p.all) /\ InOrder(p, p.any \union p.all, p.exact)
  /\ InOrder(p, Positive(p), Boosts(p) \ Positive(p))
  /\ \A t, u \in Positive(p) \union Boosts(p) : p.rank[t] = p.rank[u] => t = u
Search ==
  {p \in Rules :
     /\ Positive(p) # {} /\ Ranked(p)
     /\ p.any \intersect p.all = {} /\ (p.any \union p.all) \intersect p.exact = {}
     /\ (Positive(p) \union Boosts(p)) \intersect p.exclude = {}}

\* AuctionLot; the price is in the currency of the profile, or unknown to it.
Lot == [title : SUBSET Terms, description : SUBSET Terms, category : SUBSET Terms,
        price : Nat \union {Free}]

Text(lot) == lot.title \union lot.description \union lot.category

\* _find_rule: the term occurs, and its context rule allows it.
Found(p, lot, t) ==
  /\ t \in Text(lot)
  /\ p.required[t] # {} => p.required[t] \intersect Text(lot) # {}
  /\ p.excluded[t] \intersect Text(lot) = {}

FoundOf(p, lot, S) == {t \in S : Found(p, lot, t)}

\* Something to look for is there; the required terms count only where nothing else is
\* looked for.  A definition that stands before the one it is named after is a seeded
\* fault, as in RunWorker.
TriggeredUnlessMissing(p, lot) ==
  FoundOf(p, lot, p.any \union p.exact) # {} \/ FoundOf(p, lot, p.all) = p.all
Triggered(p, lot) ==
  \/ FoundOf(p, lot, p.any \union p.exact) # {}
  \/ p.any \union p.exact = {} /\ FoundOf(p, lot, p.all) # {}

\* Each list is scored on its own, with a point more for a term in the title.
ListScore(p, lot, S, points) ==
  LET found == FoundOf(p, lot, S)
  IN  points * Cardinality(found) + Cardinality(found \intersect lot.title)
Weight(p, lot, weights) == SumFunctionOnSet(weights, FoundOf(p, lot, Terms))
Score(p, lot) ==
  LET gain == ListScore(p, lot, p.any, 2) + ListScore(p, lot, p.all, 3)
                + ListScore(p, lot, p.exact, 5) + Weight(p, lot, p.boost)
      loss == Weight(p, lot, p.risk)
  IN  IF gain > loss THEN gain - loss ELSE 0

\* _price_rejection finds nothing against the lot.
PriceAllowed(p, lot) ==
  \/ p.maximum = Free
  \/ lot.price = Free /\ p.unknown = "include"
  \/ lot.price # Free /\ lot.price <= p.maximum

Matches(p, lot) ==
  /\ p.enabled
  /\ p.categories # {} => p.categories \intersect lot.category # {}
  /\ FoundOf(p, lot, p.exclude) = {}
  /\ FoundOf(p, lot, p.all) = p.all
  /\ Triggered(p, lot)
  /\ PriceAllowed(p, lot)
  /\ Score(p, lot) >= p.minimum

\* _found_terms: a list in which no term stands twice, written as the place and the
\* spelling of each; a boost that is also looked for stands where it is looked for.
Wording(p) == [rank |-> p.rank, spelling |-> p.spelling]
Listing(wording, S) ==
  [t \in S |-> [place |-> Cardinality({u \in S : wording.rank[u] < wording.rank[t]}),
               spelling |-> wording.spelling[t]]]

\* What the match is recorded with, and what a later run compares.
MatchOf(p, lot) ==
  [score |-> Score(p, lot),
   terms |-> Listing(Wording(p), FoundOf(p, lot, Positive(p) \union Boosts(p)))]
=============================================================================
