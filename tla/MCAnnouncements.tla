--------------------------- MODULE MCAnnouncements ---------------------------
(* Announcements for TLC: two lots that may say one of three things, a user    *)
(* who looks for a console or a game, for the same in other words, or for both *)
(* within a price, without spare parts and with one of two words beside the    *)
(* console.  A mail shows one lot and two of its terms.                        *)
EXTENDS Announcements, TLC

CONSTANTS l1, l2, console, game, maker, parts
MCLots == {l1, l2}
MCTerms == {console, game, maker, parts}
MCContents ==
  {[title |-> {console}, description |-> {}, category |-> {game}, price |-> Free],
   [title |-> {game}, description |-> {console, maker, parts}, category |-> {game}, price |-> 30],
   [title |-> {parts}, description |-> {}, category |-> {}, price |-> 10]}
Wide ==
  [enabled |-> TRUE, any |-> {console, game}, all |-> {}, exact |-> {}, exclude |-> {},
   categories |-> {},
   boost |-> [t \in MCTerms |-> IF t = maker THEN 1 ELSE 0],
   risk |-> [t \in MCTerms |-> IF t = parts THEN 6 ELSE 0],
   required |-> [t \in MCTerms |-> {}], excluded |-> [t \in MCTerms |-> {}],
   minimum |-> 0, maximum |-> Free, unknown |-> "include",
   rank |-> [t \in MCTerms |-> IF t = console THEN 1 ELSE IF t = game THEN 2 ELSE 3],
   spelling |-> [t \in MCTerms |-> 1]]
Reworded == [Wide EXCEPT !.rank = [@ EXCEPT ![console] = 2, ![game] = 1], !.spelling[maker] = 2]
Narrow ==
  [Wide EXCEPT !.any = {}, !.all = {console}, !.exact = {game}, !.exclude = {parts},
     !.categories = {game}, !.required[console] = {maker, game}, !.excluded[game] = {maker},
     !.maximum = 20, !.minimum = 7]
MCSearches == {Wide, Reworded, Narrow}
Same == Permutations(MCLots)
=============================================================================
