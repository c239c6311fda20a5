------------------------ MODULE CatalogueScanProofs ------------------------
(* The safety of the scans of Prado, TodoRemates, Bavastro and Remotes, for any *)
(* number of auctions, lots, pages, flaws, faults and changes of the site.      *)
EXTENDS CatalogueScan, TLAPS, FiniteSetTheorems

-----------------------------------------------------------------------------
(* What is picked from a sequence *)

\* The ranks of the elements of a finite set of numbers are 1, 2, ... up to its size.
LEMMA Ranks ==
  ASSUME NEW A \in SUBSET Nat, IsFiniteSet(A)
  PROVE  LET Rank(i) == Cardinality({j \in A : j <= i})
         IN /\ \A i \in A : Rank(i) \in 1..Cardinality(A)
            /\ \A i, k \in A : Rank(i) = Rank(k) => i = k
            /\ \A n \in 1..Cardinality(A) : \E i \in A : Rank(i) = n
<1> DEFINE Below(i) == {j \in A : j <= i}
           rank == [i \in A |-> Cardinality(Below(i))]
<1>1. ASSUME NEW i \in A
      PROVE  IsFiniteSet(Below(i)) /\ Cardinality(Below(i)) \in 1..Cardinality(A)
  <2>1. Below(i) \in SUBSET A /\ i \in Below(i)
    OBVIOUS
  <2>2. IsFiniteSet(Below(i)) /\ Cardinality(Below(i)) <= Cardinality(A)
    BY <2>1, FS_Subset
  <2>3. Cardinality(Below(i)) \in Nat /\ Cardinality(Below(i)) # 0 /\ Cardinality(A) \in Nat
    BY <2>1, <2>2, FS_CardinalityType, FS_EmptySet
  <2> HIDE DEF Below
  <2> QED BY <2>2, <2>3
<1>2. ASSUME NEW i \in A, NEW k \in A, i < k
      PROVE  Cardinality(Below(i)) # Cardinality(Below(k))
  <2>1. \A j \in A : j <= i => j <= k
    BY <1>2
  <2>2. k <= k /\ ~(k <= i)
    BY <1>2
  <2>3. Below(i) \in SUBSET Below(k)
    BY <2>1
  <2>4. k \in Below(k) /\ k \notin Below(i)
    BY <2>2
  <2> HIDE DEF Below
  <2> QED BY <1>1, <2>3, <2>4, FS_Subset
<1>3. \A i, k \in A : Cardinality(Below(i)) = Cardinality(Below(k)) => i = k
  <2> HIDE DEF Below
  <2> SUFFICES ASSUME NEW i \in A, NEW k \in A, i # k
               PROVE  Cardinality(Below(i)) # Cardinality(Below(k))
    OBVIOUS
  <2>1. i < k \/ k < i
    OBVIOUS
  <2> QED BY <2>1, <1>2
<1> HIDE DEF Below
<1>4. rank \in Injection(A, 1..Cardinality(A))
  BY <1>1, <1>3 DEF Injection, IsInjective
<1>5. IsFiniteSet(1..Cardinality(A)) /\ Cardinality(1..Cardinality(A)) = Cardinality(A)
  BY FS_CardinalityType, FS_Interval
<1>6. rank \in Surjection(A, 1..Cardinality(A))
  BY <1>4, <1>5, FS_Injection
<1>7. \A n \in 1..Cardinality(A) : \E i \in A : Cardinality(Below(i)) = n
  BY <1>6 DEF Surjection
<1> QED BY <1>1, <1>3, <1>7 DEF Below

\* A sequence has as many places as it is long.
LEMMA SizeOfDomain ==
  ASSUME NEW T, NEW s \in Seq(T)
  PROVE  IsFiniteSet(DOMAIN s) /\ Cardinality(DOMAIN s) = Len(s)
<1>1. DOMAIN s = 1..Len(s) /\ Len(s) \in Nat
  OBVIOUS
<1>2. 1 \in Int /\ Len(s) \in Int /\ (1 > Len(s) => Len(s) = 0) /\ Len(s) - 1 + 1 = Len(s)
  BY <1>1
<1>3. IsFiniteSet(1..Len(s))
      /\ Cardinality(1..Len(s)) = IF 1 > Len(s) THEN 0 ELSE Len(s) - 1 + 1
  BY <1>2, FS_Interval, Zenon
<1> QED BY <1>1, <1>2, <1>3

\* Some elements of a sequence in their order: these and no others, none twice that
\* the sequence does not show twice.
IsPick(T, s, S, p) ==
  /\ p \in Seq(T) /\ Len(p) \in 0..Len(s)
  /\ Len(p) = Cardinality({i \in DOMAIN s : s[i] \in S})
  /\ \A n \in DOMAIN p : \E i \in DOMAIN s : s[i] \in S /\ p[n] = s[i]
  /\ \A i \in DOMAIN s : s[i] \in S => \E n \in DOMAIN p : p[n] = s[i]
  /\ IsInjective(s) => IsInjective(p)
  /\ Len(p) = Len(s) => \A i \in DOMAIN s : s[i] \in S

\* Picked is such a choice.
LEMMA PickedIsSome ==
  ASSUME NEW T, NEW s \in Seq(T), NEW S
  PROVE  IsPick(T, s, S, Picked(s, S))
<1> DEFINE at == {i \in DOMAIN s : s[i] \in S}
           Rank(i) == Cardinality({j \in at : j <= i})
           Nth(n) == CHOOSE i \in at : Rank(i) = n
           size == Cardinality(at)
           picked == Picked(s, S)
<1>1. DOMAIN s = 1..Len(s) /\ Len(s) \in Nat
  OBVIOUS
<1>2. IsFiniteSet(DOMAIN s) /\ Cardinality(DOMAIN s) = Len(s)
  BY SizeOfDomain
<1>3. at \in SUBSET DOMAIN s /\ at \in SUBSET Nat
  OBVIOUS
<1>4. IsFiniteSet(at) /\ size \in 0..Len(s) /\ (size = Len(s) => at = DOMAIN s)
  <2>1. IsFiniteSet(at) /\ size <= Len(s) /\ (Len(s) = size => DOMAIN s = at)
    BY <1>2, <1>3, FS_Subset
  <2>2. size \in Nat
    BY <2>1, FS_CardinalityType
  <2> QED BY <1>1, <2>1, <2>2
<1>5. /\ \A i \in at : Rank(i) \in 1..size
      /\ \A i, k \in at : Rank(i) = Rank(k) => i = k
      /\ \A n \in 1..size : \E i \in at : Rank(i) = n
  <2> HIDE DEF at
  <2> QED BY <1>3, <1>4, Ranks
<1>6. picked = [n \in 1..size |-> s[Nth(n)]]
  BY DEF Picked
<1> HIDE DEF at, Rank, size, picked
<1>7. \A n \in 1..size : Nth(n) \in at /\ Rank(Nth(n)) = n
  BY <1>5
<1>8. \A i \in at : Nth(Rank(i)) = i
  <2> SUFFICES ASSUME NEW i \in at PROVE Nth(Rank(i)) = i
    OBVIOUS
  <2>1. Rank(i) \in 1..size
    BY <1>5
  <2>2. Nth(Rank(i)) \in at /\ Rank(Nth(Rank(i))) = Rank(i)
    BY <1>7, <2>1
  <2> HIDE DEF Nth
  <2> QED BY <1>5, <2>2
<1> HIDE DEF Nth
<1>9. \A n \in 1..size : s[Nth(n)] \in T
  BY <1>3, <1>7
<1>10. picked \in Seq(T) /\ Len(picked) = size /\ DOMAIN picked = 1..size
  BY <1>4, <1>6, <1>9
<1>11. \A n \in DOMAIN picked : \E i \in DOMAIN s : s[i] \in S /\ picked[n] = s[i]
  BY <1>6, <1>7, <1>10 DEF at
<1>12. \A i \in DOMAIN s : s[i] \in S => \E n \in DOMAIN picked : picked[n] = s[i]
  <2> SUFFICES ASSUME NEW i \in DOMAIN s, s[i] \in S
               PROVE  \E n \in DOMAIN picked : picked[n] = s[i]
    OBVIOUS
  <2>1. i \in at
    BY DEF at
  <2>2. Rank(i) \in DOMAIN picked
    BY <1>5, <1>10, <2>1
  <2>3. picked[Rank(i)] = s[i]
    BY <1>6, <1>8, <1>10, <2>1, <2>2
  <2> QED BY <2>2, <2>3
<1>13. ASSUME IsInjective(s) PROVE IsInjective(picked)
  <2> SUFFICES ASSUME NEW n \in 1..size, NEW m \in 1..size, s[Nth(n)] = s[Nth(m)]
               PROVE  n = m
    BY <1>6, <1>10 DEF IsInjective
  <2>1. Nth(n) = Nth(m)
    BY <1>3, <1>7, <1>13 DEF IsInjective
  <2> QED BY <1>7, <2>1
<1>14. size = Len(s) => \A i \in DOMAIN s : s[i] \in S
  BY <1>4 DEF at
<1>15. size = Cardinality({i \in DOMAIN s : s[i] \in S})
  BY DEF size, at
<1>16. IsPick(T, s, S, picked)
  BY <1>4, <1>10, <1>11, <1>12, <1>13, <1>14, <1>15 DEF IsPick
<1> QED BY <1>16 DEF picked

\* Without one of its elements a sequence that repeats none is shorter by one.
LEMMA OneLess ==
  ASSUME NEW T, NEW s \in Seq(T), IsInjective(s), NEW k \in DOMAIN s, NEW S,
         \A i \in DOMAIN s : s[i] \in S <=> s[i] # s[k]
  PROVE  Len(Picked(s, S)) = Len(s) - 1
<1> DEFINE at == {i \in DOMAIN s : s[i] \in S}
<1>1. IsFiniteSet(DOMAIN s) /\ Cardinality(DOMAIN s) = Len(s)
  BY SizeOfDomain
<1>2. at = DOMAIN s \ {k}
  BY DEF IsInjective
<1>3. Cardinality(at) = Len(s) - 1
  BY <1>1, <1>2, FS_RemoveElement
<1> QED BY <1>3, PickedIsSome DEF IsPick

\* A set in some order.
LEMMA SetInOrder ==
  ASSUME NEW S, IsFiniteSet(S)
  PROVE  /\ SetToSeq(S) \in Seq(S) /\ IsInjective(SetToSeq(S))
         /\ \A x \in S : \E i \in DOMAIN SetToSeq(S) : SetToSeq(S)[i] = x
<1> DEFINE n == Cardinality(S)
<1>1. n \in Nat /\ ExistsBijection(1..n, S)
  BY FS_CardinalityType
<1>2. \E f \in [1..n -> S] : IsInjective(f)
  BY <1>1 DEF ExistsBijection, Bijection, Injection
<1>3. SetToSeq(S) \in [1..n -> S] /\ IsInjective(SetToSeq(S))
  BY <1>2 DEF SetToSeq
<1>4. SetToSeq(S) \in Injection(1..n, S)
  BY <1>3 DEF Injection
<1>5. Cardinality(1..n) = n
  BY <1>1, FS_Interval
<1>6. SetToSeq(S) \in Surjection(1..n, S)
  BY <1>4, <1>5, FS_Injection
<1> HIDE DEF n
<1> QED BY <1>1, <1>3, <1>6 DEF Surjection

\* What repeats nothing is as long as the set of its elements.
LEMMA InjectiveIsDistinct ==
  ASSUME NEW T, NEW s \in Seq(T), IsInjective(s)
  PROVE  Distinct(s)
<1> DEFINE f == [i \in 1..Len(s) |-> s[i]]
<1>1. Len(s) \in Nat /\ DOMAIN s = 1..Len(s)
  OBVIOUS
<1>2. \A i \in 1..Len(s) : s[i] \in Elements(s)
  BY <1>1 DEF Elements
<1>3. \A x \in Elements(s) : \E i \in 1..Len(s) : s[i] = x
  BY <1>1 DEF Elements
<1>4. f \in Surjection(1..Len(s), Elements(s)) /\ f \in Injection(1..Len(s), Elements(s))
  BY <1>1, <1>2, <1>3 DEF Surjection, Injection, IsInjective
<1>5. IsFiniteSet(1..Len(s)) /\ Cardinality(1..Len(s)) = Len(s)
  BY <1>1, FS_Interval
<1>6. Cardinality(Elements(s)) = Len(s)
  <2> HIDE DEF f
  <2> QED BY <1>4, <1>5, FS_Surjection
<1> QED BY <1>6 DEF Distinct

-----------------------------------------------------------------------------
(* Pages *)

\* A multiple of the page size.
LEMMA Products ==
  /\ PageSize \in Nat \ {0} /\ MaxPages \in Nat \ {0}
  /\ \A n \in Nat : n * PageSize \in Nat /\ (n + 1) * PageSize = n * PageSize + PageSize
  /\ \A n, m \in Nat : n <= m => n * PageSize <= m * PageSize
  BY CatalogueAssumption

\* The number of pages of a list: as many as hold it, and no more.
LEMMA LastPageHolds ==
  ASSUME NEW T, NEW s \in Seq(T)
  PROVE  /\ LastPage(s) \in Nat
         /\ \A n \in Nat : LastPage(s) <= n <=> Len(s) <= n * PageSize
<1> DEFINE a == Len(s) + PageSize - 1
           q == a \div PageSize
<1>1. a \in Nat /\ Len(s) \in Nat /\ PageSize \in Nat \ {0}
  BY Products
<1>2. a = q * PageSize + (a % PageSize) /\ a % PageSize \in 0..PageSize - 1 /\ q \in Int
  BY <1>1
<1>3. q >= 0
  <2> SUFFICES ASSUME q <= -1 PROVE FALSE
    BY <1>2
  <2>1. q * PageSize <= (-1) * PageSize
    BY <1>1, <1>2
  <2> QED BY <1>1, <1>2, <2>1
<1>4. ASSUME NEW n \in Nat, q <= n PROVE Len(s) <= n * PageSize
  <2>1. q * PageSize <= n * PageSize /\ q * PageSize \in Int /\ n * PageSize \in Int
    BY <1>1, <1>2, <1>3, <1>4
  <2> HIDE DEF q
  <2> QED BY <1>1, <1>2, <2>1
<1>5. ASSUME NEW n \in Nat, n + 1 <= q PROVE n * PageSize < Len(s)
  <2>1. (n + 1) * PageSize <= q * PageSize /\ q * PageSize \in Int
    BY <1>1, <1>2, <1>5
  <2>2. (n + 1) * PageSize = n * PageSize + PageSize /\ n * PageSize \in Int
    BY <1>1
  <2> HIDE DEF q
  <2> QED BY <1>1, <1>2, <2>1, <2>2
<1>6. q \in Nat /\ \A n \in Nat : n * PageSize \in Nat
  BY <1>1, <1>2, <1>3
<1>7. \A n \in Nat : q <= n <=> Len(s) <= n * PageSize
  <2> SUFFICES ASSUME NEW n \in Nat PROVE q <= n <=> Len(s) <= n * PageSize
    OBVIOUS
  <2>1. q <= n \/ n + 1 <= q
    BY <1>6
  <2>2. ~(q <= n /\ n + 1 <= q)
    BY <1>6
  <2>3. ~(Len(s) <= n * PageSize /\ n * PageSize < Len(s))
    BY <1>1, <1>6
  <2> HIDE DEF q
  <2> QED BY <1>4, <1>5, <2>1, <2>2, <2>3
<1> QED BY <1>6, <1>7 DEF LastPage

\* A part of a sequence.
LEMMA Part ==
  ASSUME NEW T, NEW s \in Seq(T), NEW a \in Nat, NEW b \in Nat, b <= Len(s)
  PROVE  /\ SubSeq(s, a + 1, b) \in Seq(T)
         /\ Len(SubSeq(s, a + 1, b)) = IF a + 1 <= b THEN b - a ELSE 0
         /\ DOMAIN SubSeq(s, a + 1, b) = 1..(b - a)
         /\ \A j \in 1..(b - a) : SubSeq(s, a + 1, b)[j] = s[a + j] /\ a + j \in DOMAIN s
<1>1. SubSeq(s, a + 1, b) \in Seq(T) /\ Len(SubSeq(s, a + 1, b)) = IF a + 1 <= b THEN b - a ELSE 0
  OBVIOUS
<1>2. DOMAIN SubSeq(s, a + 1, b) = 1..(b - a)
  BY <1>1
<1>3. ASSUME NEW j \in 1..(b - a)
      PROVE  SubSeq(s, a + 1, b)[j] = s[a + j] /\ a + j \in DOMAIN s
  <2>1. (a + 1) + j - 1 = a + j
    OBVIOUS
  <2>2. SubSeq(s, a + 1, b)[j] = s[(a + 1) + j - 1]
    OBVIOUS
  <2> QED BY <2>1, <2>2
<1> QED BY <1>1, <1>2, <1>3

\* What stands on a page.
LEMMA PageShows ==
  ASSUME NEW T, NEW s \in Seq(T), NEW n \in Nat \ {0}
  PROVE  /\ Entries(s, n) \in Seq(T) /\ Len(Entries(s, n)) <= PageSize
         /\ \A j \in DOMAIN Entries(s, n) :
              /\ (n - 1) * PageSize + j \in DOMAIN s /\ (n - 1) * PageSize + j <= n * PageSize
              /\ Entries(s, n)[j] = s[(n - 1) * PageSize + j]
         /\ \A i \in DOMAIN s : (n - 1) * PageSize < i /\ i <= n * PageSize =>
              i - (n - 1) * PageSize \in DOMAIN Entries(s, n)
         /\ Len(Entries(s, n)) = PageSize => n * PageSize <= Len(s)
         /\ Len(Entries(s, n)) # PageSize => Len(s) <= n * PageSize
<1> DEFINE a == (n - 1) * PageSize
           b == IF n * PageSize < Len(s) THEN n * PageSize ELSE Len(s)
           page_ == SubSeq(s, a + 1, b)
<1>1. a \in Nat /\ n * PageSize = a + PageSize /\ PageSize \in Nat \ {0} /\ Len(s) \in Nat
  <2>1. n - 1 \in Nat /\ (n - 1) + 1 = n
    OBVIOUS
  <2> QED BY <2>1, Products
<1> HIDE DEF a
<1>2. b \in Nat /\ b <= Len(s) /\ b <= a + PageSize
      /\ b = IF a + PageSize < Len(s) THEN a + PageSize ELSE Len(s)
  BY <1>1
<1> HIDE DEF b
<1>3. /\ page_ \in Seq(T)
      /\ Len(page_) = IF a + 1 <= b THEN b - a ELSE 0
      /\ DOMAIN page_ = 1..(b - a)
      /\ \A j \in 1..(b - a) : page_[j] = s[a + j] /\ a + j \in DOMAIN s
  <2>1. a \in Nat /\ b \in Nat /\ b <= Len(s)
    BY <1>1, <1>2
  <2> QED BY <2>1, Part, Zenon
<1>4. DOMAIN s = 1..Len(s)
  OBVIOUS
<1>6. Entries(s, n) = page_
  BY DEF Entries, a, b
<1> HIDE DEF page_
<1>7. \A j \in 1..(b - a) : a + j <= a + PageSize
  BY <1>1, <1>2
<1>8. \A i \in 1..Len(s) : a < i /\ i <= a + PageSize => i - a \in 1..(b - a)
  BY <1>1, <1>2
<1>9. /\ Len(page_) <= PageSize
      /\ Len(page_) = PageSize => a + PageSize <= Len(s)
      /\ Len(page_) # PageSize => Len(s) <= a + PageSize
  <2>1. b = a + PageSize \/ (b = Len(s) /\ Len(s) <= a + PageSize)
    BY <1>1, <1>2
  <2>2. b <= Len(s)
    BY <1>2
  <2> QED BY <1>1, <1>2, <1>3, <2>1, <2>2
<1> QED BY <1>1, <1>3, <1>4, <1>6, <1>7, <1>8, <1>9 DEF a

-----------------------------------------------------------------------------
(* The inductive invariant: the site, and the shape of the work *)

Lists == Groups \union {Home}
Things == Lots \union Groups
Receipts ==
  [group : Groups, status : {"complete", "partial", "failed"}, authoritative : BOOLEAN, count : Nat]

\* What may stand on a list.
Fits(t, x) ==
  IF adapter = "prado" THEN t = Home /\ x \in Lots
  ELSE IF t = Home THEN x \in Groups ELSE x \in Lots /\ GroupOf[x] = t
InSeq(x, s) == \E i \in DOMAIN s : s[i] = x

\* No list shows a thing twice, and an auction is listed as long as it has lots.
SiteInv ==
  /\ adapter \in Adapters /\ counted \in BOOLEAN /\ flaw \in [Lots -> Flaws]
  /\ adapter = "remotes" => \A l \in Lots : flaw[l] \in {"none", "untitled"}
  /\ closed \subseteq Groups
  /\ shelf \in [Lists -> Seq(Things)]
  /\ \A t \in Lists : IsInjective(shelf[t]) /\ \A i \in DOMAIN shelf[t] : Fits(t, shelf[t][i])
  /\ adapter # "prado" => \A g \in Groups : shelf[g] # <<>> <=> InSeq(g, shelf[Home])
  /\ always \subseteq Lots /\ \A l \in always : Offered(l)

\* The lots of an auction are only read by the adapters that read auction by auction, and
\* until the list of all auctions is read there is no result.
ShapeInv ==
  /\ target # Home => phase = "list" /\ adapter \in {"todoremates", "bavastro"}
  /\ phase = "next" => adapter \in {"todoremates", "bavastro"}
  /\ phase = "price" => adapter = "remotes"
  /\ phase = "report" => adapter \in {"prado", "remotes"}
  /\ (phase = "list" /\ target = Home) \/ phase = "price" =>
       groups = <<>> /\ receipts = <<>> /\ lots = <<>> /\ flawless
  /\ (phase = "list" /\ target = Home) \/ phase = "done" => queue = <<>>
  /\ adapter = "prado" => queue = <<>>
  /\ \A i \in DOMAIN receipts : receipts[i].authoritative <=> receipts[i].status = "complete"
  /\ ~counted => total = 0
  /\ changes = 0 => total \in {0, LastPage(shelf[target])}

WorkInv ==
  /\ phase \in {"list", "next", "price", "report", "done", "failed"}
  /\ target \in Lists /\ page \in 1..MaxPages /\ total \in 0..MaxPages
  /\ rows \in Seq(Things) /\ \A i \in DOMAIN rows : Fits(target, rows[i])
  /\ queue \in Seq(Groups) /\ refusals \in 0..MaxPriceFailures
  /\ groups \in Seq(Groups) /\ receipts \in Seq(Receipts) /\ lots \in Seq(Groups \X Lots)
  /\ flawless \in BOOLEAN
  /\ faults \in 0..MaxFaults /\ changes \in 0..MaxChanges /\ withdrawn \in 0..changes
  /\ troubled \subseteq Lists

NoJunk == \A l \in Lots : flaw[l] # "junk"
\* The list declares more pages than an adapter reads, or was said to.
TotalIsAbsurd == Home \in troubled \/ Absurd(LastPage(shelf[Home]))

\* Why the receipt of a group may be other than complete.
Cause(g) ==
  \/ g \in troubled
  \/ \E l \in Lots : flaw[l] = "untitled" /\ <<g, GroupOf[l]>> \in Within
  \/ Len(shelf[g]) + withdrawn >= MaxPages * PageSize
CauseInv ==
  \A i \in DOMAIN receipts : receipts[i].status # "complete" => Cause(receipts[i].group)

\* A result that reports no error claims authority, and then all its receipts must.
FlawlessInv ==
  /\ flawless => \A i \in DOMAIN receipts : receipts[i].status = "complete"
  /\ adapter = "prado" /\ phase = "report" /\ flawless => ~Malformed(rows)

\* The site stands still, and Bavastro can read all its auctions to the end.
Still ==
  /\ changes = 0
  /\ adapter = "bavastro" =>
       troubled = {} /\ \A g \in Groups : Len(shelf[g]) <= MaxPages * PageSize

\* Then what was read of a list are entries of the pages that were read, none twice; the
\* groups of the result, the one being read and those still to be read are distinct; each
\* group of the result has its receipt, and its lots are counted there.
FromPages(s, r, n) ==
  IsInjective(r) /\ \A i \in DOMAIN r : \E k \in DOMAIN s : k <= n * PageSize /\ r[i] = s[k]
ReadInv ==
  Still => /\ phase = "list" => FromPages(shelf[target], rows, page - 1)
           /\ phase \in {"price", "report"} => IsInjective(rows)
GroupsInv ==
  Still =>
    /\ IsInjective(queue) /\ IsInjective(groups)
    /\ Len(receipts) = Len(groups) /\ \A i \in DOMAIN groups : receipts[i].group = groups[i]
    /\ phase # "price" => \A i \in DOMAIN queue : queue[i] # target /\ ~Found(queue[i])
    /\ ~Found(target)
LotsInv ==
  Still =>
    /\ IsInjective(lots) /\ \A i \in DOMAIN lots : Found(lots[i][1])
    /\ \A i \in DOMAIN receipts :
         receipts[i].status # "failed" => receipts[i].count = LotCount(Result, receipts[i].group)

\* Nothing is taken from a list, every record can be noticed, the feed of Remotes hides no
\* malformed lot, and Prado is told a number of pages it can use.
Watched ==
  /\ withdrawn = 0 /\ NoJunk
  /\ (adapter = "remotes" /\ ~counted) => \A l \in Lots : flaw[l] = "none"
  /\ (adapter = "prado" /\ changes > 0) => ~TotalIsAbsurd

\* Then what was on a list all the time and stands on a page already read was read; what is
\* reported as complete is; and no auction is forgotten.
Kept(x) == IF x \in Lots THEN x \in always ELSE \E l \in always : x = GroupOf[l]
SeenInv ==
  Watched =>
    /\ phase = "list" /\ adapter \in Numbered =>
         \A i \in DOMAIN shelf[target] :
           i <= (page - 1) * PageSize /\ Kept(shelf[target][i]) => InSeq(shelf[target][i], rows)
    /\ phase \in {"report", "done"} /\ adapter = "prado" => \A l \in always : InSeq(l, rows)
CompleteInv ==
  Watched => \A l \in always : StatusOf(GroupOf[l], "complete") => Listed(l)
NoneForgotten ==
  Watched /\ flawless =>
    \A l \in always :
      \/ Found(GroupOf[l]) \/ InSeq(GroupOf[l], queue) \/ target = GroupOf[l]
      \/ phase \in {"price", "failed"} \/ (phase = "list" /\ target = Home)
      \/ phase = "report" /\ adapter = "prado"

\* The invariant says more of each variable than its type.
LEMMA TypesHold == SiteInv /\ WorkInv => TypeOK
<1> SUFFICES ASSUME SiteInv, WorkInv PROVE TypeOK
  OBVIOUS
<1>1. \A i \in DOMAIN receipts : receipts[i] \in Receipts
  BY DEF WorkInv
<1>2. \A i \in DOMAIN receipts : receipts[i].count \in Nat
  BY <1>1 DEF Receipts
<1>3. total \in Nat /\ \A i \in DOMAIN groups : groups[i] \in Groups
  BY DEF WorkInv
<1> QED BY <1>2, <1>3 DEF SiteInv, WorkInv, TypeOK, Lists

-----------------------------------------------------------------------------
(* A page arrives *)

\* All entries of the list stand on this page or on one before it.
AllSeen == Len(shelf[target]) <= page * PageSize
\* What the answer declares: what the site knows, or an absurd number, which is noted.
Says(declared) ==
  \/ declared = Declared(shelf[target])
  \/ declared = MaxPages + 1 /\ adapter \in Numbered /\ target \in troubled'

\* The three things that may come of a request, with all that follows from them.
BreaksOff ==
  /\ Broken(target)
  /\ \/ target \in troubled'
     \/ /\ MaxPages * PageSize <= Len(shelf[target])
        /\ adapter = "bavastro" /\ target # Home => MaxPages * PageSize < Len(shelf[target])
GoesOn ==
  /\ adapter \in Numbered /\ page < MaxPages
  /\ page' = page + 1 /\ rows' = rows \o Entries(shelf[target], page)
  /\ total' \in 0..MaxPages /\ (~counted => total' = 0)
  /\ changes = 0 => total' \in {0, LastPage(shelf[target])}
  /\ UNCHANGED <<phase, target, queue, resultVars>>
Ends ==
  \/ adapter = "remotes" /\ Discovered(shelf[Home])
  \/ /\ adapter \in Numbered
     /\ IF target = Home THEN Discovered(rows \o Entries(shelf[target], page))
                         ELSE GroupRead(rows \o Entries(shelf[target], page))
     /\ NoJunk => AllSeen \/ (adapter = "prado" /\ changes # 0 /\ TotalIsAbsurd')

\* A page of which TodoRemates keeps as many objects as a page holds is full.
LEMMA FullOfObjects ==
  ASSUME NEW s \in Seq(Things), flaw \in [Lots -> Flaws]
  PROVE  /\ IsFiniteSet(Objects(s)) /\ Cardinality(Objects(s)) \in 0..Len(s)
         /\ NoJunk => Cardinality(Objects(s)) = Len(s)
<1>1. DOMAIN s = 1..Len(s) /\ Len(s) \in Nat
  OBVIOUS
<1>2. IsFiniteSet(DOMAIN s) /\ Cardinality(DOMAIN s) = Len(s)
  BY SizeOfDomain
<1>3. Objects(s) \in SUBSET DOMAIN s
  BY DEF Objects
<1>4. IsFiniteSet(Objects(s)) /\ Cardinality(Objects(s)) <= Len(s)
  BY <1>2, <1>3, FS_Subset
<1>5. Cardinality(Objects(s)) \in Nat
  BY <1>4, FS_CardinalityType
<1>6. \A i \in DOMAIN s : s[i] \in Things
  OBVIOUS
<1>7. NoJunk => Objects(s) = DOMAIN s
  BY <1>6 DEF Objects, NoJunk, Things
<1> QED BY <1>1, <1>2, <1>4, <1>5, <1>7

\* The number of pages that the adapter goes by is one it can use, and the right one for a list
\* that does not change.
LEMMA KnownIs ==
  ASSUME SiteInv, ShapeInv, WorkInv, NEW declared \in Nat, Says(declared)
  PROVE  /\ Known(declared) \in 0..MaxPages /\ (~counted => Known(declared) = 0)
         /\ changes = 0 => Known(declared) \in {0, LastPage(shelf[target])}
<1>1. shelf[target] \in Seq(Things)
  BY DEF SiteInv, WorkInv
<1>2. LastPage(shelf[target]) \in Nat
  BY <1>1, LastPageHolds
<1>3. MaxPages \in Nat /\ total \in 0..MaxPages
  BY CatalogueAssumption DEF WorkInv
<1>4. CASE declared = 0 \/ Absurd(declared)
  BY <1>3, <1>4 DEF Known, ShapeInv
<1>5. CASE ~(declared = 0 \/ Absurd(declared))
  <2>1. declared <= MaxPages /\ declared # 0
    BY <1>3, <1>5 DEF Absurd
  <2>2. declared = Declared(shelf[target]) /\ counted /\ declared = LastPage(shelf[target])
    BY <1>3, <2>1 DEF Says, Declared
  <2>3. Known(declared) = declared
    BY <1>5 DEF Known
  <2> QED BY <1>3, <2>1, <2>2, <2>3
<1> QED BY <1>4, <1>5

\* What an answer comes to.
LEMMA ReceivesIs ==
  ASSUME SiteInv, ShapeInv, WorkInv, NEW declared \in Nat, Says(declared), phase = "list",
         Receives(declared), UNCHANGED siteVars
  PROVE  BreaksOff \/ GoesOn \/ Ends
<1> DEFINE s == shelf[target]
           entries == Entries(s, page)
           onward == page * PageSize < Len(s)
           verdict == Verdict(declared, entries, onward)
           full == IF adapter = "todoremates" THEN Cardinality(Objects(entries)) = PageSize
                   ELSE Len(entries) = PageSize
           refused == Absurd(declared) /\ adapter # "prado" /\ ~(adapter = "bavastro" /\ target # Home)
           more == IF adapter = "bavastro" THEN onward \/ (target = Home /\ full)
                   ELSE IF Known(declared) # 0 THEN page < Known(declared) ELSE full
<1>1. s \in Seq(Things) /\ page \in 1..MaxPages /\ page \in Nat \ {0} /\ flaw \in [Lots -> Flaws]
  BY CatalogueAssumption DEF SiteInv, WorkInv
<1>2. /\ entries \in Seq(Things) /\ Len(entries) <= PageSize /\ Len(entries) \in Nat
      /\ Len(entries) = PageSize => page * PageSize <= Len(s)
      /\ Len(entries) # PageSize => Len(s) <= page * PageSize
  <2>1. /\ entries \in Seq(Things) /\ Len(entries) <= PageSize
        /\ Len(entries) = PageSize => page * PageSize <= Len(s)
        /\ Len(entries) # PageSize => Len(s) <= page * PageSize
    BY <1>1, PageShows, Zenon
  <2> HIDE DEF entries
  <2> QED BY <2>1
<1>3. /\ PageSize \in Nat \ {0} /\ MaxPages \in Nat \ {0} /\ Len(s) \in Nat
      /\ page * PageSize \in Nat /\ MaxPages * PageSize \in Nat
  BY <1>1, Products
<1>4. LastPage(s) \in Nat /\ \A n \in Nat : LastPage(s) <= n <=> Len(s) <= n * PageSize
  BY <1>1, LastPageHolds
<1>5. adapter \in Numbered \/ adapter = "remotes"
  BY CatalogueAssumption DEF SiteInv
<1>6. verdict = IF adapter = "remotes" THEN "last"
                ELSE IF refused THEN "refused" ELSE IF more THEN "more" ELSE "last"
  BY DEF Verdict
<1>7. Cardinality(Objects(entries)) \in 0..Len(entries)
      /\ (NoJunk => Cardinality(Objects(entries)) = Len(entries))
  BY <1>1, <1>2, FullOfObjects
<1>8. (full => page * PageSize <= Len(s)) /\ (NoJunk /\ ~full => AllSeen)
  <2>1. full => Len(entries) = PageSize
    BY <1>2, <1>3, <1>7
  <2>2. NoJunk /\ ~full => Len(entries) # PageSize
    BY <1>7
  <2> QED BY <1>2, <2>1, <2>2 DEF AllSeen
<1>9. /\ Known(declared) \in 0..MaxPages /\ (~counted => Known(declared) = 0)
      /\ changes = 0 => Known(declared) \in {0, LastPage(shelf[target])}
  BY KnownIs
<1> HIDE DEF full
<1>10. CASE verdict = "refused" \/ (verdict = "more" /\ AtLimit)
  <2>1. Broken(target)
    BY <1>10, <1>6 DEF Receives
  <2>2. CASE verdict = "refused"
    <3>1. Absurd(declared) /\ ~(adapter = "bavastro" /\ target # Home)
      BY <1>6, <2>2
    <3>2. target \in troubled' \/ MaxPages < LastPage(s)
      BY <3>1, <1>3, <1>4 DEF Says, Absurd, Declared
    <3>3. target \in troubled' \/ MaxPages * PageSize < Len(s)
      <4>1. LastPage(s) <= MaxPages <=> Len(s) <= MaxPages * PageSize
        BY <1>3, <1>4
      <4> HIDE DEF s
      <4> QED BY <3>2, <4>1, <1>3, <1>4
    <3> QED BY <1>3, <2>1, <3>1, <3>3 DEF BreaksOff
  <2>3. CASE verdict = "more" /\ AtLimit
    <3>1. more /\ page = MaxPages /\ adapter # "remotes"
      BY <1>6, <2>3 DEF AtLimit
    <3>2. ~(page < Known(declared))
      BY <1>3, <1>9, <3>1
    <3>3. onward \/ ((adapter = "bavastro" => target = Home) /\ full)
      BY <3>1, <3>2
    <3> QED BY <1>3, <1>8, <2>1, <3>1, <3>3 DEF BreaksOff
  <2> QED BY <1>10, <2>2, <2>3
<1>11. CASE verdict = "more" /\ ~AtLimit
  <2>1. adapter \in Numbered
    BY <1>5, <1>6, <1>11
  <2>2. page < MaxPages
    BY <1>1, <1>3, <1>11 DEF AtLimit
  <2>3. /\ page' = page + 1 /\ rows' = rows \o entries /\ total' = Known(declared)
        /\ UNCHANGED <<phase, target, queue, resultVars>>
    BY <1>11, <1>6, <2>1 DEF Receives, Numbered
  <2> QED BY <1>9, <2>1, <2>2, <2>3 DEF GoesOn
<1>12. CASE verdict = "last"
  <2>1. LET read == IF adapter = "remotes" THEN shelf[Home] ELSE rows \o entries
        IN IF target = Home THEN Discovered(read) ELSE GroupRead(read)
    BY <1>12 DEF Receives
  <2>2. CASE adapter = "remotes"
    <3>1. target = Home
      BY <2>2 DEF ShapeInv
    <3> QED BY <2>1, <2>2, <3>1 DEF Ends
  <2>3. CASE adapter # "remotes"
    <3>1. adapter \in Numbered
      BY <1>5, <2>3
    <3>2. ~refused /\ ~more
      BY <1>6, <1>12, <2>3
    <3>3. ASSUME NoJunk
          PROVE  AllSeen \/ (adapter = "prado" /\ changes # 0 /\ TotalIsAbsurd')
      <4>1. CASE adapter = "bavastro"
        BY <1>3, <3>2, <4>1 DEF AllSeen
      <4>2. CASE adapter # "bavastro" /\ Known(declared) = 0
        BY <1>8, <3>2, <3>3, <4>2
      <4>3. CASE adapter # "bavastro" /\ Known(declared) # 0
        <5>1. Known(declared) <= page
          BY <1>1, <1>9, <3>2, <4>3
        <5>2. CASE Known(declared) = LastPage(s)
          BY <1>1, <1>4, <5>1, <5>2 DEF AllSeen
        <5>3. CASE Known(declared) # LastPage(s)
          <6>1. changes # 0 /\ counted
            BY <1>9, <4>3, <5>3
          <6>2. CASE declared = 0
            <7>1. LastPage(s) = 0
              BY <6>1, <6>2, <1>3 DEF Says, Declared
            <7>2. LastPage(s) <= page
              BY <1>1, <7>1
            <7> QED BY <1>1, <1>4, <7>2 DEF AllSeen
          <6>3. CASE declared # 0
            <7>1. Absurd(declared)
              <8> SUFFICES ASSUME ~Absurd(declared) PROVE FALSE
                OBVIOUS
              <8>1. Known(declared) = declared /\ declared <= MaxPages
                BY <1>3, <6>3 DEF Known, Absurd
              <8>2. declared = LastPage(s)
                BY <1>3, <6>1, <8>1 DEF Says, Declared
              <8> QED BY <5>3, <8>1, <8>2
            <7>2. adapter = "prado" /\ target = Home
              BY <3>2, <4>3, <7>1 DEF ShapeInv
            <7>3. TotalIsAbsurd'
              BY <6>1, <7>1, <7>2 DEF TotalIsAbsurd, Says, Declared, siteVars, LastPage, Absurd
            <7> QED BY <6>1, <7>2, <7>3
          <6> QED BY <6>2, <6>3
        <5> QED BY <5>2, <5>3
      <4> QED BY <4>1, <4>2, <4>3
    <3> QED BY <2>1, <2>3, <3>1, <3>3 DEF Ends
  <2> QED BY <2>2, <2>3
<1>13. verdict \in {"refused", "more", "last"}
  BY <1>6
<1> HIDE DEF verdict
<1> QED BY <1>10, <1>11, <1>12, <1>13

\* What a request comes to.
LEMMA FetchIs ==
  ASSUME SiteInv, ShapeInv, WorkInv, Fetch
  PROVE  /\ phase = "list" /\ UNCHANGED <<siteVars, refusals, changes>>
         /\ faults' \in 0..MaxFaults
         /\ troubled \subseteq troubled' /\ troubled' \subseteq troubled \union {target}
         /\ BreaksOff \/ GoesOn \/ Ends
<1>1. phase = "list" /\ UNCHANGED <<siteVars, refusals, changes>>
  BY DEF Fetch
<1>2. faults \in 0..MaxFaults /\ MaxFaults \in Nat /\ MaxPages \in Nat
  BY CatalogueAssumption DEF WorkInv
<1>3. Declared(shelf[target]) \in Nat /\ MaxPages + 1 \in Nat
  <2>1. shelf[target] \in Seq(Things)
    BY DEF SiteInv, WorkInv
  <2>2. LastPage(shelf[target]) \in Nat
    BY <2>1, LastPageHolds
  <2> QED BY <1>2, <2>2 DEF Declared
<1>4. ASSUME NEW blamed, Wrong(target, blamed)
      PROVE  /\ faults' \in 0..MaxFaults
             /\ troubled \subseteq troubled' /\ troubled' \subseteq troubled \union {target}
             /\ blamed => target \in troubled'
  BY <1>2, <1>4 DEF Wrong
<1>5. Says(Declared(shelf[target]))
  BY DEF Says
<1>6. CASE \E t \in Tries : /\ t.first # "answered" /\ Wrong(target, LetDown(t))
                            /\ IF Gets(t) THEN Receives(Declared(shelf[target])) ELSE Broken(target)
  <2> PICK t \in Tries : /\ t.first # "answered" /\ Wrong(target, LetDown(t))
                         /\ IF Gets(t) THEN Receives(Declared(shelf[target])) ELSE Broken(target)
    BY <1>6
  <2>1. CASE Gets(t)
    BY <1>1, <1>3, <1>4, <1>5, <2>1, ReceivesIs
  <2>2. CASE ~Gets(t)
    <3>1. LetDown(t)
      BY <2>2 DEF Gets, LetDown, Tries, Attempt
    <3> QED BY <1>1, <1>4, <2>2, <3>1 DEF BreaksOff
  <2> QED BY <2>1, <2>2
<1>7. CASE adapter \in Numbered /\ Wrong(target, TRUE) /\ Receives(MaxPages + 1)
  <2>1. target \in troubled'
    BY <1>4, <1>7
  <2>2. Says(MaxPages + 1)
    BY <1>7, <2>1 DEF Says
  <2> QED BY <1>1, <1>3, <1>4, <1>7, <2>2, ReceivesIs
<1>8. CASE UNCHANGED <<faults, troubled>> /\ Receives(Declared(shelf[target]))
  BY <1>1, <1>2, <1>3, <1>5, <1>8, ReceivesIs
<1> QED BY <1>6, <1>7, <1>8 DEF Fetch

\* What a list of the site shows.
LEMMA ShelfIs ==
  ASSUME SiteInv, NEW t \in Lists
  PROVE  /\ shelf[t] \in Seq(Things) /\ IsInjective(shelf[t])
         /\ \A i \in DOMAIN shelf[t] : Fits(t, shelf[t][i])
  BY DEF SiteInv

\* The records of a group.
LEMMA SoundAre ==
  ASSUME NEW s \in Seq(Things)
  PROVE  /\ Sound(s) \in Seq(Lots) /\ Len(Sound(s)) \in Nat
         /\ \A n \in DOMAIN Sound(s) : InSeq(Sound(s)[n], s)
         /\ \A i \in DOMAIN s : s[i] \in KeptLots /\ flaw[s[i]] # "untitled" => InSeq(s[i], Sound(s))
         /\ IsInjective(s) => IsInjective(Sound(s))
<1> DEFINE S == {l \in KeptLots : flaw[l] # "untitled"}
<1>1. /\ Sound(s) \in Seq(Things) /\ Len(Sound(s)) \in 0..Len(s)
      /\ \A n \in DOMAIN Sound(s) : \E i \in DOMAIN s : s[i] \in S /\ Sound(s)[n] = s[i]
      /\ \A i \in DOMAIN s : s[i] \in S => \E n \in DOMAIN Sound(s) : Sound(s)[n] = s[i]
      /\ IsInjective(s) => IsInjective(Sound(s))
  <2> HIDE DEF S
  <2>1. IsPick(Things, s, S, Picked(s, S))
    BY PickedIsSome
  <2>2. Sound(s) = Picked(s, S)
    BY DEF Sound, S
  <2> QED BY <2>1, <2>2 DEF IsPick
<1>2. S \subseteq Lots
  BY DEF KeptLots
<1>3. \A n \in DOMAIN Sound(s) : Sound(s)[n] \in Lots
  BY <1>1, <1>2
<1>4. Len(Sound(s)) \in Nat /\ Sound(s) \in Seq(Lots)
  BY <1>1, <1>3
<1> QED BY <1>1, <1>4 DEF InSeq

\* The lots of one category among the products of Prado.
LEMMA OfGroupAre ==
  ASSUME NEW s \in Seq(Things), NEW g
  PROVE  /\ OfGroup(g, s) \in Seq(Things)
         /\ \A n \in DOMAIN OfGroup(g, s) :
              InSeq(OfGroup(g, s)[n], s) /\ OfGroup(g, s)[n] \in KeptLots
              /\ GroupOf[OfGroup(g, s)[n]] = g
         /\ \A i \in DOMAIN s : s[i] \in KeptLots /\ GroupOf[s[i]] = g => InSeq(s[i], OfGroup(g, s))
         /\ IsInjective(s) => IsInjective(OfGroup(g, s))
<1> DEFINE S == {l \in KeptLots : GroupOf[l] = g}
<1>1. /\ OfGroup(g, s) \in Seq(Things)
      /\ \A n \in DOMAIN OfGroup(g, s) : \E i \in DOMAIN s : s[i] \in S /\ OfGroup(g, s)[n] = s[i]
      /\ \A i \in DOMAIN s : s[i] \in S => \E n \in DOMAIN OfGroup(g, s) : OfGroup(g, s)[n] = s[i]
      /\ IsInjective(s) => IsInjective(OfGroup(g, s))
  <2> HIDE DEF S
  <2>1. IsPick(Things, s, S, Picked(s, S))
    BY PickedIsSome
  <2>2. OfGroup(g, s) = Picked(s, S)
    BY DEF OfGroup, S
  <2> QED BY <2>1, <2>2 DEF IsPick
<1> QED BY <1>1 DEF InSeq

-----------------------------------------------------------------------------
(* The site changes *)

\* Two sequences, one after the other.
LEMMA Joined ==
  ASSUME NEW T, NEW s \in Seq(T), NEW e \in Seq(T)
  PROVE  /\ s \o e \in Seq(T) /\ Len(s \o e) = Len(s) + Len(e)
         /\ \A i \in DOMAIN (s \o e) :
              \/ i \in DOMAIN s /\ (s \o e)[i] = s[i]
              \/ i - Len(s) \in DOMAIN e /\ (s \o e)[i] = e[i - Len(s)]
         /\ \A i \in DOMAIN s : i \in DOMAIN (s \o e) /\ (s \o e)[i] = s[i]
         /\ \A j \in DOMAIN e : Len(s) + j \in DOMAIN (s \o e) /\ (s \o e)[Len(s) + j] = e[j]
<1> DEFINE h == s \o e
<1>1. h \in Seq(T) /\ Len(h) = Len(s) + Len(e) /\ DOMAIN h = 1..Len(s) + Len(e)
      /\ DOMAIN s = 1..Len(s) /\ DOMAIN e = 1..Len(e) /\ Len(s) \in Nat /\ Len(e) \in Nat
  OBVIOUS
<1>2. \A i \in DOMAIN h : h[i] = IF i <= Len(s) THEN s[i] ELSE e[i - Len(s)]
  OBVIOUS
<1> HIDE DEF h
<1>3. \A i \in DOMAIN h : IF i <= Len(s) THEN i \in DOMAIN s ELSE i - Len(s) \in DOMAIN e
  BY <1>1
<1>4. \A i \in DOMAIN s : i \in DOMAIN h /\ i <= Len(s)
  BY <1>1
<1>5. \A j \in DOMAIN e : Len(s) + j \in DOMAIN h /\ ~(Len(s) + j <= Len(s))
                          /\ (Len(s) + j) - Len(s) = j
  BY <1>1
<1>6. \A j \in DOMAIN e : h[Len(s) + j] = e[j]
  BY <1>2, <1>5
<1> QED BY <1>1, <1>2, <1>3, <1>4, <1>5, <1>6 DEF h

\* A sequence with one more thing at its head.
LEMMA Headed ==
  ASSUME NEW T, NEW s \in Seq(T), NEW x \in T
  PROVE  /\ <<x>> \o s \in Seq(T) /\ Len(<<x>> \o s) = Len(s) + 1
         /\ (<<x>> \o s)[1] = x /\ 1 \in DOMAIN (<<x>> \o s)
         /\ \A i \in DOMAIN s : i + 1 \in DOMAIN (<<x>> \o s) /\ (<<x>> \o s)[i + 1] = s[i]
         /\ \A i \in DOMAIN (<<x>> \o s) : i # 1 =>
              i - 1 \in DOMAIN s /\ (<<x>> \o s)[i] = s[i - 1]
         /\ IsInjective(s) /\ ~InSeq(x, s) => IsInjective(<<x>> \o s)
<1> DEFINE h == <<x>> \o s
<1>1. h \in Seq(T) /\ Len(h) = Len(s) + 1 /\ DOMAIN h = 1..Len(s) + 1 /\ DOMAIN s = 1..Len(s)
      /\ Len(s) \in Nat
  OBVIOUS
<1>2. h[1] = x /\ \A i \in DOMAIN h : i # 1 => h[i] = s[i - 1]
  OBVIOUS
<1> HIDE DEF h
<1>3. \A i \in DOMAIN h : i # 1 => i - 1 \in DOMAIN s
  BY <1>1
<1>4. \A i \in DOMAIN s : i + 1 \in DOMAIN h /\ i + 1 # 1 /\ (i + 1) - 1 = i
  BY <1>1
<1>5. \A i \in DOMAIN s : h[i + 1] = s[i]
  BY <1>2, <1>4
<1>6. ASSUME IsInjective(s), ~InSeq(x, s) PROVE IsInjective(h)
  <2> SUFFICES ASSUME NEW i \in DOMAIN h, NEW k \in DOMAIN h, h[i] = h[k] PROVE i = k
    BY DEF IsInjective
  <2>1. CASE i = 1 /\ k # 1
    BY <1>2, <1>3, <1>6, <2>1 DEF InSeq
  <2>2. CASE i # 1 /\ k = 1
    BY <1>2, <1>3, <1>6, <2>2 DEF InSeq
  <2>3. CASE i # 1 /\ k # 1
    <3>1. i - 1 = k - 1
      BY <1>2, <1>3, <1>6, <2>3 DEF IsInjective
    <3> QED BY <1>1, <3>1
  <2> QED BY <2>1, <2>2, <2>3
<1>7. 1 \in DOMAIN h
  BY <1>1
<1> QED BY <1>1, <1>2, <1>3, <1>4, <1>5, <1>6, <1>7 DEF h

\* Where a lot and its auction are shown.
LEMMA ListOfLot ==
  ASSUME adapter \in Adapters, NEW l \in Lots
  PROVE  /\ GroupOf[l] \in Groups /\ GroupOf[l] \in Lists /\ GroupOf[l] # Home /\ Home \in Lists
         /\ ShelfOf(l) \in Lists /\ Fits(ShelfOf(l), l)
         /\ l \notin Groups /\ l \in Things /\ GroupOf[l] \in Things
         /\ adapter # "prado" => Fits(Home, GroupOf[l]) /\ ShelfOf(l) = GroupOf[l]
  BY CatalogueAssumption DEF ShelfOf, Fits, Lists, Things

\* What is published stands at the head of a list, was not on it and had not stayed.
Grown(t) ==
  \/ shelf'[t] = shelf[t]
  \/ \E x \in Things : /\ Fits(t, x) /\ ~InSeq(x, shelf[t]) /\ ~Kept(x)
                       /\ shelf'[t] = <<x>> \o shelf[t]
\* What is published is new to its list.
LEMMA PublishIs ==
  ASSUME SiteInv, NEW l \in Lots, Publish(l)
  PROVE  DOMAIN shelf' = Lists /\ \A t \in Lists : Grown(t)
<1>1. DOMAIN shelf = Lists /\ adapter \in Adapters
  BY DEF SiteInv
<1>2. shelf' = [t \in Lists |->
                 IF t = ShelfOf(l) THEN <<l>> \o shelf[t]
                 ELSE IF t = Home /\ shelf[GroupOf[l]] = <<>> THEN <<GroupOf[l]>> \o shelf[t]
                 ELSE shelf[t]]
  BY <1>1 DEF Publish
<1>3. ~Shown(l)
  BY DEF Publish
<1>4. ASSUME NEW t \in Lists, t = ShelfOf(l) PROVE Grown(t)
  <2>1. ~InSeq(l, shelf[t])
    BY <1>3, <1>4 DEF InSeq, Shown
  <2>2. ~Kept(l)
    BY <1>3 DEF Kept, SiteInv, Offered
  <2> QED BY <1>1, <1>2, <1>4, <2>1, <2>2, ListOfLot DEF Grown
<1>5. ASSUME NEW t \in Lists, t # ShelfOf(l), t = Home, shelf[GroupOf[l]] = <<>> PROVE Grown(t)
  <2>1. adapter # "prado"
    BY <1>5 DEF ShelfOf
  <2>2. ~InSeq(GroupOf[l], shelf[t])
    BY <1>1, <1>5, <2>1, ListOfLot DEF SiteInv
  <2>3. GroupOf[l] \notin Lots
    BY <1>1, ListOfLot, CatalogueAssumption
  <2>4. ASSUME NEW m \in always, GroupOf[l] = GroupOf[m] PROVE FALSE
    <3>1. Shown(m)
      BY DEF SiteInv, Offered
    <3>2. PICK i \in DOMAIN shelf[GroupOf[m]] : TRUE
      BY <2>1, <3>1 DEF Shown, ShelfOf
    <3>3. DOMAIN shelf[GroupOf[l]] = {}
      BY <1>5
    <3> QED BY <2>4, <3>2, <3>3
  <2>5. ~Kept(GroupOf[l])
    BY <2>3, <2>4 DEF Kept
  <2> QED BY <1>1, <1>2, <1>5, <2>1, <2>2, <2>5, ListOfLot DEF Grown
<1>6. ASSUME NEW t \in Lists, t # ShelfOf(l), ~(t = Home /\ shelf[GroupOf[l]] = <<>>)
      PROVE  Grown(t)
  BY <1>2, <1>6 DEF Grown
<1> QED BY <1>2, <1>4, <1>5, <1>6

\* What is withdrawn is no longer on the list, and everything else is.
Without(t, x) ==
  /\ shelf'[t] \in Seq(Things) /\ IsInjective(shelf'[t])
  /\ Len(shelf'[t]) = Len(shelf[t]) - 1
  /\ \A y : InSeq(y, shelf'[t]) <=> InSeq(y, shelf[t]) /\ y # x
\* The list that something is taken from.
LEMMA LeftIs ==
  ASSUME SiteInv, NEW t \in Lists, NEW x, InSeq(x, shelf[t]), NEW S,
         \A i \in DOMAIN shelf[t] : shelf[t][i] \in S <=> shelf[t][i] # x,
         shelf'[t] = Picked(shelf[t], S)
  PROVE  Without(t, x)
<1>1. shelf[t] \in Seq(Things) /\ IsInjective(shelf[t])
  BY ShelfIs
<1>2. IsPick(Things, shelf[t], S, shelf'[t])
  BY <1>1, PickedIsSome
<1>3. PICK k \in DOMAIN shelf[t] : shelf[t][k] = x
  BY DEF InSeq
<1>4. Len(shelf'[t]) = Len(shelf[t]) - 1
  BY <1>1, <1>3, OneLess
<1>5. ASSUME NEW y PROVE InSeq(y, shelf'[t]) <=> InSeq(y, shelf[t]) /\ y # x
  BY <1>2 DEF IsPick, InSeq
<1> QED BY <1>1, <1>2, <1>4, <1>5 DEF IsPick, Without

\* What a withdrawal does to the lists.
LEMMA WithdrawIs ==
  ASSUME SiteInv, NEW l \in Lots, Withdraw(l)
  PROVE  /\ DOMAIN shelf' = Lists
         /\ Without(ShelfOf(l), l)
         /\ \A t \in Lists : t # ShelfOf(l) =>
              IF t = Home /\ shelf'[GroupOf[l]] = <<>> THEN Without(Home, GroupOf[l])
              ELSE shelf'[t] = shelf[t]
<1> DEFINE left == Picked(shelf[ShelfOf(l)], Lots \ {l})
           others == Picked(shelf[Home], Groups \ {GroupOf[l]})
<1>1. DOMAIN shelf = Lists /\ adapter \in Adapters
  BY DEF SiteInv
<1>2. shelf' = [t \in Lists |-> IF t = ShelfOf(l) THEN left
                                ELSE IF t = Home /\ left = <<>> THEN others ELSE shelf[t]]
  BY <1>1 DEF Withdraw
<1>3. InSeq(l, shelf[ShelfOf(l)])
  BY DEF Withdraw, Shown, InSeq
<1>4. ShelfOf(l) \in Lists /\ Home \in Lists /\ GroupOf[l] \in Groups /\ GroupOf[l] \in Lists
  BY <1>1, ListOfLot
<1> HIDE DEF left, others
<1>5. shelf'[ShelfOf(l)] = left
  BY <1>2, <1>4
<1>6. Without(ShelfOf(l), l)
  <2>1. \A i \in DOMAIN shelf[ShelfOf(l)] : shelf[ShelfOf(l)][i] \in Lots
    BY <1>4, ShelfIs, CatalogueAssumption DEF Fits, ShelfOf
  <2>2. \A i \in DOMAIN shelf[ShelfOf(l)] :
          shelf[ShelfOf(l)][i] \in Lots \ {l} <=> shelf[ShelfOf(l)][i] # l
    BY <2>1
  <2> QED BY <1>3, <1>4, <1>5, <2>2, LeftIs DEF left
<1>7. ASSUME NEW t \in Lists, t # ShelfOf(l)
      PROVE  IF t = Home /\ shelf'[GroupOf[l]] = <<>> THEN Without(Home, GroupOf[l])
             ELSE shelf'[t] = shelf[t]
  <2>1. CASE t = Home
    <3>1. adapter # "prado" /\ ShelfOf(l) = GroupOf[l]
      BY <1>7, <2>1 DEF ShelfOf
    <3>2. shelf'[GroupOf[l]] = left
      BY <1>5, <3>1
    <3>3. CASE left = <<>>
      <4>1. shelf'[Home] = others
        BY <1>2, <1>7, <2>1, <3>3
      <4>2. InSeq(GroupOf[l], shelf[Home])
        <5>1. DOMAIN shelf[GroupOf[l]] # {}
          BY <1>3, <3>1 DEF InSeq
        <5>2. shelf[GroupOf[l]] # <<>>
          BY <5>1
        <5> QED BY <1>4, <3>1, <5>2 DEF SiteInv
      <4>3. \A i \in DOMAIN shelf[Home] : shelf[Home][i] \in Groups
        BY <1>4, <3>1, ShelfIs DEF Fits
      <4>4. \A i \in DOMAIN shelf[Home] :
              shelf[Home][i] \in Groups \ {GroupOf[l]} <=> shelf[Home][i] # GroupOf[l]
        BY <4>3
      <4>5. Without(Home, GroupOf[l])
        BY <1>4, <4>1, <4>2, <4>4, LeftIs DEF others
      <4> QED BY <2>1, <3>2, <3>3, <4>5
    <3>4. CASE left # <<>>
      BY <1>2, <1>7, <2>1, <3>2, <3>4
    <3> QED BY <3>3, <3>4
  <2>2. CASE t # Home
    BY <1>2, <1>7, <2>2
  <2> QED BY <2>1, <2>2
<1> QED BY <1>2, <1>6, <1>7

\* The site as the scan finds it.
LEMMA SiteInit == Init => SiteInv
<1> SUFFICES ASSUME Init PROVE SiteInv
  OBVIOUS
<1> PICK S \in SUBSET Lots : shelf = [t \in Groups \union {Home} |-> SetToSeq(Contents(t, S))]
  BY DEF Init
<1>1. DOMAIN shelf = Lists /\ \A t \in Lists : shelf[t] = SetToSeq(Contents(t, S))
  BY DEF Lists
<1>2. /\ adapter \in Adapters /\ counted \in BOOLEAN /\ flaw \in [Lots -> Flaws]
      /\ adapter = "remotes" => \A l \in Lots : flaw[l] \in {"none", "untitled"}
  BY DEF Init, Flaws
<1>3. closed \subseteq Groups
  BY DEF Init
<1>4. GroupOf \in [Lots -> Groups] /\ IsFiniteSet(Lots) /\ Home \notin Groups
  BY CatalogueAssumption
<1>5. ASSUME NEW t \in Lists
      PROVE  /\ IsFiniteSet(Contents(t, S))
             /\ \A x \in Contents(t, S) : x \in Things /\ Fits(t, x)
  <2>1. IsFiniteSet(S)
    BY <1>4, FS_Subset
  <2>2. IsFiniteSet({})
    BY FS_EmptySet
  <2>3. IsFiniteSet({GroupOf[l] : l \in S})
    <3> DEFINE f == [l \in S |-> GroupOf[l]]
    <3>1. f \in [S -> {GroupOf[l] : l \in S}]
      OBVIOUS
    <3>2. f \in Surjection(S, {GroupOf[l] : l \in S})
      BY <3>1 DEF Surjection
    <3> HIDE DEF f
    <3> QED BY <2>1, <3>2, FS_Surjection
  <2>4. IsFiniteSet({l \in S : GroupOf[l] = t})
    BY <2>1, FS_Subset
  <2> QED BY <1>4, <2>1, <2>2, <2>3, <2>4 DEF Contents, Things, Fits, Lists
<1>6. ASSUME NEW t \in Lists
      PROVE  /\ shelf[t] \in Seq(Things) /\ IsInjective(shelf[t])
             /\ \A x : InSeq(x, shelf[t]) <=> x \in Contents(t, S)
             /\ \A i \in DOMAIN shelf[t] : Fits(t, shelf[t][i])
  <2> DEFINE C == Contents(t, S)
  <2>1. IsFiniteSet(C) /\ \A x \in C : x \in Things /\ Fits(t, x)
    BY <1>5
  <2> HIDE DEF C
  <2>2. /\ SetToSeq(C) \in Seq(C) /\ IsInjective(SetToSeq(C))
        /\ \A x \in C : \E i \in DOMAIN SetToSeq(C) : SetToSeq(C)[i] = x
    BY <2>1, SetInOrder
  <2>3. shelf[t] = SetToSeq(C)
    BY <1>1 DEF C
  <2>4. \A i \in DOMAIN shelf[t] : shelf[t][i] \in C
    BY <2>2, <2>3
  <2>5. shelf[t] \in Seq(Things)
    BY <2>1, <2>2, <2>3, <2>4
  <2>6. \A x : InSeq(x, shelf[t]) <=> x \in C
    BY <2>2, <2>3, <2>4 DEF InSeq
  <2> QED BY <2>1, <2>2, <2>3, <2>4, <2>5, <2>6 DEF C
<1>7. shelf \in [Lists -> Seq(Things)]
  <2>1. shelf = [t \in Lists |-> shelf[t]]
    BY <1>1 DEF Lists
  <2>2. \A t \in Lists : shelf[t] \in Seq(Things)
    BY <1>6
  <2> QED BY <2>1, <2>2
<1>8. adapter # "prado" => \A g \in Groups : shelf[g] # <<>> <=> InSeq(g, shelf[Home])
  <2> SUFFICES ASSUME adapter # "prado", NEW g \in Groups
               PROVE  shelf[g] # <<>> <=> InSeq(g, shelf[Home])
    OBVIOUS
  <2>1. Home \in Lists /\ g \in Lists /\ g # Home
    BY <1>4 DEF Lists
  <2>2. InSeq(g, shelf[Home]) <=> \E l \in S : GroupOf[l] = g
    <3>1. InSeq(g, shelf[Home]) <=> g \in Contents(Home, S)
      BY <1>6, <2>1
    <3>2. Contents(Home, S) = {GroupOf[l] : l \in S}
      BY DEF Contents
    <3> QED BY <3>1, <3>2
  <2>3. \A x : InSeq(x, shelf[g]) <=> x \in S /\ GroupOf[x] = g
    BY <1>6, <2>1 DEF Contents
  <2>4. shelf[g] = <<>> <=> DOMAIN shelf[g] = {}
    BY <1>6, <2>1
  <2>5. DOMAIN shelf[g] = {} <=> ~\E x : InSeq(x, shelf[g])
    BY DEF InSeq
  <2> QED BY <2>2, <2>3, <2>4, <2>5
<1>9. always \subseteq Lots /\ \A l \in always : Offered(l)
  BY DEF Init
<1> QED BY <1>1, <1>2, <1>3, <1>6, <1>7, <1>8, <1>9 DEF SiteInv

\* Every change of the site leaves lists that repeat nothing and show the auctions that have lots.
LEMMA SiteStep == SiteInv /\ [Next]_vars => SiteInv'
<1> SUFFICES ASSUME SiteInv, [Next]_vars PROVE SiteInv'
  OBVIOUS
<1>1. CASE UNCHANGED siteVars
  BY <1>1 DEF SiteInv, siteVars, Fits, InSeq, Offered, Shown, ShelfOf, Hidden
<1>2. ASSUME NEW l \in Lots, Publish(l) \/ Withdraw(l)
      PROVE  UNCHANGED <<adapter, flaw, counted, closed>>
  BY <1>2 DEF Publish, Withdraw, Changing
<1>3. adapter \in Adapters /\ Home \in Lists /\ Groups \subseteq Lists
  BY DEF SiteInv, Lists
<1>4. ASSUME NEW m \in Lots PROVE Shown(m) <=> InSeq(m, shelf[ShelfOf(m)])
  BY DEF Shown, InSeq
<1>5. ASSUME NEW l \in Lots, Publish(l) PROVE SiteInv'
  <2>1. DOMAIN shelf' = Lists /\ \A t \in Lists : Grown(t)
    BY <1>5, PublishIs
  <2>2. UNCHANGED <<adapter, flaw, counted, closed, always>>
    BY <1>2, <1>5 DEF Publish
  <2>3. ASSUME NEW t \in Lists
        PROVE  /\ shelf'[t] \in Seq(Things) /\ IsInjective(shelf'[t])
               /\ \A i \in DOMAIN shelf'[t] : Fits(t, shelf'[t][i])
               /\ \A y : InSeq(y, shelf[t]) => InSeq(y, shelf'[t])
    <3>1. CASE shelf'[t] = shelf[t]
      BY <3>1, ShelfIs
    <3>2. CASE shelf'[t] # shelf[t]
      <4> PICK x \in Things : /\ Fits(t, x) /\ ~InSeq(x, shelf[t]) /\ ~Kept(x)
                              /\ shelf'[t] = <<x>> \o shelf[t]
        BY <2>1, <3>2 DEF Grown
      <4>1. shelf[t] \in Seq(Things) /\ IsInjective(shelf[t])
            /\ \A i \in DOMAIN shelf[t] : Fits(t, shelf[t][i])
        BY ShelfIs
      <4>2. /\ shelf'[t] \in Seq(Things) /\ shelf'[t][1] = x
            /\ \A i \in DOMAIN shelf[t] : i + 1 \in DOMAIN shelf'[t] /\ shelf'[t][i + 1] = shelf[t][i]
            /\ \A i \in DOMAIN shelf'[t] : i # 1 =>
                 i - 1 \in DOMAIN shelf[t] /\ shelf'[t][i] = shelf[t][i - 1]
            /\ IsInjective(shelf'[t])
        BY <4>1, Headed
      <4>3. \A i \in DOMAIN shelf'[t] : Fits(t, shelf'[t][i])
        BY <4>1, <4>2
      <4>4. \A y : InSeq(y, shelf[t]) => InSeq(y, shelf'[t])
        BY <4>2 DEF InSeq
      <4> QED BY <4>2, <4>3, <4>4
    <3> QED BY <3>1, <3>2
  <2>4. (\A t \in Lists : IsInjective(shelf[t]) /\ \A i \in DOMAIN shelf[t] : Fits(t, shelf[t][i]))'
    BY <2>2, <2>3 DEF Fits
  <2>5. shelf' \in [Lists -> Seq(Things)]
    <3>1. shelf' = [t \in Lists |-> shelf'[t]]
      BY <1>5 DEF Publish, SiteInv
    <3> QED BY <2>3, <3>1
  <2>6. ASSUME adapter # "prado", NEW g \in Groups
        PROVE  shelf'[g] # <<>> <=> InSeq(g, shelf'[Home])
    <3>1. GroupOf[l] \in Groups /\ GroupOf[l] # Home /\ g # Home /\ l \notin Groups
          /\ ShelfOf(l) = GroupOf[l] /\ l \in Things /\ GroupOf[l] \in Things
      BY <1>3, <2>6, ListOfLot, CatalogueAssumption
    <3>2. shelf[g] \in Seq(Things) /\ shelf[Home] \in Seq(Things)
      BY <1>3, ShelfIs
    <3>3. shelf[g] # <<>> <=> InSeq(g, shelf[Home])
      BY <2>6 DEF SiteInv
    <3>4. shelf'[g] = IF g = GroupOf[l] THEN <<l>> \o shelf[g] ELSE shelf[g]
      BY <1>3, <1>5, <3>1 DEF Publish, SiteInv
    <3>5. shelf'[Home] = IF shelf[GroupOf[l]] = <<>> THEN <<GroupOf[l]>> \o shelf[Home] ELSE shelf[Home]
      BY <1>3, <1>5, <3>1 DEF Publish, SiteInv
    <3>6. CASE g = GroupOf[l]
      <4>1. shelf'[g] # <<>>
        BY <3>1, <3>2, <3>4, <3>6, Headed
      <4>2. CASE shelf[g] = <<>>
        BY <3>1, <3>2, <3>5, <3>6, <4>1, <4>2, Headed DEF InSeq
      <4>3. CASE shelf[g] # <<>>
        BY <3>3, <3>5, <3>6, <4>1, <4>3
      <4> QED BY <4>2, <4>3
    <3>7. CASE g # GroupOf[l]
      <4>1. InSeq(g, <<GroupOf[l]>> \o shelf[Home]) <=> InSeq(g, shelf[Home])
        <5> DEFINE h == <<GroupOf[l]>> \o shelf[Home]
        <5>1. /\ h[1] = GroupOf[l]
              /\ \A i \in DOMAIN shelf[Home] : i + 1 \in DOMAIN h /\ h[i + 1] = shelf[Home][i]
              /\ \A i \in DOMAIN h : i # 1 => i - 1 \in DOMAIN shelf[Home] /\ h[i] = shelf[Home][i - 1]
          BY <3>1, <3>2, Headed
        <5> HIDE DEF h
        <5>2. InSeq(g, h) <=> InSeq(g, shelf[Home])
          BY <3>7, <5>1 DEF InSeq
        <5> QED BY <5>2 DEF h
      <4> QED BY <3>3, <3>4, <3>5, <3>7, <4>1
    <3> QED BY <3>6, <3>7
  <2>7. ASSUME NEW m \in always PROVE Offered(m)'
    <3>1. m \in Lots /\ Offered(m)
      BY DEF SiteInv
    <3>2. InSeq(m, shelf'[ShelfOf(m)])
      BY <1>3, <2>3, <3>1, ListOfLot, <1>4 DEF Offered
    <3> QED BY <2>2, <3>1, <3>2 DEF Offered, Shown, ShelfOf, Hidden, InSeq
  <2> QED BY <2>2, <2>4, <2>5, <2>6, <2>7 DEF SiteInv, InSeq
<1>6. ASSUME NEW l \in Lots, Withdraw(l) PROVE SiteInv'
  <2>1. /\ DOMAIN shelf' = Lists
        /\ Without(ShelfOf(l), l)
        /\ \A t \in Lists : t # ShelfOf(l) =>
             IF t = Home /\ shelf'[GroupOf[l]] = <<>> THEN Without(Home, GroupOf[l])
             ELSE shelf'[t] = shelf[t]
    BY <1>6, WithdrawIs
  <2>2. UNCHANGED <<adapter, flaw, counted, closed>> /\ always' = always \ {l}
    BY <1>2, <1>6 DEF Withdraw
  <2>3. ASSUME NEW t \in Lists
        PROVE  /\ shelf'[t] \in Seq(Things) /\ IsInjective(shelf'[t])
               /\ \A i \in DOMAIN shelf'[t] : Fits(t, shelf'[t][i])
               /\ \A y : InSeq(y, shelf[t]) /\ y # l /\ (t = Home => y # GroupOf[l]) => InSeq(y, shelf'[t])
    <3>1. CASE shelf'[t] = shelf[t]
      BY <3>1, ShelfIs
    <3>2. ASSUME NEW x, Without(t, x), x = l \/ (t = Home /\ x = GroupOf[l]) PROVE <2>3!2
      <4>1. \A i \in DOMAIN shelf'[t] : InSeq(shelf'[t][i], shelf[t])
        BY <3>2 DEF Without, InSeq
      <4>2. \A i \in DOMAIN shelf'[t] : Fits(t, shelf'[t][i])
        BY <4>1, ShelfIs DEF InSeq
      <4> QED BY <3>2, <4>2 DEF Without
    <3> QED BY <2>1, <3>1, <3>2
  <2>4. (\A t \in Lists : IsInjective(shelf[t]) /\ \A i \in DOMAIN shelf[t] : Fits(t, shelf[t][i]))'
    BY <2>2, <2>3 DEF Fits
  <2>5. shelf' \in [Lists -> Seq(Things)]
    <3>1. shelf' = [t \in Lists |-> shelf'[t]]
      BY <1>6 DEF Withdraw, SiteInv
    <3> QED BY <2>3, <3>1
  <2>6. ASSUME adapter # "prado", NEW g \in Groups
        PROVE  shelf'[g] # <<>> <=> InSeq(g, shelf'[Home])
    <3>1. GroupOf[l] \in Groups /\ GroupOf[l] # Home /\ g # Home /\ ShelfOf(l) = GroupOf[l]
      BY <1>3, <2>6, ListOfLot, CatalogueAssumption
    <3>2. shelf[g] # <<>> <=> InSeq(g, shelf[Home])
      BY <2>6 DEF SiteInv
    <3>3. IF shelf'[GroupOf[l]] = <<>> THEN Without(Home, GroupOf[l]) ELSE shelf'[Home] = shelf[Home]
      BY <1>3, <2>1, <3>1
    <3>4. CASE g = GroupOf[l]
      <4>1. InSeq(g, shelf[Home])
        <5>1. DOMAIN shelf[g] # {}
          BY <1>6, <3>1, <3>4 DEF Withdraw, Shown
        <5> QED BY <3>2, <5>1
      <4> QED BY <3>3, <3>4, <4>1 DEF Without
    <3>5. CASE g # GroupOf[l]
      <4>1. shelf'[g] = shelf[g]
        BY <1>3, <2>1, <3>1, <3>5
      <4> QED BY <3>2, <3>3, <3>5, <4>1 DEF Without
    <3> QED BY <3>4, <3>5
  <2>7. ASSUME NEW m \in always, m # l PROVE Offered(m)'
    <3>1. m \in Lots /\ Offered(m)
      BY DEF SiteInv
    <3>2. m # GroupOf[l] /\ ShelfOf(m) \in Lists
      BY <1>3, <3>1, ListOfLot
    <3>3. InSeq(m, shelf'[ShelfOf(m)])
      BY <2>3, <2>7, <3>1, <3>2, <1>4 DEF Offered
    <3> QED BY <2>2, <3>1, <3>3 DEF Offered, Shown, ShelfOf, Hidden, InSeq
  <2> QED BY <2>2, <2>4, <2>5, <2>6, <2>7 DEF SiteInv, InSeq
<1>7. CASE Fetch \/ NextGroup \/ DetailFails \/ Price \/ Priced
  BY <1>1, <1>7 DEF Fetch, NextGroup, DetailFails, Price, Priced
<1>8. CASE ReportAuction \/ ReportCategory \/ NoGroupLeft \/ Rests \/ UNCHANGED vars
  BY <1>1, <1>8 DEF ReportAuction, ReportCategory, NoGroupLeft, Rests, vars, siteVars
<1> QED BY <1>5, <1>6, <1>7, <1>8 DEF Next

-----------------------------------------------------------------------------
(* The work has its shape *)

\* What has been read of a list, the page at hand included.
WhatIsRead == rows \o Entries(shelf[target], page)
\* What is read of a list, with the page at hand, belongs there.
LEMMA ReadIs ==
  ASSUME SiteInv, WorkInv
  PROVE  /\ WhatIsRead \in Seq(Things) /\ \A i \in DOMAIN WhatIsRead : Fits(target, WhatIsRead[i])
         /\ \A x : InSeq(x, WhatIsRead) <=> InSeq(x, rows) \/ InSeq(x, Entries(shelf[target], page))
<1> DEFINE e == Entries(shelf[target], page)
<1>1. target \in Lists /\ page \in Nat \ {0} /\ rows \in Seq(Things)
      /\ \A i \in DOMAIN rows : Fits(target, rows[i])
  BY CatalogueAssumption DEF WorkInv
<1>2. /\ shelf[target] \in Seq(Things)
      /\ \A i \in DOMAIN shelf[target] : Fits(target, shelf[target][i])
  BY <1>1, ShelfIs
<1>3. e \in Seq(Things) /\ \A j \in DOMAIN e : InSeq(e[j], shelf[target])
  BY <1>1, <1>2, PageShows DEF InSeq
<1>4. \A j \in DOMAIN e : Fits(target, e[j])
  <2> HIDE DEF e
  <2> QED BY <1>2, <1>3 DEF InSeq
<1> HIDE DEF e
<1>5. /\ rows \o e \in Seq(Things)
      /\ \A i \in DOMAIN (rows \o e) :
           \/ i \in DOMAIN rows /\ (rows \o e)[i] = rows[i]
           \/ i - Len(rows) \in DOMAIN e /\ (rows \o e)[i] = e[i - Len(rows)]
      /\ \A i \in DOMAIN rows : i \in DOMAIN (rows \o e) /\ (rows \o e)[i] = rows[i]
      /\ \A j \in DOMAIN e : Len(rows) + j \in DOMAIN (rows \o e) /\ (rows \o e)[Len(rows) + j] = e[j]
  BY <1>1, <1>3, Joined
<1>6. WhatIsRead = rows \o e
  BY DEF WhatIsRead, e
<1>7. \A i \in DOMAIN WhatIsRead : Fits(target, WhatIsRead[i])
  BY <1>1, <1>4, <1>5, <1>6
<1>8. \A x : InSeq(x, WhatIsRead) <=> InSeq(x, rows) \/ InSeq(x, e)
  <2> SUFFICES ASSUME NEW x PROVE InSeq(x, rows \o e) <=> InSeq(x, rows) \/ InSeq(x, e)
    BY <1>6
  <2>1. InSeq(x, rows \o e) => InSeq(x, rows) \/ InSeq(x, e)
    BY <1>5, Zenon DEF InSeq
  <2>2. InSeq(x, rows) => InSeq(x, rows \o e)
    BY <1>5, Zenon DEF InSeq
  <2>3. InSeq(x, e) => InSeq(x, rows \o e)
    BY <1>5, Zenon DEF InSeq
  <2> QED BY <2>1, <2>2, <2>3
<1> QED BY <1>5, <1>6, <1>7, <1>8 DEF e

\* The receipts of a group that was read and of one that failed.
LEMMA ReceiptIs ==
  ASSUME NEW g \in Groups, NEW s \in Seq(Things)
  PROVE  /\ ReceiptFor(g, s) \in Receipts /\ ReceiptFor(g, s).group = g
         /\ ReceiptFor(g, s).count = Len(Sound(s))
         /\ ReceiptFor(g, s).status = IF Spoilt(g, s) THEN "partial" ELSE "complete"
         /\ ReceiptFor(g, s).authoritative <=> ReceiptFor(g, s).status = "complete"
         /\ Receipt(g, "failed", 0) \in Receipts /\ Receipt(g, "failed", 0).group = g
         /\ Receipt(g, "failed", 0).status = "failed" /\ ~Receipt(g, "failed", 0).authoritative
<1>1. Len(Sound(s)) \in Nat
  BY SoundAre
<1> QED BY <1>1 DEF ReceiptFor, Receipt, Receipts

\* The lots of a group, each with its group.
LEMMA PairsAre ==
  ASSUME NEW g \in Groups, NEW s \in Seq(Lots)
  PROVE  /\ Pairs(g, s) \in Seq(Groups \X Lots) /\ Len(Pairs(g, s)) = Len(s)
         /\ DOMAIN Pairs(g, s) = DOMAIN s /\ \A i \in DOMAIN s : Pairs(g, s)[i] = <<g, s[i]>>
  BY DEF Pairs

\* A group that is reported keeps the result well typed.
LEMMA ReportedIs ==
  ASSUME WorkInv, NEW g \in Groups, NEW s \in Seq(Things), Reported(g, s)
  PROVE  /\ groups' \in Seq(Groups) /\ receipts' \in Seq(Receipts)
         /\ lots' \in Seq(Groups \X Lots) /\ flawless' \in BOOLEAN
<1>1. ReceiptFor(g, s) \in Receipts
  BY ReceiptIs
<1>2. Pairs(g, Sound(s)) \in Seq(Groups \X Lots)
  <2>1. Sound(s) \in Seq(Lots)
    BY SoundAre
  <2> QED BY <2>1, PairsAre
<1>3. groups \in Seq(Groups) /\ receipts \in Seq(Receipts) /\ lots \in Seq(Groups \X Lots)
      /\ flawless \in BOOLEAN
  BY DEF WorkInv
<1>4. groups' = Append(groups, g) /\ receipts' = Append(receipts, ReceiptFor(g, s))
      /\ lots' = lots \o Pairs(g, Sound(s)) /\ flawless' = (flawless /\ ~Malformed(s))
  BY DEF Reported
<1>5. lots' \in Seq(Groups \X Lots)
  BY <1>2, <1>3, <1>4
<1>6. flawless' \in BOOLEAN
  BY <1>4
<1> QED BY <1>1, <1>3, <1>4, <1>5, <1>6

\* The scan as it starts.
LEMMA WorkInit == Init => WorkInv
<1> SUFFICES ASSUME Init PROVE WorkInv
  OBVIOUS
<1>1. MaxPages \in Nat \ {0} /\ MaxPriceFailures \in Nat \ {0} /\ MaxFaults \in Nat /\ MaxChanges \in Nat
  BY CatalogueAssumption
<1>2. page \in 1..MaxPages /\ total \in 0..MaxPages /\ refusals \in 0..MaxPriceFailures
      /\ faults \in 0..MaxFaults /\ changes \in 0..MaxChanges /\ withdrawn \in 0..changes
  BY <1>1 DEF Init
<1> QED BY <1>2 DEF Init, WorkInv, Lists

\* A change of the site leaves the work of the scan alone.
LEMMA ChangingIs ==
  ASSUME NEW l \in Lots, Publish(l) \/ Withdraw(l)
  PROVE  /\ UNCHANGED <<adapter, flaw, counted, closed, phase, readVars, queue, refusals,
                        resultVars, faults, troubled>>
         /\ phase \in {"list", "next"} /\ changes < MaxChanges /\ changes' = changes + 1
         /\ withdrawn' = withdrawn \/ withdrawn' = withdrawn + 1
  BY DEF Publish, Withdraw, Changing

\* Every step of the scan keeps its own state well typed.
LEMMA WorkStep == SiteInv /\ ShapeInv /\ WorkInv /\ [Next]_vars => WorkInv'
<1> SUFFICES ASSUME SiteInv, ShapeInv, WorkInv, [Next]_vars PROVE WorkInv'
  OBVIOUS
<1>1. /\ MaxPages \in Nat \ {0} /\ MaxPriceFailures \in Nat \ {0} /\ MaxFaults \in Nat
      /\ MaxChanges \in Nat
  BY CatalogueAssumption
<1>2. Home \in Lists /\ Groups \subseteq Lists
  BY DEF Lists
<1>3. /\ target \in Lists /\ page \in 1..MaxPages /\ total \in 0..MaxPages
      /\ rows \in Seq(Things) /\ \A i \in DOMAIN rows : Fits(target, rows[i])
      /\ queue \in Seq(Groups) /\ refusals \in 0..MaxPriceFailures
      /\ groups \in Seq(Groups) /\ receipts \in Seq(Receipts) /\ lots \in Seq(Groups \X Lots)
      /\ flawless \in BOOLEAN
      /\ faults \in 0..MaxFaults /\ changes \in 0..MaxChanges /\ withdrawn \in 0..changes
      /\ troubled \subseteq Lists
      /\ phase \in {"list", "next", "price", "report", "done", "failed"}
  BY DEF WorkInv
<1>4. ASSUME NEW l \in Lots, Publish(l) \/ Withdraw(l) PROVE WorkInv'
  <2>1. /\ UNCHANGED <<adapter, phase, target, page, total, rows, queue, refusals,
                       groups, receipts, lots, flawless, faults, troubled>>
    BY <1>4, ChangingIs DEF readVars, resultVars
  <2>2. /\ changes < MaxChanges /\ changes' = changes + 1
        /\ withdrawn' = withdrawn \/ withdrawn' = withdrawn + 1
    BY <1>4, ChangingIs
  <2>3. changes' \in 0..MaxChanges /\ withdrawn' \in 0..changes'
    BY <1>1, <1>3, <2>2
  <2> QED BY <2>3, <1>3, <2>1 DEF WorkInv, Fits
<1>5. ASSUME NEW t \in Lists, NEW ph \in {"list", "next", "price", "report", "done", "failed"},
             Read(t, ph), queue' \in Seq(Groups), refusals' \in 0..MaxPriceFailures,
             groups' \in Seq(Groups), receipts' \in Seq(Receipts), lots' \in Seq(Groups \X Lots),
             flawless' \in BOOLEAN, faults' \in 0..MaxFaults, UNCHANGED <<changes, withdrawn>>,
             troubled' \subseteq Lists
      PROVE  WorkInv'
  BY <1>1, <1>3, <1>5 DEF Read, WorkInv
<1>6. CASE Fetch
  <2>1. /\ UNCHANGED <<siteVars, refusals, changes>> /\ faults' \in 0..MaxFaults
        /\ troubled' \subseteq Lists
        /\ BreaksOff \/ GoesOn \/ Ends
    BY <1>3, <1>6, FetchIs
  <2>2. CASE BreaksOff
    <3>1. CASE target = Home
      <4>1. phase' = "failed" /\ UNCHANGED <<resultVars, readVars, queue>>
        BY <2>2, <3>1 DEF BreaksOff, Broken
      <4> QED BY <1>3, <2>1, <4>1 DEF WorkInv, siteVars, resultVars, readVars, Fits
    <3>2. CASE target # Home
      <4>1. target \in Groups
        BY <1>3, <3>2 DEF Lists
      <4>2. /\ groups' = IF adapter = "bavastro" THEN groups ELSE Append(groups, target)
            /\ receipts' = Append(receipts, Receipt(target, "failed", 0))
            /\ flawless' = FALSE /\ UNCHANGED lots /\ Read(Home, "next") /\ UNCHANGED queue
        BY <2>2, <3>2 DEF BreaksOff, Broken
      <4>3. Receipt(target, "failed", 0) \in Receipts
        BY <4>1 DEF Receipt, Receipts
      <4>4. groups' \in Seq(Groups) /\ receipts' \in Seq(Receipts)
        BY <1>3, <4>1, <4>2, <4>3
      <4> QED BY <1>2, <1>3, <1>5, <2>1, <4>2, <4>4 DEF siteVars
    <3> QED BY <3>1, <3>2
  <2>3. CASE GoesOn
    <3>1. /\ page' = page + 1 /\ page < MaxPages /\ rows' = WhatIsRead /\ total' \in 0..MaxPages
          /\ UNCHANGED <<phase, target, queue, groups, receipts, lots, flawless>>
      BY <2>3 DEF GoesOn, resultVars, WhatIsRead
    <3>2. page' \in 1..MaxPages
      BY <1>1, <1>3, <3>1
    <3>3. rows' \in Seq(Things) /\ \A i \in DOMAIN rows' : Fits(target, rows'[i])
      BY <3>1, ReadIs
    <3>4. adapter' = adapter /\ UNCHANGED <<refusals, changes, withdrawn>>
      BY <2>1 DEF siteVars
    <3>5. (\A i \in DOMAIN rows : Fits(target, rows[i]))'
      BY <3>1, <3>3, <3>4 DEF Fits
    <3> QED BY <1>3, <2>1, <3>1, <3>2, <3>3, <3>4, <3>5 DEF WorkInv
  <2>4. CASE Ends
    <3>1. CASE adapter = "remotes"
      <4>1. queue' = shelf[Home] /\ phase' = "price" /\ UNCHANGED <<readVars, resultVars>>
        BY <2>4, <3>1 DEF Ends, Discovered, Numbered
      <4>2. queue' \in Seq(Groups)
        <5>1. shelf[Home] \in Seq(Things) /\ \A i \in DOMAIN shelf[Home] : shelf[Home][i] \in Groups
          BY <1>2, <3>1, ShelfIs DEF Fits
        <5> QED BY <4>1, <5>1
      <4> QED BY <1>3, <2>1, <4>1, <4>2 DEF WorkInv, siteVars, resultVars, readVars, Fits
    <3>2. CASE adapter # "remotes"
      <4>1. IF target = Home THEN Discovered(WhatIsRead) ELSE GroupRead(WhatIsRead)
        BY <2>4, <3>2 DEF Ends, WhatIsRead
      <4>2. WhatIsRead \in Seq(Things) /\ \A i \in DOMAIN WhatIsRead : Fits(target, WhatIsRead[i])
        BY ReadIs
      <4>3. CASE target = Home /\ adapter = "prado"
        <5>1. /\ rows' = WhatIsRead /\ flawless' = ~Malformed(WhatIsRead) /\ phase' = "report"
              /\ UNCHANGED <<target, page, total, queue, groups, receipts, lots>>
          BY <4>1, <4>3 DEF Discovered
        <5>2. adapter' = adapter /\ UNCHANGED <<refusals, changes, withdrawn>>
          BY <2>1 DEF siteVars
        <5>3. (\A i \in DOMAIN rows : Fits(target, rows[i]))'
          BY <4>2, <5>1, <5>2 DEF Fits
        <5>4. flawless' \in BOOLEAN
          BY <5>1
        <5> QED BY <1>3, <2>1, <4>2, <5>1, <5>2, <5>3, <5>4 DEF WorkInv
      <4>4. CASE target = Home /\ adapter # "prado"
        <5>1. queue' = WhatIsRead /\ Read(Home, "next") /\ UNCHANGED resultVars
          BY <3>2, <4>1, <4>4 DEF Discovered
        <5>2. queue' \in Seq(Groups)
          BY <4>2, <4>4, <5>1 DEF Fits
        <5> QED BY <1>2, <1>3, <1>5, <2>1, <5>1, <5>2 DEF siteVars, resultVars
      <4>5. CASE target # Home
        <5>1. Reported(target, WhatIsRead) /\ Read(Home, "next") /\ UNCHANGED queue
          BY <4>1, <4>5 DEF GroupRead
        <5>2. target \in Groups
          BY <1>3, <4>5 DEF Lists
        <5>3. /\ groups' \in Seq(Groups) /\ receipts' \in Seq(Receipts)
              /\ lots' \in Seq(Groups \X Lots) /\ flawless' \in BOOLEAN
          BY <4>2, <5>1, <5>2, ReportedIs
        <5> QED BY <1>2, <1>3, <1>5, <2>1, <5>1, <5>3 DEF siteVars
      <4> QED BY <4>3, <4>4, <4>5
    <3> QED BY <3>1, <3>2
  <2> QED BY <2>1, <2>2, <2>3, <2>4
<1>7. ASSUME queue # <<>> PROVE Head(queue) \in Groups /\ Tail(queue) \in Seq(Groups)
  BY <1>3, <1>7
<1>8. CASE NextGroup
  <2>1. queue' = Tail(queue) /\ queue # <<>>
        /\ (UNCHANGED <<phase, readVars>> \/ Read(Head(queue), "list"))
        /\ UNCHANGED <<siteVars, refusals, resultVars, faults, changes, troubled>>
    BY <1>8 DEF NextGroup
  <2>2. CASE UNCHANGED <<phase, readVars>>
    BY <1>3, <1>7, <2>1, <2>2 DEF WorkInv, siteVars, readVars, resultVars, Fits
  <2>3. CASE Read(Head(queue), "list")
    BY <1>2, <1>3, <1>5, <1>7, <2>1, <2>3 DEF siteVars, resultVars
  <2> QED BY <2>1, <2>2, <2>3
<1>9. CASE DetailFails
  <2>1. /\ queue # <<>> /\ queue' = Tail(queue) /\ flawless' = FALSE
        /\ receipts' = Append(receipts, Receipt(Head(queue), "failed", 0))
        /\ UNCHANGED <<siteVars, phase, readVars, refusals, groups, lots, changes>>
        /\ Wrong(Head(queue), TRUE)
    BY <1>9 DEF DetailFails
  <2>2. Receipt(Head(queue), "failed", 0) \in Receipts
    BY <1>7, <2>1 DEF Receipt, Receipts
  <2>3. receipts' \in Seq(Receipts)
    BY <1>3, <2>1, <2>2
  <2>4. faults' \in 0..MaxFaults /\ troubled' \subseteq Lists
    BY <1>1, <1>2, <1>3, <1>7, <2>1 DEF Wrong
  <2> QED BY <1>3, <1>7, <2>1, <2>3, <2>4 DEF WorkInv, siteVars, readVars, Fits
<1>10. CASE Price
  <2>1. /\ queue # <<>> /\ queue' = Tail(queue) /\ refusals < MaxPriceFailures
        /\ UNCHANGED <<siteVars, phase, readVars, resultVars, changes, troubled>>
        /\ refusals' = 0 \/ refusals' = refusals + 1
        /\ faults' = faults \/ (faults < MaxFaults /\ faults' = faults + 1)
    BY <1>10 DEF Price
  <2>2. refusals' \in 0..MaxPriceFailures /\ faults' \in 0..MaxFaults
    BY <1>1, <1>3, <2>1
  <2> QED BY <1>3, <1>7, <2>1, <2>2 DEF WorkInv, siteVars, readVars, resultVars, Fits
<1>11. CASE Priced
  <2>1. adapter = "remotes"
    BY <1>11 DEF Priced, ShapeInv
  <2>2. shelf[Home] \in Seq(Things) /\ \A i \in DOMAIN shelf[Home] : shelf[Home][i] \in Groups
    BY <1>2, <2>1, ShelfIs DEF Fits
  <2>3. queue' \in Seq(Groups)
    BY <1>11, <2>2 DEF Priced
  <2> QED BY <1>3, <1>11, <2>3 DEF Priced, WorkInv, siteVars, readVars, resultVars, Fits
<1>12. CASE ReportAuction
  <2>1. /\ queue # <<>> /\ queue' = Tail(queue) /\ Reported(Head(queue), shelf[Head(queue)])
        /\ UNCHANGED <<siteVars, phase, readVars, refusals, faults, changes, troubled>>
    BY <1>12 DEF ReportAuction
  <2>2. shelf[Head(queue)] \in Seq(Things)
    BY <1>2, <1>7, <2>1, ShelfIs
  <2>3. /\ groups' \in Seq(Groups) /\ receipts' \in Seq(Receipts)
        /\ lots' \in Seq(Groups \X Lots) /\ flawless' \in BOOLEAN
    BY <1>7, <2>1, <2>2, ReportedIs
  <2> QED BY <1>3, <1>7, <2>1, <2>3 DEF WorkInv, siteVars, readVars, Fits
<1>13. CASE ReportCategory
  <2> PICK i \in DOMAIN rows : NewCategory(i) /\ Reported(GroupOf[rows[i]], OfGroup(GroupOf[rows[i]], rows))
    BY <1>13 DEF ReportCategory
  <2>1. rows[i] \in Lots
    BY DEF NewCategory, KeptLots
  <2>2. GroupOf[rows[i]] \in Groups
    BY <2>1, CatalogueAssumption
  <2>3. OfGroup(GroupOf[rows[i]], rows) \in Seq(Things)
    BY <1>3, OfGroupAre
  <2>4. /\ groups' \in Seq(Groups) /\ receipts' \in Seq(Receipts)
        /\ lots' \in Seq(Groups \X Lots) /\ flawless' \in BOOLEAN
    BY <2>2, <2>3, ReportedIs
  <2>5. UNCHANGED <<siteVars, phase, readVars, queue, refusals, faults, changes, troubled>>
    BY <1>13 DEF ReportCategory
  <2> QED BY <1>3, <2>4, <2>5 DEF WorkInv, siteVars, readVars, Fits
<1>14. CASE NoGroupLeft \/ Rests \/ UNCHANGED vars
  <2>1. /\ phase' \in {phase, "done"}
        /\ UNCHANGED <<siteVars, readVars, queue, refusals, resultVars, faults, changes, troubled>>
    BY <1>14 DEF NoGroupLeft, Rests, vars
  <2> QED BY <1>3, <2>1 DEF WorkInv, siteVars, readVars, resultVars, Fits
<1> QED BY <1>4, <1>6, <1>8, <1>9, <1>10, <1>11, <1>12, <1>13, <1>14 DEF Next

\* The scan starts with the list of all auctions.
LEMMA ShapeInit == Init => ShapeInv
  BY DEF Init, ShapeInv

\* One receipt more.
LEMMA OneReceiptMore ==
  ASSUME WorkInv, NEW r \in Receipts, receipts' = Append(receipts, r)
  PROVE  /\ receipts' \in Seq(Receipts) /\ Len(receipts') = Len(receipts) + 1
         /\ DOMAIN receipts' = 1..Len(receipts) + 1 /\ DOMAIN receipts = 1..Len(receipts)
         /\ Len(receipts) + 1 \in DOMAIN receipts' /\ receipts'[Len(receipts) + 1] = r
         /\ \A i \in DOMAIN receipts : i \in DOMAIN receipts' /\ receipts'[i] = receipts[i]
         /\ \A i \in DOMAIN receipts' :
              \/ i \in DOMAIN receipts /\ receipts'[i] = receipts[i]
              \/ i = Len(receipts) + 1 /\ receipts'[i] = r
<1>1. receipts \in Seq(Receipts)
  BY DEF WorkInv
<1> QED BY <1>1

\* Every step keeps to the adapter's own phases.
LEMMA ShapeStep == SiteInv /\ ShapeInv /\ WorkInv /\ [Next]_vars => ShapeInv'
<1> SUFFICES ASSUME SiteInv, ShapeInv, WorkInv, [Next]_vars PROVE ShapeInv'
  OBVIOUS
<1>1. /\ target # Home => phase = "list" /\ adapter \in {"todoremates", "bavastro"}
      /\ phase = "next" => adapter \in {"todoremates", "bavastro"}
      /\ phase = "price" => adapter = "remotes"
      /\ phase = "report" => adapter \in {"prado", "remotes"}
      /\ (phase = "list" /\ target = Home) \/ phase = "price" =>
           groups = <<>> /\ receipts = <<>> /\ lots = <<>> /\ flawless
      /\ (phase = "list" /\ target = Home) \/ phase = "done" => queue = <<>>
      /\ adapter = "prado" => queue = <<>>
      /\ \A i \in DOMAIN receipts : receipts[i].authoritative <=> receipts[i].status = "complete"
      /\ ~counted => total = 0
      /\ changes = 0 => total \in {0, LastPage(shelf[target])}
  BY DEF ShapeInv
<1>2. receipts \in Seq(Receipts) /\ Home \in Lists /\ Groups \subseteq Lists /\ target \in Lists
      /\ changes \in Nat /\ Home \notin Groups /\ queue \in Seq(Groups)
  <2>1. MaxChanges \in Nat
    BY CatalogueAssumption
  <2> QED BY <2>1, CatalogueAssumption DEF WorkInv, Lists
\* The receipts after a step that adds none or one of the usual kind.
<1>3. ASSUME NEW r \in Receipts, r.authoritative <=> r.status = "complete",
             receipts' = Append(receipts, r)
      PROVE  \A i \in DOMAIN receipts' : receipts'[i].authoritative <=> receipts'[i].status = "complete"
  BY <1>1, <1>3, OneReceiptMore
\* A change of the site leaves the scan alone, and is counted.
<1>4. ASSUME NEW l \in Lots, Publish(l) \/ Withdraw(l) PROVE ShapeInv'
  <2>1. /\ UNCHANGED <<adapter, counted, phase, target, total, queue, groups, receipts, lots, flawless>>
        /\ changes' = changes + 1
    BY <1>4, ChangingIs DEF readVars, resultVars
  <2>2. changes' # 0
    BY <1>2, <2>1
  <2> QED BY <1>1, <2>1, <2>2 DEF ShapeInv
<1>5. ASSUME Read(Home, "next"), adapter \in {"todoremates", "bavastro"}, UNCHANGED <<adapter, counted>>,
             \A i \in DOMAIN receipts' : receipts'[i].authoritative <=> receipts'[i].status = "complete"
      PROVE  ShapeInv'
  BY <1>5 DEF Read, ShapeInv
<1>6. CASE Fetch
  <2>1. /\ phase = "list" /\ UNCHANGED <<adapter, counted, shelf, refusals, changes>>
        /\ BreaksOff \/ GoesOn \/ Ends
    BY <1>6, FetchIs DEF siteVars
  <2>2. CASE BreaksOff
    <3>1. CASE target = Home
      <4>1. phase' = "failed" /\ UNCHANGED <<target, total, queue, groups, receipts, lots, flawless>>
        BY <2>2, <3>1 DEF BreaksOff, Broken, resultVars, readVars
      <4> QED BY <1>1, <2>1, <3>1, <4>1 DEF ShapeInv, LastPage
    <3>2. CASE target # Home
      <4>1. Read(Home, "next") /\ receipts' = Append(receipts, Receipt(target, "failed", 0))
        BY <2>2, <3>2 DEF BreaksOff, Broken
      <4>2. target \in Groups
        BY <1>2, <3>2 DEF Lists
      <4>3. Receipt(target, "failed", 0) \in Receipts
            /\ (Receipt(target, "failed", 0).authoritative <=> Receipt(target, "failed", 0).status = "complete")
        BY <4>2 DEF Receipt, Receipts
      <4>4. \A i \in DOMAIN receipts' : receipts'[i].authoritative <=> receipts'[i].status = "complete"
        BY <1>3, <4>1, <4>3
      <4> QED BY <1>1, <1>5, <2>1, <3>2, <4>1, <4>4
    <3> QED BY <3>1, <3>2
  <2>3. CASE GoesOn
    <3>1. /\ ~counted => total' = 0
          /\ changes = 0 => total' \in {0, LastPage(shelf[target])}
          /\ UNCHANGED <<phase, target, queue, groups, receipts, lots, flawless>>
      BY <2>3 DEF GoesOn, resultVars
    <3> QED BY <1>1, <2>1, <3>1 DEF ShapeInv, LastPage
  <2>4. CASE Ends
    <3>1. CASE adapter = "remotes"
      <4>1. phase' = "price" /\ UNCHANGED <<target, total, groups, receipts, lots, flawless>>
        BY <2>4, <3>1 DEF Ends, Discovered, Numbered, readVars, resultVars
      <4>2. target = Home
        BY <1>1, <3>1
      <4> QED BY <1>1, <2>1, <3>1, <4>1, <4>2 DEF ShapeInv, LastPage
    <3>2. CASE adapter # "remotes"
      <4>1. IF target = Home THEN Discovered(WhatIsRead) ELSE GroupRead(WhatIsRead)
        BY <2>4, <3>2 DEF Ends, WhatIsRead
      <4>2. CASE target = Home /\ adapter = "prado"
        <5>1. /\ phase' = "report" /\ UNCHANGED <<target, total, queue, groups, receipts, lots>>
          BY <4>1, <4>2 DEF Discovered
        <5> QED BY <1>1, <2>1, <4>2, <5>1 DEF ShapeInv, LastPage
      <4>3. CASE target = Home /\ adapter # "prado"
        <5>1. Read(Home, "next") /\ UNCHANGED receipts /\ adapter \in {"todoremates", "bavastro"}
          BY <3>2, <4>1, <4>3 DEF Discovered, resultVars
        <5> QED BY <1>1, <1>5, <2>1, <5>1
      <4>4. CASE target # Home
        <5>1. Read(Home, "next") /\ receipts' = Append(receipts, ReceiptFor(target, WhatIsRead))
          BY <4>1, <4>4 DEF GroupRead, Reported
        <5>2. target \in Groups /\ WhatIsRead \in Seq(Things)
          BY <1>2, <4>4, ReadIs DEF Lists
        <5>3. \A i \in DOMAIN receipts' : receipts'[i].authoritative <=> receipts'[i].status = "complete"
          BY <1>3, <5>1, <5>2, ReceiptIs
        <5> QED BY <1>1, <1>5, <2>1, <4>4, <5>1, <5>3
      <4> QED BY <4>2, <4>3, <4>4
    <3> QED BY <3>1, <3>2
  <2> QED BY <2>1, <2>2, <2>3, <2>4
<1>7. CASE NextGroup
  <2>1. /\ phase = "next" /\ queue # <<>>
        /\ UNCHANGED <<adapter, counted, shelf, changes, groups, receipts, lots, flawless>>
        /\ UNCHANGED <<phase, target, total>> \/ Read(Head(queue), "list")
    BY <1>7 DEF NextGroup, siteVars, readVars, resultVars
  <2>2. CASE UNCHANGED <<phase, target, total>>
    BY <1>1, <2>1, <2>2 DEF ShapeInv, LastPage
  <2>3. CASE Read(Head(queue), "list")
    <3>1. Head(queue) # Home
      BY <1>2, <2>1
    <3> QED BY <1>1, <2>1, <2>3, <3>1 DEF ShapeInv, Read
  <2> QED BY <2>1, <2>2, <2>3
<1>8. CASE DetailFails
  <2>1. /\ phase = "next" /\ adapter = "bavastro" /\ queue # <<>>
        /\ receipts' = Append(receipts, Receipt(Head(queue), "failed", 0))
        /\ UNCHANGED <<adapter, counted, shelf, changes, phase, target, total>>
    BY <1>8 DEF DetailFails, siteVars, readVars
  <2>2. Receipt(Head(queue), "failed", 0) \in Receipts
        /\ (Receipt(Head(queue), "failed", 0).authoritative
              <=> Receipt(Head(queue), "failed", 0).status = "complete")
    <3>1. Head(queue) \in Groups
      BY <1>2, <2>1
    <3> QED BY <3>1 DEF Receipt, Receipts
  <2>3. \A i \in DOMAIN receipts' : receipts'[i].authoritative <=> receipts'[i].status = "complete"
    BY <1>3, <2>1, <2>2
  <2> QED BY <1>1, <2>1, <2>3 DEF ShapeInv, LastPage
<1>9. CASE Price
  BY <1>1, <1>9 DEF Price, ShapeInv, siteVars, readVars, resultVars, LastPage
<1>10. CASE Priced
  BY <1>1, <1>10 DEF Priced, ShapeInv, siteVars, readVars, resultVars, LastPage
<1>11. ASSUME NEW g \in Groups, NEW s \in Seq(Things), Reported(g, s), phase = "report",
              adapter = "prado" => queue' = queue,
              UNCHANGED <<adapter, counted, shelf, changes, phase, target, total>>
       PROVE  ShapeInv'
  <2>1. receipts' = Append(receipts, ReceiptFor(g, s))
    BY <1>11 DEF Reported
  <2>2. \A i \in DOMAIN receipts' : receipts'[i].authoritative <=> receipts'[i].status = "complete"
    BY <1>3, <2>1, ReceiptIs
  <2> QED BY <1>1, <1>11, <2>2 DEF ShapeInv, LastPage
<1>12. CASE ReportAuction
  <2>1. /\ phase = "report" /\ queue # <<>> /\ Reported(Head(queue), shelf[Head(queue)])
        /\ UNCHANGED <<adapter, counted, shelf, changes, phase, target, total>>
    BY <1>12 DEF ReportAuction, siteVars, readVars
  <2>2. Head(queue) \in Groups /\ adapter # "prado"
    BY <1>1, <1>2, <2>1
  <2>3. shelf[Head(queue)] \in Seq(Things)
    BY <1>2, <2>2, ShelfIs
  <2> QED BY <1>11, <2>1, <2>2, <2>3
<1>13. CASE ReportCategory
  <2> PICK i \in DOMAIN rows : NewCategory(i) /\ Reported(GroupOf[rows[i]], OfGroup(GroupOf[rows[i]], rows))
    BY <1>13 DEF ReportCategory
  <2>1. GroupOf[rows[i]] \in Groups
    BY CatalogueAssumption DEF NewCategory, KeptLots
  <2>2. OfGroup(GroupOf[rows[i]], rows) \in Seq(Things)
    BY OfGroupAre DEF WorkInv
  <2>3. phase = "report" /\ queue' = queue
        /\ UNCHANGED <<adapter, counted, shelf, changes, phase, target, total>>
    BY <1>13 DEF ReportCategory, siteVars, readVars
  <2> QED BY <1>11, <2>1, <2>2, <2>3
<1>14. CASE NoGroupLeft
  <2>1. /\ phase \in {"next", "report"} /\ phase' = "done" /\ queue = <<>>
        /\ UNCHANGED <<adapter, counted, shelf, changes, target, total, queue, receipts>>
    BY <1>14 DEF NoGroupLeft, siteVars, readVars, resultVars
  <2> QED BY <1>1, <2>1 DEF ShapeInv, LastPage
<1>15. CASE UNCHANGED vars
  BY <1>1, <1>15 DEF vars, siteVars, readVars, resultVars, ShapeInv, LastPage
<1> QED BY <1>4, <1>6, <1>7, <1>8, <1>9, <1>10, <1>12, <1>13, <1>14, <1>15 DEF Next, Rests

-----------------------------------------------------------------------------
(* Types *)

Shape == SiteInv /\ ShapeInv /\ WorkInv
\* Site, phases and types together.
LEMMA ShapeHolds == Spec => []Shape
<1>1. Init => Shape
  BY SiteInit, ShapeInit, WorkInit DEF Shape
<1>2. Shape /\ [Next]_vars => Shape'
  BY SiteStep, ShapeStep, WorkStep DEF Shape
<1> QED BY <1>1, <1>2, PTL DEF Spec

\* The type invariant: whatever the site shows, changes and refuses, no counter of the
\* scans of sources/prado.py, todoremates.py, bavastro.py and remotes.py leaves its range,
\* and they never read past the last page they allow themselves.
THEOREM TypeCorrect == Spec => []TypeOK
<1>1. Shape => TypeOK
  BY TypesHold DEF Shape
<1> QED BY <1>1, ShapeHolds, PTL

-----------------------------------------------------------------------------
(* What a step of the scan adds to the result *)

\* Nothing; or the receipt of a group that failed; or a group with its lots.
Quiet ==
  /\ UNCHANGED <<groups, receipts, lots>>
  /\ \/ flawless' = flawless
        /\ (adapter = "prado" /\ phase' = "report" => phase = "report" /\ rows' = rows)
     \/ flawless' = ~Malformed(rows') /\ adapter = "prado" /\ phase = "list"
FailsFor(g) ==
  /\ receipts' = Append(receipts, Receipt(g, "failed", 0))
  /\ groups' = IF adapter = "bavastro" THEN groups ELSE Append(groups, g)
  /\ ~flawless' /\ UNCHANGED lots
  /\ adapter \in {"todoremates", "bavastro"}
  /\ \/ g \in troubled' /\ (adapter = "bavastro" \/ target = g)
     \/ /\ MaxPages * PageSize <= Len(shelf[g]) /\ target = g
        /\ adapter = "bavastro" => MaxPages * PageSize < Len(shelf[g])
LotsOf(g, s) ==
  \/ /\ phase = "list" /\ target = g /\ s = WhatIsRead /\ adapter \in {"todoremates", "bavastro"}
     /\ NoJunk => AllSeen
  \/ /\ phase = "report" /\ adapter = "remotes" /\ queue # <<>>
     /\ g = Head(queue) /\ s = shelf[g]
  \/ /\ phase = "report" /\ adapter = "prado" /\ rows' = rows /\ s = OfGroup(g, rows)
     /\ \E i \in DOMAIN rows : NewCategory(i) /\ g = GroupOf[rows[i]]
ReportsFor(g, s) ==
  /\ Reported(g, s) /\ LotsOf(g, s)
  /\ \A i \in DOMAIN s : s[i] \in Lots /\ GroupOf[s[i]] = g

\* What every step of the scan itself comes to.
LEMMA ResultStep ==
  ASSUME SiteInv, ShapeInv, WorkInv, [Next]_vars, ~\E l \in Lots : Publish(l) \/ Withdraw(l)
  PROVE  /\ UNCHANGED <<siteVars, changes>> /\ troubled \subseteq troubled'
         /\ \/ Quiet
            \/ \E g \in Groups : FailsFor(g)
            \/ \E g \in Groups, s \in Seq(Things) : ReportsFor(g, s)
<1>1. /\ target \in Lists /\ queue \in Seq(Groups) /\ Home \in Lists /\ Groups \subseteq Lists
      /\ Home \notin Groups /\ rows \in Seq(Things) /\ \A i \in DOMAIN rows : Fits(target, rows[i])
  BY CatalogueAssumption DEF WorkInv, Lists
<1>2. ASSUME NEW g \in Groups, NEW i \in DOMAIN shelf[g], adapter # "prado"
      PROVE  shelf[g][i] \in Lots /\ GroupOf[shelf[g][i]] = g
  BY <1>1, <1>2, ShelfIs DEF Fits
<1>3. CASE Fetch
  <2>1. /\ phase = "list" /\ UNCHANGED <<siteVars, refusals, changes>> /\ troubled \subseteq troubled'
        /\ BreaksOff \/ GoesOn \/ Ends
    BY <1>3, FetchIs
  <2>2. CASE BreaksOff
    <3>1. CASE target = Home
      <4>1. phase' = "failed" /\ UNCHANGED resultVars
        BY <2>2, <3>1 DEF BreaksOff, Broken
      <4> QED BY <2>1, <4>1 DEF Quiet, resultVars
    <3>2. CASE target # Home
      <4>1. adapter \in {"todoremates", "bavastro"} /\ target \in Groups
        BY <1>1, <3>2 DEF ShapeInv, Lists
      <4>2. /\ receipts' = Append(receipts, Receipt(target, "failed", 0))
            /\ groups' = IF adapter = "bavastro" THEN groups ELSE Append(groups, target)
            /\ ~flawless' /\ UNCHANGED lots
        BY <2>2, <3>2 DEF BreaksOff, Broken
      <4>3. FailsFor(target)
        BY <2>2, <3>2, <4>1, <4>2 DEF BreaksOff, FailsFor
      <4> QED BY <2>1, <4>1, <4>3
    <3> QED BY <3>1, <3>2
  <2>3. CASE GoesOn
    BY <2>1, <2>3 DEF GoesOn, Quiet, resultVars
  <2>4. CASE Ends
    <3>1. CASE adapter = "remotes"
      BY <2>1, <2>4, <3>1 DEF Ends, Discovered, Numbered, Quiet, resultVars
    <3>2. CASE adapter # "remotes"
      <4>1. /\ IF target = Home THEN Discovered(WhatIsRead) ELSE GroupRead(WhatIsRead)
            /\ adapter # "prado" => (NoJunk => AllSeen)
        BY <2>4, <3>2 DEF Ends, WhatIsRead
      <4>2. CASE target = Home
        BY <2>1, <3>2, <4>1, <4>2 DEF Discovered, Quiet, resultVars
      <4>3. CASE target # Home
        <5>1. target \in Groups /\ adapter \in {"todoremates", "bavastro"}
          BY <1>1, <4>3 DEF Lists, ShapeInv
        <5>2. WhatIsRead \in Seq(Things) /\ \A i \in DOMAIN WhatIsRead : Fits(target, WhatIsRead[i])
          BY ReadIs
        <5>3. \A i \in DOMAIN WhatIsRead : WhatIsRead[i] \in Lots /\ GroupOf[WhatIsRead[i]] = target
          BY <4>3, <5>1, <5>2 DEF Fits
        <5>4. ReportsFor(target, WhatIsRead)
          BY <2>1, <4>1, <4>3, <5>1, <5>3 DEF GroupRead, ReportsFor, LotsOf
        <5> QED BY <2>1, <5>1, <5>2, <5>4
      <4> QED BY <4>2, <4>3
    <3> QED BY <3>1, <3>2
  <2> QED BY <2>1, <2>2, <2>3, <2>4
<1>4. CASE NextGroup
  <2>1. UNCHANGED <<siteVars, resultVars, changes, troubled>> /\ phase = "next"
    BY <1>4 DEF NextGroup
  <2>2. adapter # "prado"
    BY <2>1 DEF ShapeInv
  <2> QED BY <2>1, <2>2 DEF Quiet, resultVars
<1>5. CASE DetailFails
  <2>1. /\ Head(queue) \in Groups /\ adapter = "bavastro" /\ Wrong(Head(queue), TRUE)
        /\ receipts' = Append(receipts, Receipt(Head(queue), "failed", 0))
        /\ flawless' = FALSE /\ UNCHANGED <<siteVars, groups, lots, changes>>
    <3>1. queue # <<>> /\ adapter = "bavastro" /\ \E t \in Tries : Wrong(Head(queue), TRUE)
      BY <1>5, Zenon DEF DetailFails
    <3>2. Wrong(Head(queue), TRUE)
      BY <3>1, Zenon
    <3>3. Head(queue) \in Groups
      BY <1>1, <3>1
    <3> QED BY <1>5, <3>1, <3>2, <3>3 DEF DetailFails
  <2>2. Head(queue) \in troubled' /\ troubled \subseteq troubled'
    BY <2>1 DEF Wrong
  <2>3. FailsFor(Head(queue))
    BY <2>1, <2>2 DEF FailsFor
  <2> QED BY <2>1, <2>2, <2>3
<1>6. CASE Price \/ Priced
  <2>1. UNCHANGED <<siteVars, resultVars, changes, troubled>> /\ phase = "price"
    BY <1>6 DEF Price, Priced
  <2>2. adapter # "prado"
    BY <2>1 DEF ShapeInv
  <2> QED BY <2>1, <2>2 DEF Quiet, resultVars
<1>7. CASE ReportAuction
  <2>1. /\ phase = "report" /\ queue # <<>> /\ Reported(Head(queue), shelf[Head(queue)])
        /\ UNCHANGED <<siteVars, changes, troubled>>
    BY <1>7 DEF ReportAuction
  <2>2. Head(queue) \in Groups /\ adapter = "remotes"
    BY <1>1, <2>1 DEF ShapeInv
  <2>3. shelf[Head(queue)] \in Seq(Things)
    BY <1>1, <2>2, ShelfIs
  <2>4. ReportsFor(Head(queue), shelf[Head(queue)])
    BY <1>2, <2>1, <2>2 DEF ReportsFor, LotsOf
  <2> QED BY <2>1, <2>2, <2>3, <2>4
<1>8. CASE ReportCategory
  <2> PICK i \in DOMAIN rows : NewCategory(i) /\ Reported(GroupOf[rows[i]], OfGroup(GroupOf[rows[i]], rows))
    BY <1>8 DEF ReportCategory
  <2> DEFINE g == GroupOf[rows[i]]
  <2>1. /\ phase = "report" /\ adapter = "prado" /\ rows' = rows
        /\ UNCHANGED <<siteVars, changes, troubled>>
    BY <1>8 DEF ReportCategory, readVars
  <2>2. g \in Groups
    BY CatalogueAssumption DEF NewCategory, KeptLots
  <2>3. /\ OfGroup(g, rows) \in Seq(Things)
        /\ \A n \in DOMAIN OfGroup(g, rows) :
             OfGroup(g, rows)[n] \in KeptLots /\ GroupOf[OfGroup(g, rows)[n]] = g
    <3> HIDE DEF g
    <3> QED BY <1>1, OfGroupAre
  <2>4. \A n \in DOMAIN OfGroup(g, rows) : OfGroup(g, rows)[n] \in Lots
    BY <2>3 DEF KeptLots
  <2>5. ReportsFor(g, OfGroup(g, rows))
    BY <2>1, <2>3, <2>4 DEF ReportsFor, LotsOf
  <2> QED BY <2>1, <2>2, <2>3, <2>5
<1>9. CASE NoGroupLeft \/ Rests \/ UNCHANGED vars
  <2>1. /\ UNCHANGED <<siteVars, readVars, resultVars, changes, troubled>>
        /\ phase' = phase \/ phase' = "done"
    BY <1>9 DEF NoGroupLeft, Rests, vars
  <2> QED BY <2>1 DEF Quiet, readVars, resultVars
<1> QED BY <1>3, <1>4, <1>5, <1>6, <1>7, <1>8, <1>9 DEF Next

-----------------------------------------------------------------------------
(* The cause of a receipt that is not complete *)

\* What is missing from the lots of the feed of Remotes are malformed ones.
LEMMA MissingIsMalformed ==
  ASSUME SiteInv, adapter = "remotes", NEW s \in Seq(Things), \A i \in DOMAIN s : s[i] \in Lots,
         Len(Sound(s)) # Len(s)
  PROVE  Malformed(s)
<1> DEFINE S == {l \in KeptLots : flaw[l] # "untitled"}
<1>1. IsPick(Things, s, S, Sound(s))
  <2>1. IsPick(Things, s, S, Picked(s, S))
    <3> HIDE DEF S
    <3> QED BY PickedIsSome
  <2> QED BY <2>1 DEF Sound
<1>2. \E i \in DOMAIN s : s[i] \notin S
  <2> SUFFICES ASSUME \A i \in DOMAIN s : s[i] \in S PROVE FALSE
    OBVIOUS
  <2>1. {i \in DOMAIN s : s[i] \in S} = DOMAIN s
    OBVIOUS
  <2>2. Cardinality(DOMAIN s) = Len(s)
    BY SizeOfDomain
  <2> HIDE DEF S
  <2> QED BY <1>1, <2>1, <2>2 DEF IsPick
<1>3. PICK i \in DOMAIN s : s[i] \notin S
  BY <1>2
<1>4. s[i] \in Lots /\ flaw[s[i]] \in {"none", "untitled"}
  BY DEF SiteInv
<1>5. flaw[s[i]] = "untitled"
  BY <1>3, <1>4 DEF KeptLots, Hidden
<1> QED BY <1>5 DEF Malformed

\* What makes a receipt partial is a malformed lot, of the group or of one its id is part of.
LEMMA SpoiltHasCause ==
  ASSUME SiteInv, WorkInv, NEW g \in Groups, NEW s \in Seq(Things), Spoilt(g, s),
         \A i \in DOMAIN s : s[i] \in Lots /\ GroupOf[s[i]] = g
  PROVE  \E l \in Lots : flaw[l] = "untitled" /\ <<g, GroupOf[l]>> \in Within
<1>1. <<g, g>> \in Within
  BY CatalogueAssumption
<1>2. CASE adapter = "remotes"
  <2>1. Len(Sound(s)) # Len(s)
    BY <1>2, CatalogueAssumption DEF Spoilt
  <2>2. Malformed(s)
    BY <1>2, <2>1, MissingIsMalformed
  <2> QED BY <1>1, <2>2 DEF Malformed
<1>3. CASE adapter = "prado"
  <2>1. PICK i \in DOMAIN rows : flaw[rows[i]] = "untitled" /\ <<g, GroupOf[rows[i]]>> \in Within
    BY <1>3, CatalogueAssumption DEF Spoilt
  <2>2. Fits(target, rows[i])
    BY DEF WorkInv
  <2>3. rows[i] \in Lots
    BY <1>3, <2>2 DEF Fits
  <2> QED BY <2>1, <2>3
<1>4. CASE adapter \in {"todoremates", "bavastro"}
  <2>1. Malformed(s)
    BY <1>4 DEF Spoilt
  <2> QED BY <1>1, <2>1 DEF Malformed
<1> QED BY <1>2, <1>3, <1>4 DEF Spoilt

\* No step gives a group a bad receipt without a cause, and causes do not go away.
LEMMA CauseStep == SiteInv /\ ShapeInv /\ WorkInv /\ CauseInv /\ [Next]_vars => CauseInv'
<1> SUFFICES ASSUME SiteInv, ShapeInv, WorkInv, CauseInv, [Next]_vars PROVE CauseInv'
  OBVIOUS
<1>1. /\ withdrawn \in Nat /\ Groups \subseteq Lists /\ Home \notin Groups
      /\ receipts \in Seq(Receipts) /\ adapter \in Adapters
  BY CatalogueAssumption DEF WorkInv, Lists, SiteInv
<1>2. MaxPages * PageSize \in Nat
  BY Products
<1>3. ASSUME NEW g \in Groups PROVE Len(shelf[g]) \in Nat
  BY <1>1, ShelfIs
<1>4. CASE \E l \in Lots : Publish(l) \/ Withdraw(l)
  <2> PICK l \in Lots : Publish(l) \/ Withdraw(l)
    BY <1>4
  <2>1. /\ UNCHANGED <<flaw, receipts, troubled>>
        /\ withdrawn' = withdrawn \/ withdrawn' = withdrawn + 1
    BY ChangingIs DEF resultVars
  <2>2. ASSUME NEW g \in Groups
        PROVE  Len(shelf'[g]) + withdrawn' >= Len(shelf[g]) + withdrawn
    <3>1. shelf[g] \in Seq(Things) /\ g \in Lists /\ Len(shelf[g]) \in Nat
      BY <1>1, ShelfIs
    <3>2. CASE Publish(l)
      <4>1. withdrawn' = withdrawn
        BY <3>2 DEF Publish
      <4>2. Grown(g)
        BY <3>1, <3>2, PublishIs
      <4>3. Len(shelf'[g]) = Len(shelf[g]) \/ Len(shelf'[g]) = Len(shelf[g]) + 1
        <5>1. ASSUME NEW x \in Things, shelf'[g] = <<x>> \o shelf[g]
              PROVE  Len(shelf'[g]) = Len(shelf[g]) + 1
          BY <3>1, <5>1, Headed
        <5> QED BY <4>2, <5>1 DEF Grown
      <4> QED BY <1>1, <3>1, <4>1, <4>3
    <3>3. CASE Withdraw(l)
      <4>1. withdrawn' = withdrawn + 1
        BY <3>3 DEF Withdraw
      <4>2. g # Home
        BY <1>1
      <4>3. Len(shelf'[g]) = Len(shelf[g]) \/ Len(shelf'[g]) = Len(shelf[g]) - 1
        BY <3>1, <3>3, <4>2, WithdrawIs DEF Without
      <4> DEFINE m == Len(shelf[g])
                 n == Len(shelf'[g])
      <4>4. m \in Nat /\ (n = m \/ n = m - 1)
        BY <3>1, <4>3
      <4> HIDE DEF m, n
      <4>5. n + withdrawn' >= m + withdrawn
        BY <1>1, <4>1, <4>4
      <4> QED BY <4>5 DEF m, n
    <3> QED BY <3>2, <3>3
  <2>3. ASSUME NEW g \in Groups, Cause(g) PROVE Cause(g)'
    <3>1. CASE Len(shelf[g]) + withdrawn >= MaxPages * PageSize
      <4>1. Len(shelf'[g]) + withdrawn' \in Int
        <5>1. shelf'[g] \in Seq(Things)
          <6>1. SiteInv'
            BY SiteStep
          <6> QED BY <1>1, <6>1 DEF SiteInv
        <5> QED BY <1>1, <2>1, <5>1
      <4> QED BY <1>1, <1>2, <1>3, <2>2, <3>1, <4>1 DEF Cause
    <3> QED BY <2>1, <2>3, <3>1 DEF Cause
  <2>4. \A i \in DOMAIN receipts : receipts[i].group \in Groups
    <3>1. \A i \in DOMAIN receipts : receipts[i] \in Receipts
      BY <1>1
    <3> QED BY <3>1 DEF Receipts
  <2> QED BY <2>1, <2>3, <2>4 DEF CauseInv
<1>5. CASE ~\E l \in Lots : Publish(l) \/ Withdraw(l)
  <2>1. /\ UNCHANGED <<flaw, shelf, withdrawn, adapter>> /\ troubled \subseteq troubled'
        /\ \/ Quiet
           \/ \E g \in Groups : FailsFor(g)
           \/ \E g \in Groups, s \in Seq(Things) : ReportsFor(g, s)
    BY <1>5, ResultStep DEF siteVars
  <2>2. ASSUME NEW g, Cause(g) PROVE Cause(g)'
    BY <2>1, <2>2 DEF Cause
  <2>3. CASE Quiet
    BY <2>2, <2>3 DEF Quiet, CauseInv
  <2>4. ASSUME NEW r \in Receipts, receipts' = Append(receipts, r),
               r.status # "complete" => Cause(r.group)'
        PROVE  CauseInv'
    BY <2>2, <2>4, OneReceiptMore DEF CauseInv
  <2>5. ASSUME NEW g \in Groups, FailsFor(g) PROVE CauseInv'
    <3>1. receipts' = Append(receipts, Receipt(g, "failed", 0))
          /\ (g \in troubled' \/ MaxPages * PageSize <= Len(shelf[g]))
      BY <2>5 DEF FailsFor
    <3>2. MaxPages * PageSize <= Len(shelf[g]) => Len(shelf[g]) + withdrawn >= MaxPages * PageSize
      BY <1>1, <1>2, <1>3
    <3>3. Cause(g)'
      BY <2>1, <3>1, <3>2 DEF Cause
    <3>4. Receipt(g, "failed", 0) \in Receipts /\ Receipt(g, "failed", 0).group = g
      BY DEF Receipt, Receipts
    <3> QED BY <2>4, <3>1, <3>3, <3>4
  <2>6. ASSUME NEW g \in Groups, NEW s \in Seq(Things), ReportsFor(g, s) PROVE CauseInv'
    <3>1. receipts' = Append(receipts, ReceiptFor(g, s))
      BY <2>6 DEF ReportsFor, Reported
    <3>2. ReceiptFor(g, s) \in Receipts /\ ReceiptFor(g, s).group = g
          /\ (ReceiptFor(g, s).status # "complete" => Spoilt(g, s))
      BY ReceiptIs
    <3>3. Spoilt(g, s) => Cause(g)
      BY <2>6, SpoiltHasCause DEF Cause, ReportsFor
    <3> QED BY <2>2, <2>4, <3>1, <3>2, <3>3
  <2> QED BY <2>1, <2>3, <2>5, <2>6
<1> QED BY <1>4, <1>5

\* Whatever records are malformed, whichever requests fail and however the site changes, an
\* auction is only reported as read in part, or not at all, for a cause in its own group: the
\* receipts of _collect_products, _auction_receipt and their like blame no other auction.
THEOREM PartialHasCause == Spec => []PartialNeedsCause
<1>1. Init => CauseInv
  BY DEF Init, CauseInv
<1>2. Shape /\ CauseInv /\ [Next]_vars => CauseInv'
  BY CauseStep DEF Shape
<1>3. CauseInv => PartialNeedsCause
  <2> SUFFICES ASSUME CauseInv, NEW g \in Groups, StatusOf(g, "partial") \/ StatusOf(g, "failed")
               PROVE  Cause(g)
    BY DEF PartialNeedsCause, Cause
  <2>1. \E i \in DOMAIN receipts : receipts[i].group = g /\ receipts[i].status # "complete"
    BY DEF StatusOf
  <2> QED BY <2>1 DEF CauseInv
<1> QED BY <1>1, <1>2, <1>3, ShapeHolds, PTL DEF Spec

-----------------------------------------------------------------------------
(* The result is accepted: authority *)

\* Every step that costs a receipt its authority costs the result its own.
LEMMA FlawlessStep == SiteInv /\ ShapeInv /\ WorkInv /\ FlawlessInv /\ [Next]_vars => FlawlessInv'
<1> SUFFICES ASSUME SiteInv, ShapeInv, WorkInv, FlawlessInv, [Next]_vars PROVE FlawlessInv'
  OBVIOUS
<1>1. CASE \E l \in Lots : Publish(l) \/ Withdraw(l)
  <2>1. /\ UNCHANGED <<adapter, flaw, phase, flawless, receipts, rows>>
    BY <1>1, ChangingIs DEF resultVars, readVars
  <2> QED BY <2>1 DEF FlawlessInv, Malformed
<1>2. CASE ~\E l \in Lots : Publish(l) \/ Withdraw(l)
  <2>1. /\ UNCHANGED <<flaw, adapter>>
        /\ \/ Quiet
           \/ \E g \in Groups : FailsFor(g)
           \/ \E g \in Groups, s \in Seq(Things) : ReportsFor(g, s)
    BY <1>2, ResultStep DEF siteVars
  <2>2. CASE Quiet
    <3>1. receipts' = receipts
      BY <2>2 DEF Quiet
    <3>2. CASE flawless' = flawless /\ (adapter = "prado" /\ phase' = "report" =>
                                          phase = "report" /\ rows' = rows)
      BY <2>1, <3>1, <3>2 DEF FlawlessInv, Malformed
    <3>3. CASE flawless' = ~Malformed(rows') /\ adapter = "prado" /\ phase = "list"
      <4>1. receipts = <<>>
        BY <3>3 DEF ShapeInv
      <4>2. \A i \in DOMAIN receipts' : receipts'[i].status = "complete"
        BY <3>1, <4>1
      <4>3. flawless' => ~Malformed(rows)'
        BY <2>1, <3>3 DEF Malformed
      <4> QED BY <4>2, <4>3, Zenon DEF FlawlessInv
    <3> QED BY <2>2, <3>2, <3>3 DEF Quiet
  <2>3. ASSUME NEW g \in Groups, FailsFor(g) PROVE FlawlessInv'
    BY <2>1, <2>3 DEF FailsFor, FlawlessInv
  <2>4. ASSUME NEW g \in Groups, NEW s \in Seq(Things), ReportsFor(g, s) PROVE FlawlessInv'
    <3>1. /\ receipts' = Append(receipts, ReceiptFor(g, s)) /\ LotsOf(g, s)
          /\ flawless' = (flawless /\ ~Malformed(s))
          /\ \A i \in DOMAIN s : s[i] \in Lots
      BY <2>4 DEF ReportsFor, Reported
    <3>2. ReceiptFor(g, s) \in Receipts
          /\ ReceiptFor(g, s).status = IF Spoilt(g, s) THEN "partial" ELSE "complete"
      BY ReceiptIs
    <3>3. CASE ~flawless'
      BY <3>3 DEF FlawlessInv
    <3>4. CASE flawless'
      <4>1. flawless /\ ~Malformed(s)
        BY <3>1, <3>4
      <4>2. adapter = "prado" => phase = "report" /\ rows' = rows /\ ~Malformed(rows)
        BY <3>1, <4>1 DEF LotsOf, FlawlessInv
      <4>3. ~Spoilt(g, s)
        <5>1. CASE adapter = "remotes"
          BY <3>1, <4>1, <5>1, MissingIsMalformed DEF Spoilt
        <5>2. CASE adapter # "remotes"
          BY <4>1, <4>2, <5>2 DEF Spoilt, Malformed
        <5> QED BY <5>1, <5>2
      <4>4. \A i \in DOMAIN receipts' : receipts'[i].status = "complete"
        BY <3>1, <3>2, <4>1, <4>3, OneReceiptMore DEF FlawlessInv
      <4>5. adapter = "prado" => ~Malformed(rows)'
        BY <2>1, <4>2 DEF Malformed
      <4> QED BY <2>1, <4>4, <4>5 DEF FlawlessInv
    <3> QED BY <3>3, <3>4
  <2> QED BY <2>1, <2>2, <2>3, <2>4
<1> QED BY <1>1, <1>2

-----------------------------------------------------------------------------
(* The result is accepted: no list repeats a thing *)

\* A site that has stood still up to now did so a step ago.
LEMMA StillBefore == WorkInv /\ Still' /\ [Next]_vars =>
                       Still /\ ~\E l \in Lots : Publish(l) \/ Withdraw(l)
<1> SUFFICES ASSUME WorkInv, Still', [Next]_vars
             PROVE  Still /\ ~\E l \in Lots : Publish(l) \/ Withdraw(l)
  OBVIOUS
<1>1. changes' = 0 /\ changes \in Nat
  BY CatalogueAssumption DEF WorkInv, Still
<1>2. ~\E l \in Lots : Publish(l) \/ Withdraw(l)
  <2> SUFFICES ASSUME NEW l \in Lots, Publish(l) \/ Withdraw(l) PROVE FALSE
    OBVIOUS
  <2>1. changes' = changes + 1
    BY ChangingIs
  <2> QED BY <1>1, <2>1
<1>3. /\ UNCHANGED <<adapter, shelf, changes>>
      /\ troubled' = {} => troubled = {}
  <2>1. CASE Fetch
    <3>1. UNCHANGED <<adapter, shelf, changes>>
      BY <2>1 DEF Fetch, siteVars
    <3>2. UNCHANGED troubled \/ \E blamed \in BOOLEAN : Wrong(target, blamed)
      <4>1. \A t : LetDown(t) \in BOOLEAN
        BY DEF LetDown
      <4> QED BY <2>1, <4>1 DEF Fetch
    <3> QED BY <3>1, <3>2 DEF Wrong
  <2>2. CASE DetailFails
    BY <2>2 DEF DetailFails, siteVars, Wrong
  <2>3. CASE NextGroup \/ Price \/ Priced \/ ReportAuction \/ ReportCategory
    BY <2>3 DEF NextGroup, Price, Priced, ReportAuction, ReportCategory, siteVars
  <2>4. CASE NoGroupLeft \/ Rests \/ UNCHANGED vars
    BY <2>4 DEF NoGroupLeft, Rests, vars, siteVars
  <2> QED BY <1>2, <2>1, <2>2, <2>3, <2>4 DEF Next
<1> QED BY <1>2, <1>3 DEF Still

\* The pages read so far and the one at hand show nothing twice.
LEMMA ReadOnce ==
  ASSUME SiteInv, WorkInv, FromPages(shelf[target], rows, page - 1)
  PROVE  FromPages(shelf[target], WhatIsRead, page) /\ IsInjective(WhatIsRead)
<1> DEFINE s == shelf[target]
           e == Entries(s, page)
           n == (page - 1) * PageSize
           m == page * PageSize
<1>1. /\ s \in Seq(Things) /\ IsInjective(s) /\ page \in Nat \ {0} /\ page - 1 \in Nat
      /\ rows \in Seq(Things)
  BY ShelfIs, CatalogueAssumption DEF WorkInv
<1>2. n \in Nat /\ m = n + PageSize /\ PageSize \in Nat \ {0}
  <2>1. (page - 1) + 1 = page
    BY <1>1
  <2> QED BY <1>1, <2>1, Products
<1>3. /\ e \in Seq(Things)
      /\ \A j \in DOMAIN e : n + j \in DOMAIN s /\ n + j <= m /\ e[j] = s[n + j]
  BY <1>1, PageShows
<1>4. /\ IsInjective(rows) /\ \A i \in DOMAIN rows : \E k \in DOMAIN s : k <= n /\ rows[i] = s[k]
  BY DEF FromPages
<1>5. WhatIsRead = rows \o e
  BY DEF WhatIsRead
<1>6. \A j \in DOMAIN e : j \in Nat /\ j >= 1
  BY <1>3
<1> HIDE DEF s, e, n, m
<1>7. \A i \in DOMAIN WhatIsRead :
        \/ i \in DOMAIN rows /\ WhatIsRead[i] = rows[i]
        \/ i - Len(rows) \in DOMAIN e /\ WhatIsRead[i] = e[i - Len(rows)]
  BY <1>1, <1>3, <1>5, Joined
<1>8. \A i \in DOMAIN rows, j \in DOMAIN e : rows[i] # e[j]
  <2> SUFFICES ASSUME NEW i \in DOMAIN rows, NEW j \in DOMAIN e, rows[i] = e[j] PROVE FALSE
    OBVIOUS
  <2>1. PICK k \in DOMAIN s : k <= n /\ rows[i] = s[k]
    BY <1>4
  <2>2. k = n + j
    BY <1>1, <1>3, <2>1 DEF IsInjective
  <2> QED BY <1>2, <1>6, <2>1, <2>2
<1>9. \A j, k \in DOMAIN e : e[j] = e[k] => j = k
  <2> SUFFICES ASSUME NEW j \in DOMAIN e, NEW k \in DOMAIN e, e[j] = e[k] PROVE j = k
    OBVIOUS
  <2>1. n + j = n + k
    BY <1>1, <1>3 DEF IsInjective
  <2> QED BY <1>2, <1>6, <2>1
<1>10. IsInjective(WhatIsRead)
  <2> SUFFICES ASSUME NEW i \in DOMAIN WhatIsRead, NEW k \in DOMAIN WhatIsRead,
                      WhatIsRead[i] = WhatIsRead[k]
               PROVE  i = k
    BY DEF IsInjective
  <2>1. CASE i \in DOMAIN rows /\ WhatIsRead[i] = rows[i] /\ k \in DOMAIN rows /\ WhatIsRead[k] = rows[k]
    BY <1>4, <2>1 DEF IsInjective
  <2>2. CASE /\ i - Len(rows) \in DOMAIN e /\ WhatIsRead[i] = e[i - Len(rows)]
             /\ k - Len(rows) \in DOMAIN e /\ WhatIsRead[k] = e[k - Len(rows)]
    <3>1. i - Len(rows) = k - Len(rows)
      BY <1>9, <2>2
    <3>2. i \in Int /\ k \in Int /\ Len(rows) \in Int
      BY <1>1, <1>3, <1>5, Joined
    <3> QED BY <3>1, <3>2
  <2>3. ~(\E a \in DOMAIN rows, j \in DOMAIN e : rows[a] = e[j])
    BY <1>8
  <2> QED BY <1>7, <2>1, <2>2, <2>3
<1>11. \A i \in DOMAIN WhatIsRead : \E k \in DOMAIN s : k <= m /\ WhatIsRead[i] = s[k]
  <2> SUFFICES ASSUME NEW i \in DOMAIN WhatIsRead
               PROVE  \E k \in DOMAIN s : k <= m /\ WhatIsRead[i] = s[k]
    OBVIOUS
  <2>1. CASE i \in DOMAIN rows /\ WhatIsRead[i] = rows[i]
    <3>1. PICK k \in DOMAIN s : k <= n /\ rows[i] = s[k]
      BY <1>4, <2>1
    <3>2. k <= m
      BY <1>1, <1>2, <3>1
    <3> QED BY <2>1, <3>1, <3>2
  <2>2. CASE i - Len(rows) \in DOMAIN e /\ WhatIsRead[i] = e[i - Len(rows)]
    BY <1>3, <2>2
  <2> QED BY <1>7, <2>1, <2>2
<1> QED BY <1>10, <1>11 DEF FromPages, s, m

\* The first of a sequence and the others.
LEMMA TailIs ==
  ASSUME NEW T, NEW s \in Seq(T), s # <<>>
  PROVE  /\ Head(s) \in T /\ Tail(s) \in Seq(T) /\ InSeq(Head(s), s)
         /\ \A x : InSeq(x, s) => x = Head(s) \/ InSeq(x, Tail(s))
         /\ \A x : InSeq(x, Tail(s)) => InSeq(x, s)
         /\ IsInjective(s) => IsInjective(Tail(s)) /\ ~InSeq(Head(s), Tail(s))
<1> DEFINE t == Tail(s)
<1>1. /\ Len(s) \in Nat /\ Len(s) >= 1 /\ DOMAIN s = 1..Len(s) /\ t \in Seq(T)
      /\ DOMAIN t = 1..Len(s) - 1 /\ Head(s) = s[1] /\ \A i \in 1..Len(s) - 1 : t[i] = s[i + 1]
      /\ Head(s) \in T
  OBVIOUS
<1> HIDE DEF t
<1>2. 1 \in DOMAIN s
  BY <1>1
<1>3. \A i \in DOMAIN t : i \in Nat /\ i >= 1 /\ i + 1 \in DOMAIN s /\ t[i] = s[i + 1]
  BY <1>1
<1>4. \A i \in DOMAIN s : i # 1 => i - 1 \in DOMAIN t /\ t[i - 1] = s[i]
  <2> SUFFICES ASSUME NEW i \in DOMAIN s, i # 1 PROVE i - 1 \in DOMAIN t /\ t[i - 1] = s[i]
    OBVIOUS
  <2>1. i - 1 \in 1..Len(s) - 1 /\ (i - 1) + 1 = i
    BY <1>1
  <2> QED BY <1>1, <2>1
<1>5. \A x : InSeq(x, s) => x = Head(s) \/ InSeq(x, t)
  BY <1>1, <1>4 DEF InSeq
<1>6. \A x : InSeq(x, t) => InSeq(x, s)
  BY <1>3 DEF InSeq
<1>7. ASSUME IsInjective(s) PROVE IsInjective(t) /\ ~InSeq(Head(s), t)
  <2>1. \A i, k \in DOMAIN t : t[i] = t[k] => i = k
    <3> SUFFICES ASSUME NEW i \in DOMAIN t, NEW k \in DOMAIN t, t[i] = t[k] PROVE i = k
      OBVIOUS
    <3>1. i + 1 = k + 1
      BY <1>3, <1>7 DEF IsInjective
    <3> QED BY <1>3, <3>1
  <2>2. \A i \in DOMAIN t : t[i] # s[1]
    <3> SUFFICES ASSUME NEW i \in DOMAIN t, t[i] = s[1] PROVE FALSE
      OBVIOUS
    <3>1. i + 1 = 1
      BY <1>2, <1>3, <1>7 DEF IsInjective
    <3> QED BY <1>3, <3>1
  <2> QED BY <1>1, <2>1, <2>2 DEF IsInjective, InSeq
<1>8. InSeq(Head(s), s)
  BY <1>1, <1>2 DEF InSeq
<1> QED BY <1>1, <1>5, <1>6, <1>7, <1>8 DEF t

\* A sequence with one more thing at its end.
LEMMA AppendIs ==
  ASSUME NEW T, NEW s \in Seq(T), NEW x \in T
  PROVE  /\ Append(s, x) \in Seq(T) /\ Len(Append(s, x)) = Len(s) + 1
         /\ \A y : InSeq(y, Append(s, x)) <=> InSeq(y, s) \/ y = x
         /\ IsInjective(s) /\ ~InSeq(x, s) => IsInjective(Append(s, x))
<1> DEFINE t == Append(s, x)
<1>1. /\ Len(s) \in Nat /\ DOMAIN s = 1..Len(s) /\ t \in Seq(T) /\ Len(t) = Len(s) + 1
      /\ DOMAIN t = 1..Len(s) + 1 /\ t[Len(s) + 1] = x /\ \A i \in 1..Len(s) : t[i] = s[i]
  OBVIOUS
<1> HIDE DEF t
<1>2. Len(s) + 1 \in DOMAIN t /\ \A i \in DOMAIN s : i \in DOMAIN t /\ i # Len(s) + 1
  BY <1>1
<1>3. \A i \in DOMAIN t : i \in DOMAIN s \/ i = Len(s) + 1
  BY <1>1
<1>4. \A y : InSeq(y, t) <=> InSeq(y, s) \/ y = x
  BY <1>1, <1>2, <1>3 DEF InSeq
<1>5. ASSUME IsInjective(s), ~InSeq(x, s) PROVE IsInjective(t)
  BY <1>1, <1>2, <1>3, <1>5 DEF IsInjective, InSeq
<1> QED BY <1>1, <1>4, <1>5 DEF t

\* Nothing is read twice of a list that does not change.
LEMMA ReadStep == SiteInv /\ ShapeInv /\ WorkInv /\ ReadInv /\ [Next]_vars => ReadInv'
<1> SUFFICES ASSUME SiteInv, ShapeInv, WorkInv, ReadInv, Still', [Next]_vars
             PROVE  /\ phase' = "list" => FromPages(shelf'[target'], rows', page' - 1)
                    /\ phase' \in {"price", "report"} => IsInjective(rows')
  BY DEF ReadInv, FromPages
<1>1. Still /\ ~\E l \in Lots : Publish(l) \/ Withdraw(l)
  BY StillBefore
<1>2. shelf' = shelf
  BY <1>1, ResultStep DEF siteVars
<1>3. /\ phase = "list" => FromPages(shelf[target], rows, page - 1)
      /\ phase \in {"price", "report"} => IsInjective(rows)
  BY <1>1 DEF ReadInv
<1>4. CASE Fetch
  <2>1. phase = "list" /\ (BreaksOff \/ GoesOn \/ Ends)
    BY <1>4, FetchIs
  <2>2. FromPages(shelf[target], WhatIsRead, page) /\ IsInjective(WhatIsRead)
    BY <1>3, <2>1, ReadOnce
  <2>3. CASE BreaksOff
    BY <2>3 DEF BreaksOff, Broken, Read
  <2>4. CASE GoesOn
    <3>1. page' = page + 1 /\ rows' = WhatIsRead /\ phase' = phase /\ target' = target
      BY <2>4 DEF GoesOn, WhatIsRead
    <3>2. page' - 1 = page
      BY <3>1, CatalogueAssumption DEF WorkInv
    <3> QED BY <1>2, <2>1, <2>2, <3>1, <3>2
  <2>5. CASE Ends
    <3>1. CASE adapter = "remotes"
      <4>1. phase' = "price" /\ rows' = rows
        BY <2>5, <3>1 DEF Ends, Discovered, readVars, Numbered
      <4> QED BY <1>3, <2>1, <4>1 DEF FromPages
    <3>2. CASE adapter # "remotes"
      <4>1. IF target = Home THEN Discovered(WhatIsRead) ELSE GroupRead(WhatIsRead)
        BY <2>5, <3>2 DEF Ends, WhatIsRead
      <4>2. phase' = "next" \/ (phase' = "report" /\ rows' = WhatIsRead)
        BY <3>2, <4>1 DEF Discovered, GroupRead, Read
      <4> QED BY <2>2, <4>2
    <3> QED BY <3>1, <3>2
  <2> QED BY <2>1, <2>3, <2>4, <2>5
<1>5. CASE NextGroup
  <2>1. phase = "next" /\ (phase' = "next" \/ Read(Head(queue), "list"))
    BY <1>5 DEF NextGroup
  <2>2. CASE Read(Head(queue), "list")
    <3>1. rows' = <<>> /\ phase' = "list"
      BY <2>2 DEF Read
    <3> QED BY <3>1 DEF FromPages, IsInjective
  <2> QED BY <2>1, <2>2
<1>6. CASE DetailFails \/ NoGroupLeft
  BY <1>6 DEF DetailFails, NoGroupLeft
<1>7. CASE Price \/ Priced
  BY <1>3, <1>7 DEF Price, Priced, readVars
<1>8. CASE ReportAuction \/ ReportCategory
  BY <1>3, <1>8 DEF ReportAuction, ReportCategory, readVars
<1>9. CASE Rests \/ UNCHANGED vars
  <2>1. UNCHANGED <<phase, rows, page, target>>
    BY <1>9 DEF Rests, vars, readVars
  <2> QED BY <1>2, <1>3, <2>1
<1> QED BY <1>1, <1>4, <1>5, <1>6, <1>7, <1>8, <1>9 DEF Next

\* A group joins the result with its receipt.
LEMMA OneGroupMore ==
  ASSUME WorkInv, NEW g \in Groups, NEW r \in Receipts, r.group = g,
         groups' = Append(groups, g), receipts' = Append(receipts, r), ~Found(g),
         IsInjective(groups), Len(receipts) = Len(groups),
         \A i \in DOMAIN groups : receipts[i].group = groups[i]
  PROVE  /\ IsInjective(groups') /\ Len(receipts') = Len(groups')
         /\ \A i \in DOMAIN groups' : receipts'[i].group = groups'[i]
         /\ \A h : Found(h)' <=> Found(h) \/ h = g
<1>1. groups \in Seq(Groups) /\ receipts \in Seq(Receipts)
  BY DEF WorkInv
<1>2. \A h : Found(h) <=> InSeq(h, groups)
  BY DEF Found, InSeq
<1>3. \A h : Found(h)' <=> InSeq(h, groups')
  BY DEF Found, InSeq
<1>4. /\ Len(groups') = Len(groups) + 1 /\ Len(receipts') = Len(receipts) + 1
      /\ \A h : InSeq(h, groups') <=> InSeq(h, groups) \/ h = g
      /\ IsInjective(groups')
  BY <1>1, <1>2, AppendIs
<1>5. \A i \in DOMAIN groups' : receipts'[i].group = groups'[i]
  <2>1. /\ DOMAIN groups' = 1..Len(groups) + 1 /\ DOMAIN groups = 1..Len(groups) /\ Len(groups) \in Nat
        /\ groups'[Len(groups) + 1] = g /\ \A i \in 1..Len(groups) : groups'[i] = groups[i]
    BY <1>1
  <2>2. /\ receipts'[Len(groups) + 1] = r /\ \A i \in 1..Len(groups) : receipts'[i] = receipts[i]
    BY <1>1
  <2>3. \A i \in 1..Len(groups) + 1 : i \in 1..Len(groups) \/ i = Len(groups) + 1
    BY <2>1
  <2> QED BY <2>1, <2>2, <2>3
<1> QED BY <1>2, <1>3, <1>4, <1>5

\* The next invariant, apart from the hypothesis.
GroupsDistinct ==
  /\ IsInjective(queue) /\ IsInjective(groups)
  /\ Len(receipts) = Len(groups) /\ \A i \in DOMAIN groups : receipts[i].group = groups[i]
  /\ phase # "price" => \A x : InSeq(x, queue) => x # target /\ ~Found(x)
  /\ ~Found(target)

\* No step reports an auction that was reported before or will be again.
LEMMA GroupsStep ==
  SiteInv /\ ShapeInv /\ WorkInv /\ ReadInv /\ GroupsInv /\ [Next]_vars => GroupsInv'
<1> SUFFICES ASSUME SiteInv, ShapeInv, WorkInv, ReadInv, GroupsInv, Still', [Next]_vars
             PROVE  GroupsDistinct'
  BY DEF GroupsInv, GroupsDistinct, InSeq
<1>1. Still /\ ~\E l \in Lots : Publish(l) \/ Withdraw(l)
  BY StillBefore
<1>2. GroupsDistinct
  BY <1>1 DEF GroupsInv, GroupsDistinct, InSeq
<1>3. /\ queue \in Seq(Groups) /\ groups \in Seq(Groups) /\ target \in Lists
      /\ Home \in Lists /\ Groups \subseteq Lists /\ Home \notin Groups
      /\ \A x : InSeq(x, queue) => x \in Groups
      /\ \A x : Found(x) => x \in Groups
  BY CatalogueAssumption DEF WorkInv, Lists, InSeq, Found
\* Nothing but the place of the scan changes.
<1>4. ASSUME UNCHANGED <<groups, receipts, queue, target>>, phase' # "price" => phase # "price"
      PROVE  GroupsDistinct'
  BY <1>2, <1>4 DEF GroupsDistinct, Found
\* A new queue before there is a group in the result.
<1>5. ASSUME UNCHANGED <<groups, receipts>>, groups = <<>>, target' = Home, IsInjective(queue'),
             queue' \in Seq(Groups)
      PROVE  GroupsDistinct'
  <2>1. \A x : ~Found(x)'
    BY <1>5 DEF Found
  <2>2. \A x : InSeq(x, queue') => x # target'
    BY <1>3, <1>5 DEF InSeq
  <2> QED BY <1>2, <1>5, <2>1, <2>2 DEF GroupsDistinct
\* A group joins the result and leaves the list of what is to be done.
<1>6. ASSUME NEW g \in Groups, NEW r \in Receipts, r.group = g,
             groups' = Append(groups, g), receipts' = Append(receipts, r), ~Found(g), target' = Home,
             IsInjective(queue'), \A x : InSeq(x, queue') => InSeq(x, queue) /\ x # g, phase # "price"
      PROVE  GroupsDistinct'
  <2>1. /\ IsInjective(groups') /\ Len(receipts') = Len(groups')
        /\ \A i \in DOMAIN groups' : receipts'[i].group = groups'[i]
        /\ \A h : Found(h)' <=> Found(h) \/ h = g
    BY <1>2, <1>6, OneGroupMore DEF GroupsDistinct
  <2>2. ~Found(target)' /\ \A x : InSeq(x, queue') => x # target' /\ ~Found(x)'
    BY <1>2, <1>3, <1>6, <2>1 DEF GroupsDistinct
  <2> QED BY <1>6, <2>1, <2>2 DEF GroupsDistinct
<1>7. CASE Fetch
  <2>1. phase = "list" /\ (BreaksOff \/ GoesOn \/ Ends)
    BY <1>7, FetchIs
  <2>2. FromPages(shelf[target], rows, page - 1)
    BY <1>1, <2>1 DEF ReadInv
  <2>3. IsInjective(WhatIsRead)
    BY <2>2, ReadOnce
  <2>4. CASE BreaksOff
    <3>1. CASE target = Home
      BY <1>4, <2>1, <2>4, <3>1 DEF BreaksOff, Broken, resultVars, readVars
    <3>2. CASE target # Home
      <4>1. target \in Groups /\ adapter \in {"todoremates", "bavastro"}
        BY <1>3, <3>2 DEF Lists, ShapeInv
      <4>2. adapter # "bavastro"
        <5> SUFFICES ASSUME adapter = "bavastro" PROVE FALSE
          OBVIOUS
        <5>1. adapter' = adapter
          BY <1>1, ResultStep DEF siteVars
        <5>2. troubled' = {} /\ Len(shelf[target]) <= MaxPages * PageSize
          BY <1>1, <4>1, <5>1 DEF Still
        <5>3. MaxPages * PageSize < Len(shelf[target])
          BY <2>4, <3>2, <5>2 DEF BreaksOff
        <5>4. Len(shelf[target]) \in Nat /\ MaxPages * PageSize \in Nat
          BY ShelfIs, <1>3, Products
        <5> QED BY <5>2, <5>3, <5>4
      <4>3. /\ groups' = Append(groups, target)
            /\ receipts' = Append(receipts, Receipt(target, "failed", 0))
            /\ Read(Home, "next") /\ queue' = queue
        BY <2>4, <3>2, <4>2 DEF BreaksOff, Broken
      <4>4. Receipt(target, "failed", 0) \in Receipts /\ Receipt(target, "failed", 0).group = target
        BY <4>1 DEF Receipt, Receipts
      <4> QED BY <1>2, <1>6, <2>1, <4>1, <4>3, <4>4 DEF GroupsDistinct, Read
    <3> QED BY <3>1, <3>2
  <2>5. CASE GoesOn
    BY <1>4, <2>1, <2>5 DEF GoesOn, resultVars
  <2>6. CASE Ends
    <3>1. CASE target = Home
      <4>1. groups = <<>>
        BY <2>1, <3>1 DEF ShapeInv
      <4>2. CASE adapter = "remotes"
        <5>1. queue' = shelf[Home] /\ phase' = "price" /\ UNCHANGED <<groups, receipts, target>>
          BY <2>6, <4>2 DEF Ends, Discovered, Numbered, readVars, resultVars
        <5>2. shelf[Home] \in Seq(Things) /\ IsInjective(shelf[Home])
              /\ \A i \in DOMAIN shelf[Home] : shelf[Home][i] \in Groups
          BY <1>3, <4>2, ShelfIs DEF Fits
        <5>3. queue' \in Seq(Groups) /\ IsInjective(queue')
          BY <5>1, <5>2
        <5> QED BY <1>5, <3>1, <4>1, <5>1, <5>3
      <4>3. CASE adapter # "remotes"
        <5>1. Discovered(WhatIsRead)
          BY <2>6, <3>1, <4>3 DEF Ends, WhatIsRead
        <5>2. CASE adapter = "prado"
          BY <1>4, <2>1, <5>1, <5>2 DEF Discovered
        <5>3. CASE adapter # "prado"
          <6>1. queue' = WhatIsRead /\ target' = Home /\ UNCHANGED <<groups, receipts>>
            BY <4>3, <5>1, <5>3 DEF Discovered, Read, resultVars
          <6>2. WhatIsRead \in Seq(Things) /\ \A i \in DOMAIN WhatIsRead : WhatIsRead[i] \in Groups
            BY <3>1, <5>3, ReadIs DEF Fits
          <6>3. queue' \in Seq(Groups)
            BY <6>1, <6>2
          <6> QED BY <1>5, <2>3, <4>1, <6>1, <6>3
        <5> QED BY <5>2, <5>3
      <4> QED BY <4>2, <4>3
    <3>2. CASE target # Home
      <4>1. adapter # "remotes" /\ target \in Groups
        BY <1>3, <3>2 DEF ShapeInv, Lists
      <4>2. /\ groups' = Append(groups, target)
            /\ receipts' = Append(receipts, ReceiptFor(target, WhatIsRead))
            /\ target' = Home /\ queue' = queue
        BY <2>6, <3>2, <4>1 DEF Ends, GroupRead, Reported, Read, WhatIsRead
      <4>3. WhatIsRead \in Seq(Things)
        BY ReadIs
      <4>4. ReceiptFor(target, WhatIsRead) \in Receipts /\ ReceiptFor(target, WhatIsRead).group = target
        BY <4>1, <4>3, ReceiptIs
      <4> QED BY <1>2, <1>6, <2>1, <4>1, <4>2, <4>4 DEF GroupsDistinct
    <3> QED BY <3>1, <3>2
  <2> QED BY <2>1, <2>4, <2>5, <2>6
\* What the first of the queue tells.
<1>8. ASSUME queue # <<>>
      PROVE  /\ Head(queue) \in Groups /\ IsInjective(Tail(queue)) /\ Tail(queue) \in Seq(Groups)
             /\ \A x : InSeq(x, Tail(queue)) => InSeq(x, queue) /\ x # Head(queue)
             /\ phase # "price" => ~Found(Head(queue))
  <2>1. /\ Head(queue) \in Groups /\ InSeq(Head(queue), queue) /\ Tail(queue) \in Seq(Groups)
        /\ \A x : InSeq(x, Tail(queue)) => InSeq(x, queue)
        /\ IsInjective(Tail(queue)) /\ ~InSeq(Head(queue), Tail(queue))
    BY <1>2, <1>3, <1>8, TailIs DEF GroupsDistinct
  <2> QED BY <1>2, <2>1 DEF GroupsDistinct
<1>9. CASE NextGroup
  <2>1. /\ phase = "next" /\ queue # <<>> /\ queue' = Tail(queue) /\ UNCHANGED <<groups, receipts>>
        /\ phase' # "price"
        /\ target' = target \/ target' = Head(queue)
    BY <1>9 DEF NextGroup, Read, readVars, resultVars
  <2>2. \A h : Found(h)' <=> Found(h)
    BY <2>1 DEF Found
  <2>3. ~Found(target)'
    BY <1>2, <1>8, <2>1, <2>2 DEF GroupsDistinct
  <2>4. \A x : InSeq(x, queue') => x # target' /\ ~Found(x)'
    BY <1>2, <1>8, <2>1, <2>2 DEF GroupsDistinct
  <2> QED BY <1>2, <1>8, <2>1, <2>3, <2>4 DEF GroupsDistinct
<1>10. CASE DetailFails
  <2>1. adapter = "bavastro" /\ adapter' = adapter /\ \E t \in Tries : Wrong(Head(queue), TRUE)
    BY <1>10 DEF DetailFails, siteVars
  <2>2. troubled' # {}
    BY <2>1 DEF Wrong
  <2> QED BY <2>1, <2>2 DEF Still
<1>11. CASE Price \/ Priced
  <2>1. phase = "price" /\ UNCHANGED <<groups, receipts, target>>
    BY <1>11 DEF Price, Priced, readVars, resultVars
  <2>2. groups = <<>> /\ target = Home /\ adapter = "remotes"
    BY <2>1 DEF ShapeInv
  <2>3. CASE Price
    BY <1>5, <1>8, <2>1, <2>2, <2>3 DEF Price
  <2>4. CASE Priced
    <3>1. queue' = shelf[Home]
      BY <2>4 DEF Priced
    <3>2. shelf[Home] \in Seq(Things) /\ IsInjective(shelf[Home])
          /\ \A i \in DOMAIN shelf[Home] : shelf[Home][i] \in Groups
      BY <1>3, <2>2, ShelfIs DEF Fits
    <3>3. queue' \in Seq(Groups) /\ IsInjective(queue')
      BY <3>1, <3>2
    <3> QED BY <1>5, <2>1, <2>2, <3>3
  <2> QED BY <1>11, <2>3, <2>4
<1>12. CASE ReportAuction
  <2>1. /\ phase = "report" /\ queue # <<>> /\ queue' = Tail(queue) /\ target' = target
        /\ groups' = Append(groups, Head(queue))
        /\ receipts' = Append(receipts, ReceiptFor(Head(queue), shelf[Head(queue)]))
    BY <1>12 DEF ReportAuction, Reported, readVars
  <2>2. target = Home
    BY <2>1 DEF ShapeInv
  <2>3. Head(queue) \in Groups /\ shelf[Head(queue)] \in Seq(Things)
    BY <1>3, <1>8, <2>1, ShelfIs
  <2>4. ReceiptFor(Head(queue), shelf[Head(queue)]) \in Receipts
        /\ ReceiptFor(Head(queue), shelf[Head(queue)]).group = Head(queue)
    BY <2>3, ReceiptIs
  <2> QED BY <1>6, <1>8, <2>1, <2>2, <2>3, <2>4
<1>13. CASE ReportCategory
  <2> PICK i \in DOMAIN rows : NewCategory(i) /\ Reported(GroupOf[rows[i]], OfGroup(GroupOf[rows[i]], rows))
    BY <1>13 DEF ReportCategory
  <2> DEFINE g == GroupOf[rows[i]]
             s == OfGroup(g, rows)
  <2>1. g \in Groups /\ ~Found(g)
    BY CatalogueAssumption DEF NewCategory, KeptLots, Found
  <2>2. /\ phase = "report" /\ adapter = "prado" /\ UNCHANGED <<queue, target>>
        /\ groups' = Append(groups, g) /\ receipts' = Append(receipts, ReceiptFor(g, s))
    BY <1>13 DEF ReportCategory, Reported, readVars
  <2>3. target = Home /\ queue = <<>>
    BY <2>2 DEF ShapeInv
  <2>4. s \in Seq(Things)
    <3> HIDE DEF g
    <3> QED BY OfGroupAre DEF WorkInv
  <2> HIDE DEF g, s
  <2>5. ReceiptFor(g, s) \in Receipts /\ ReceiptFor(g, s).group = g
    BY <2>1, <2>4, ReceiptIs
  <2>6. IsInjective(queue') /\ \A x : ~InSeq(x, queue')
    BY <2>2, <2>3 DEF InSeq, IsInjective
  <2> QED BY <1>6, <2>1, <2>2, <2>3, <2>5, <2>6
<1>14. CASE NoGroupLeft
  BY <1>4, <1>14 DEF NoGroupLeft, readVars, resultVars
<1>15. CASE Rests \/ UNCHANGED vars
  BY <1>4, <1>15 DEF Rests, vars, readVars, resultVars
<1> QED BY <1>1, <1>7, <1>9, <1>10, <1>11, <1>12, <1>13, <1>14, <1>15 DEF Next

\* What is reported is new to the result, and its lots are distinct.
LEMMA ReportsNew ==
  ASSUME SiteInv, ShapeInv, WorkInv, ReadInv, GroupsInv, Still, NEW g \in Groups, NEW s \in Seq(Things),
         LotsOf(g, s)
  PROVE  ~Found(g) /\ IsInjective(s)
<1>1. /\ phase # "price" => \A x : InSeq(x, queue) => x # target /\ ~Found(x)
      /\ ~Found(target)
  BY DEF GroupsInv, InSeq
<1>2. CASE phase = "list" /\ target = g /\ s = WhatIsRead
  <2>1. FromPages(shelf[target], rows, page - 1)
    BY <1>2 DEF ReadInv
  <2> QED BY <1>1, <1>2, <2>1, ReadOnce
<1>3. CASE phase = "report" /\ queue # <<>> /\ g = Head(queue) /\ s = shelf[g]
  <2>1. InSeq(g, queue)
    BY <1>3, TailIs DEF WorkInv
  <2>2. IsInjective(shelf[g])
    BY ShelfIs DEF Lists
  <2> QED BY <1>1, <1>3, <2>1, <2>2
<1>4. CASE phase = "report" /\ s = OfGroup(g, rows)
           /\ \E i \in DOMAIN rows : NewCategory(i) /\ g = GroupOf[rows[i]]
  <2>1. ~Found(g)
    BY <1>4 DEF NewCategory, Found
  <2>2. rows \in Seq(Things) /\ IsInjective(rows)
    BY <1>4 DEF ReadInv, WorkInv
  <2>3. IsInjective(OfGroup(g, rows))
    BY <2>2, OfGroupAre
  <2> QED BY <1>4, <2>1, <2>3
<1> QED BY <1>2, <1>3, <1>4 DEF LotsOf

Count(g) == Cardinality({i \in DOMAIN lots : lots[i][1] = g})
\* The contract check counts the lots of a group by their first component.
LEMMA CountIs == \A g : LotCount(Result, g) = Count(g) /\ LotCount(Result, g)' = Count(g)'
  BY DEF LotCount, Result, Count

\* The lots of a new group are counted for that group and for no other.
LEMMA LotsMore ==
  ASSUME WorkInv, NEW g \in Groups, NEW s \in Seq(Lots), lots' = lots \o Pairs(g, s),
         \A i \in DOMAIN lots : lots[i][1] # g, IsInjective(lots), IsInjective(s)
  PROVE  /\ IsInjective(lots') /\ Count(g)' = Len(s) /\ \A h : h # g => Count(h)' = Count(h)
         /\ \A i \in DOMAIN lots' : lots'[i][1] = g \/ \E k \in DOMAIN lots : lots'[i] = lots[k]
<1> DEFINE p == Pairs(g, s)
           n == Len(lots)
           k == Len(s)
<1>1. lots \in Seq(Groups \X Lots) /\ n \in Nat /\ k \in Nat /\ DOMAIN s = 1..k /\ DOMAIN lots = 1..n
  <2>1. lots \in Seq(Groups \X Lots)
    BY DEF WorkInv
  <2> QED BY <2>1
<1>2. p \in Seq(Groups \X Lots) /\ Len(p) = k /\ DOMAIN p = 1..k /\ \A i \in 1..k : p[i] = <<g, s[i]>>
  BY <1>1, PairsAre
<1> HIDE DEF p, n, k
<1>3. lots' = lots \o p
  BY DEF p
<1>4. /\ Len(lots') = n + k /\ lots' \in Seq(Groups \X Lots)
      /\ \A i \in DOMAIN lots' :
           \/ i \in DOMAIN lots /\ lots'[i] = lots[i]
           \/ i - n \in DOMAIN p /\ lots'[i] = p[i - n]
      /\ \A i \in DOMAIN lots : i \in DOMAIN lots' /\ lots'[i] = lots[i]
      /\ \A j \in DOMAIN p : n + j \in DOMAIN lots' /\ lots'[n + j] = p[j]
  <2> DEFINE P == Groups \X Lots
  <2>2. lots \in Seq(P) /\ p \in Seq(P)
    BY <1>1, <1>2
  <2> HIDE DEF P
  <2>1. /\ Len(lots \o p) = Len(lots) + Len(p) /\ lots \o p \in Seq(P)
        /\ \A i \in DOMAIN (lots \o p) :
             \/ i \in DOMAIN lots /\ (lots \o p)[i] = lots[i]
             \/ i - Len(lots) \in DOMAIN p /\ (lots \o p)[i] = p[i - Len(lots)]
        /\ \A i \in DOMAIN lots : i \in DOMAIN (lots \o p) /\ (lots \o p)[i] = lots[i]
        /\ \A j \in DOMAIN p :
             Len(lots) + j \in DOMAIN (lots \o p) /\ (lots \o p)[Len(lots) + j] = p[j]
    BY <2>2, Joined
  <2> QED BY <1>2, <1>3, <2>1 DEF n, P
<1>5. \A i \in DOMAIN lots' :
        \/ i \in 1..n /\ lots'[i] = lots[i] /\ lots'[i][1] # g
        \/ i - n \in 1..k /\ lots'[i] = <<g, s[i - n]>> /\ lots'[i][1] = g
  BY <1>1, <1>2, <1>4
<1>6. IsInjective(lots')
  <2> SUFFICES ASSUME NEW a \in DOMAIN lots', NEW b \in DOMAIN lots', lots'[a] = lots'[b] PROVE a = b
    BY DEF IsInjective
  <2>1. CASE lots'[a][1] = g
    <3>1. a - n \in 1..k /\ b - n \in 1..k /\ s[a - n] = s[b - n]
      BY <1>5, <2>1
    <3>2. a - n = b - n
      BY <1>1, <3>1 DEF IsInjective
    <3>3. a \in Int /\ b \in Int
      BY <1>4
    <3> QED BY <1>1, <3>2, <3>3
  <2>2. CASE lots'[a][1] # g
    <3>1. a \in DOMAIN lots /\ b \in DOMAIN lots /\ lots[a] = lots[b]
      BY <1>1, <1>5, <2>2
    <3> QED BY <3>1 DEF IsInjective
  <2> QED BY <2>1, <2>2
<1>7. ASSUME NEW h, h # g PROVE Count(h)' = Count(h)
  <2>1. {i \in DOMAIN lots' : lots'[i][1] = h} = {i \in DOMAIN lots : lots[i][1] = h}
    BY <1>1, <1>4, <1>5, <1>7
  <2> QED BY <2>1 DEF Count
<1>8. Count(g)' = k
  <2>1. {i \in DOMAIN lots' : lots'[i][1] = g} = (n + 1)..(n + k)
    <3>1. ASSUME NEW i \in DOMAIN lots', lots'[i][1] = g PROVE i \in (n + 1)..(n + k)
      <4>1. i - n \in 1..k /\ i \in Int
        BY <1>4, <1>5, <3>1
      <4> QED BY <1>1, <4>1
    <3>2. ASSUME NEW i \in (n + 1)..(n + k) PROVE i \in DOMAIN lots' /\ lots'[i][1] = g
      <4>1. i \in 1..n + k
        BY <1>1, <3>2
      <4>2. DOMAIN lots' = 1..n + k
        BY <1>1, <1>4
      <4>3. i \notin 1..n
        BY <1>1, <3>2
      <4> QED BY <1>5, <4>1, <4>2, <4>3
    <3> QED BY <3>1, <3>2
  <2>2. Cardinality((n + 1)..(n + k)) = k
    <3>1. n + 1 \in Int /\ n + k \in Int /\ (n + 1 > n + k => k = 0) /\ (n + k) - (n + 1) + 1 = k
      BY <1>1
    <3>2. Cardinality((n + 1)..(n + k)) = IF n + 1 > n + k THEN 0 ELSE (n + k) - (n + 1) + 1
      BY <3>1, FS_Interval, Zenon
    <3> QED BY <3>1, <3>2
  <2> QED BY <2>1, <2>2 DEF Count
<1>9. \A i \in DOMAIN lots' : lots'[i][1] = g \/ \E j \in DOMAIN lots : lots'[i] = lots[j]
  BY <1>1, <1>5
<1> QED BY <1>6, <1>7, <1>8, <1>9 DEF k

\* Every step that adds lots adds each once and counts them in the receipt.
LEMMA LotsStep ==
  SiteInv /\ ShapeInv /\ WorkInv /\ ReadInv /\ GroupsInv /\ LotsInv /\ [Next]_vars => LotsInv'
<1> SUFFICES ASSUME SiteInv, ShapeInv, WorkInv, ReadInv, GroupsInv, LotsInv, Still', [Next]_vars
             PROVE  /\ IsInjective(lots') /\ \A i \in DOMAIN lots' : Found(lots[i][1])'
                    /\ \A i \in DOMAIN receipts' :
                         receipts'[i].status # "failed" => receipts'[i].count = Count(receipts[i].group)'
  BY CountIs DEF LotsInv
<1>1. Still /\ ~\E l \in Lots : Publish(l) \/ Withdraw(l)
  BY StillBefore
<1>2. /\ IsInjective(lots) /\ \A i \in DOMAIN lots : Found(lots[i][1])
      /\ \A i \in DOMAIN receipts :
           receipts[i].status # "failed" => receipts[i].count = Count(receipts[i].group)
  BY <1>1, CountIs DEF LotsInv
<1>3. CASE Quiet
  BY <1>2, <1>3 DEF Quiet, Count, Found
<1>4. groups \in Seq(Groups)
  BY DEF WorkInv
<1>5. ASSUME NEW g \in Groups, groups' = Append(groups, g)
      PROVE  \A h : Found(h)' <=> Found(h) \/ h = g
  <2>1. \A h : InSeq(h, groups') <=> InSeq(h, groups) \/ h = g
    BY <1>4, <1>5, AppendIs
  <2> QED BY <2>1 DEF Found, InSeq
<1>6. ASSUME NEW g \in Groups, FailsFor(g) PROVE LotsInv' 
  <2>1. /\ receipts' = Append(receipts, Receipt(g, "failed", 0)) /\ lots' = lots
        /\ groups' = groups \/ groups' = Append(groups, g)
    BY <1>6 DEF FailsFor
  <2>2. \A h : Found(h) => Found(h)'
    BY <1>5, <2>1 DEF Found
  <2>3. \A h : Count(h)' = Count(h)
    BY <2>1 DEF Count
  <2>4. Receipt(g, "failed", 0) \in Receipts /\ Receipt(g, "failed", 0).status = "failed"
    BY DEF Receipt, Receipts
  <2>5. \A i \in DOMAIN receipts' :
          receipts'[i].status # "failed" => receipts'[i].count = Count(receipts[i].group)'
    BY <1>2, <2>1, <2>3, <2>4, OneReceiptMore
  <2>6. \A i \in DOMAIN lots' : Found(lots[i][1])'
    BY <1>2, <2>1, <2>2
  <2> QED BY <1>2, <2>1, <2>5, <2>6, CountIs DEF LotsInv
<1>7. ASSUME NEW g \in Groups, NEW s \in Seq(Things), ReportsFor(g, s) PROVE LotsInv'
  <2>1. /\ groups' = Append(groups, g) /\ receipts' = Append(receipts, ReceiptFor(g, s))
        /\ lots' = lots \o Pairs(g, Sound(s)) /\ LotsOf(g, s)
    BY <1>7 DEF ReportsFor, Reported
  <2>2. ~Found(g) /\ IsInjective(s)
    BY <1>1, <2>1, ReportsNew
  <2>3. Sound(s) \in Seq(Lots) /\ IsInjective(Sound(s))
    BY <2>2, SoundAre
  <2>4. \A i \in DOMAIN lots : lots[i][1] # g
    BY <1>2, <2>2
  <2>5. /\ IsInjective(lots') /\ Count(g)' = Len(Sound(s)) /\ \A h : h # g => Count(h)' = Count(h)
        /\ \A i \in DOMAIN lots' : lots'[i][1] = g \/ \E k \in DOMAIN lots : lots'[i] = lots[k]
    BY <1>2, <2>1, <2>3, <2>4, LotsMore
  <2>6. \A i \in DOMAIN lots' : Found(lots[i][1])'
    BY <1>2, <1>5, <2>1, <2>5
  <2>7. ReceiptFor(g, s) \in Receipts /\ ReceiptFor(g, s).group = g
        /\ ReceiptFor(g, s).count = Len(Sound(s))
    BY ReceiptIs
  <2>8. \A i \in DOMAIN receipts : receipts[i].group # g
    <3>1. /\ Len(receipts) = Len(groups) /\ \A i \in DOMAIN groups : receipts[i].group = groups[i]
      BY <1>1 DEF GroupsInv
    <3>2. DOMAIN receipts = DOMAIN groups
      BY <3>1 DEF WorkInv
    <3> QED BY <2>2, <3>1, <3>2 DEF Found
  <2>9. \A i \in DOMAIN receipts' :
          receipts'[i].status # "failed" => receipts'[i].count = Count(receipts[i].group)'
    BY <1>2, <2>1, <2>5, <2>7, <2>8, OneReceiptMore
  <2> QED BY <2>5, <2>6, <2>9, CountIs DEF LotsInv
<1>8. LotsInv'
  BY <1>1, <1>3, <1>6, <1>7, ResultStep, CountIs DEF LotsInv
<1> QED BY <1>8, CountIs DEF LotsInv

AcceptInv == FlawlessInv /\ ReadInv /\ GroupsInv /\ LotsInv
\* The empty result has nothing to contradict.
LEMMA AcceptInit == Init => AcceptInv
<1> SUFFICES ASSUME Init PROVE AcceptInv
  OBVIOUS
<1>1. /\ receipts = <<>> /\ groups = <<>> /\ lots = <<>> /\ queue = <<>> /\ rows = <<>>
      /\ phase = "list"
  BY DEF Init
<1>2. /\ IsInjective(<<>>) /\ DOMAIN <<>> = {} /\ Len(<<>>) = 0
  BY DEF IsInjective
<1>3. FlawlessInv
  BY <1>1 DEF FlawlessInv
<1>4. ReadInv
  BY <1>1, <1>2 DEF ReadInv, FromPages
<1>5. GroupsInv
  BY <1>1, <1>2 DEF GroupsInv, Found
<1>6. LotsInv
  BY <1>1, <1>2 DEF LotsInv
<1> QED BY <1>3, <1>4, <1>5, <1>6 DEF AcceptInv

\* What the parts of the invariant come to when the scan is done.
LEMMA WorkIsAccepted ==
  SiteInv /\ ShapeInv /\ WorkInv /\ AcceptInv => ResultIsAccepted
<1> SUFFICES ASSUME SiteInv, ShapeInv, WorkInv, AcceptInv, Still PROVE Accepted(Result)
  BY TypesHold DEF ResultIsAccepted, Still
<1>1. /\ groups \in Seq(Groups) /\ receipts \in Seq(Receipts) /\ lots \in Seq(Groups \X Lots)
  BY DEF WorkInv
<1>2. /\ IsInjective(groups) /\ Len(receipts) = Len(groups)
      /\ \A i \in DOMAIN groups : receipts[i].group = groups[i]
  BY DEF AcceptInv, GroupsInv
<1>3. /\ IsInjective(lots) /\ \A i \in DOMAIN lots : Found(lots[i][1])
      /\ \A i \in DOMAIN receipts :
           receipts[i].status # "failed" => receipts[i].count = LotCount(Result, receipts[i].group)
  BY DEF AcceptInv, LotsInv
<1>4. /\ Result.groups = groups /\ Result.skipped = <<>> /\ Result.receipts = receipts
      /\ Result.lots = lots /\ Result.authoritative = flawless /\ Result.omission = FALSE
      /\ Result.flawless = flawless
  BY DEF Result
<1>5. GroupOfReceipts(Result) = groups
  <2>1. DOMAIN receipts = DOMAIN groups
    BY <1>1, <1>2
  <2>2. GroupOfReceipts(Result) = [i \in DOMAIN groups |-> groups[i]]
    BY <1>2, <1>4, <2>1 DEF GroupOfReceipts
  <2> QED BY <1>1, <2>2
<1>6. Distinct(groups)
  BY <1>1, <1>2, InjectiveIsDistinct
<1>7. Distinct(lots)
  <2> DEFINE P == Groups \X Lots
  <2>1. lots \in Seq(P)
    BY <1>1
  <2> HIDE DEF P
  <2> QED BY <2>1, <1>3, InjectiveIsDistinct
<1>8. Distinct(<<>>) /\ Elements(<<>>) = {}
  <2>1. <<>> \in Seq(Groups) /\ IsInjective(<<>>)
    BY DEF IsInjective
  <2>2. Distinct(<<>>)
    BY <2>1, InjectiveIsDistinct
  <2>3. Elements(<<>>) = {}
    BY DEF Elements
  <2> QED BY <2>2, <2>3
<1>9. \A i \in DOMAIN lots : lots[i][1] \in Elements(groups)
  BY <1>3 DEF Found, Elements
<1>10. CoverageMatches(Result)
  BY <1>4, <1>5, <1>6, <1>7, <1>8, <1>9 DEF CoverageMatches
<1>11. \A i \in DOMAIN receipts : receipts[i].authoritative <=> receipts[i].status = "complete"
  BY DEF ShapeInv
<1>12. flawless => \A i \in DOMAIN receipts : receipts[i].status = "complete"
  BY DEF AcceptInv, FlawlessInv
<1>13. ClaimsAgree(Result)
  BY <1>3, <1>4, <1>11, <1>12 DEF ClaimsAgree
<1> QED BY <1>10, <1>13 DEF Accepted

\* A site that stands still gives a result that runner._source_contract_error accepts, with
\* any number of malformed records, failed requests and pages: every group of the result has
\* its one receipt, no lot is listed twice or for a group that is not there, receipts count
\* their lots, and a result without errors claims no more than its receipts.  The exception is
\* Bavastro, as the property says.
THEOREM ResultAccepted == Spec => []ResultIsAccepted
<1>1. Init => AcceptInv
  BY AcceptInit
<1>2. Shape /\ AcceptInv /\ [Next]_vars => AcceptInv'
  BY FlawlessStep, ReadStep, GroupsStep, LotsStep DEF Shape, AcceptInv
<1>3. Shape /\ AcceptInv => ResultIsAccepted
  BY WorkIsAccepted DEF Shape
<1> QED BY <1>1, <1>2, <1>3, ShapeHolds, PTL DEF Spec

-----------------------------------------------------------------------------
(* Authority is true: nothing that stayed on sale is overlooked *)

\* A scan without the exceptions up to now had none a step ago.
LEMMA WatchedBefore ==
  SiteInv /\ ShapeInv /\ WorkInv /\ Watched' /\ [Next]_vars =>
    Watched /\ (\A l \in Lots : ~Withdraw(l)) /\ UNCHANGED <<adapter, flaw, counted, closed, always>>
<1> SUFFICES ASSUME SiteInv, ShapeInv, WorkInv, Watched', [Next]_vars
             PROVE  /\ Watched /\ \A l \in Lots : ~Withdraw(l)
                    /\ UNCHANGED <<adapter, flaw, counted, closed, always>>
  OBVIOUS
<1>1. withdrawn \in Nat /\ changes \in Nat /\ Home \in Lists
  BY CatalogueAssumption DEF WorkInv, Lists
<1>2. ASSUME NEW l \in Lots, Withdraw(l) PROVE FALSE
  <2>1. withdrawn' = withdrawn + 1
    BY <1>2 DEF Withdraw
  <2> QED BY <1>1, <2>1 DEF Watched
<1>3. CASE \E l \in Lots : Publish(l)
  <2> PICK l \in Lots : Publish(l)
    BY <1>3
  <2>1. UNCHANGED <<adapter, flaw, counted, closed, always, withdrawn, troubled>> /\ changes' = changes + 1
    BY ChangingIs DEF Publish
  <2>2. TotalIsAbsurd => TotalIsAbsurd'
    <3>1. shelf[Home] \in Seq(Things) /\ Grown(Home)
      BY <1>1, ShelfIs, PublishIs
    <3>2. shelf'[Home] \in Seq(Things) /\ Len(shelf[Home]) <= Len(shelf'[Home])
          /\ Len(shelf[Home]) \in Nat /\ Len(shelf'[Home]) \in Nat
      <4>1. CASE shelf'[Home] = shelf[Home]
        BY <3>1, <4>1
      <4>2. ASSUME NEW x \in Things, shelf'[Home] = <<x>> \o shelf[Home] PROVE <3>2!1
        <5>1. shelf'[Home] \in Seq(Things) /\ Len(shelf'[Home]) = Len(shelf[Home]) + 1
          BY <3>1, <4>2, Headed
        <5>2. Len(shelf[Home]) \in Nat
          BY <3>1
        <5> QED BY <5>1, <5>2
      <4>3. CASE \E x \in Things : shelf'[Home] = <<x>> \o shelf[Home]
        <5> PICK x \in Things : shelf'[Home] = <<x>> \o shelf[Home]
          BY <4>3
        <5>1. shelf'[Home] \in Seq(Things) /\ Len(shelf'[Home]) = Len(shelf[Home]) + 1
          BY <3>1, Headed
        <5>2. Len(shelf[Home]) \in Nat
          BY <3>1
        <5> QED BY <5>1, <5>2
      <4> QED BY <3>1, <4>1, <4>3 DEF Grown
    <3>3. /\ LastPage(shelf[Home]) \in Nat
          /\ LastPage(shelf[Home]) <= MaxPages <=> Len(shelf[Home]) <= MaxPages * PageSize
      BY <3>1, LastPageHolds, Products
    <3>4. /\ LastPage(shelf'[Home]) \in Nat
          /\ LastPage(shelf'[Home]) <= MaxPages <=> Len(shelf'[Home]) <= MaxPages * PageSize
      BY <3>2, LastPageHolds, Products
    <3>5. MaxPages \in Nat /\ MaxPages * PageSize \in Nat
      BY Products
    <3>6. MaxPages < LastPage(shelf[Home]) => MaxPages < LastPage(shelf'[Home])
      <4> DEFINE a == LastPage(shelf[Home])
                 b == LastPage(shelf'[Home])
                 m == Len(shelf[Home])
                 n == Len(shelf'[Home])
                 k == MaxPages * PageSize
      <4>1. /\ a \in Nat /\ b \in Nat /\ k \in Nat /\ m \in Nat /\ n \in Nat /\ m <= n
            /\ a <= MaxPages <=> m <= k
            /\ b <= MaxPages <=> n <= k
        BY <3>2, <3>3, <3>4, <3>5
      <4> HIDE DEF a, b, m, n, k
      <4>2. MaxPages < a => MaxPages < b
        BY <3>5, <4>1
      <4> QED BY <4>2 DEF a, b
    <3> QED BY <2>1, <3>6 DEF TotalIsAbsurd, Absurd, LastPage
  <2>3. changes' > 0
    BY <1>1, <2>1
  <2> QED BY <1>2, <2>1, <2>2, <2>3 DEF Watched, NoJunk
<1>4. CASE ~\E l \in Lots : Publish(l)
  <2>1. UNCHANGED <<siteVars, changes>> /\ troubled \subseteq troubled'
    BY <1>2, <1>4, ResultStep
  <2>2. TotalIsAbsurd => TotalIsAbsurd'
    BY <2>1 DEF TotalIsAbsurd, siteVars, LastPage, Absurd
  <2> QED BY <1>2, <2>1, <2>2 DEF Watched, NoJunk, siteVars
<1> QED BY <1>3, <1>4

\* What stands on the pages read so far and on the one at hand was read.
Seen(n, r) ==
  \A i \in DOMAIN shelf[target] :
    i <= n * PageSize /\ Kept(shelf[target][i]) => InSeq(shelf[target][i], r)
\* The page at hand is all that was missing of what stands up to it.
LEMMA SeenMore ==
  ASSUME SiteInv, WorkInv, Seen(page - 1, rows)
  PROVE  Seen(page, WhatIsRead)
<1> SUFFICES ASSUME NEW i \in DOMAIN shelf[target], i <= page * PageSize, Kept(shelf[target][i])
             PROVE  InSeq(shelf[target][i], WhatIsRead)
  BY DEF Seen
<1> DEFINE n == (page - 1) * PageSize
<1>1. shelf[target] \in Seq(Things) /\ page \in Nat \ {0} /\ page - 1 \in Nat
  BY ShelfIs, CatalogueAssumption DEF WorkInv
<1>2. n \in Nat /\ i \in Nat
  BY <1>1, Products
<1>3. CASE i <= n
  BY <1>3, ReadIs DEF Seen
<1>4. CASE n < i
  <2> DEFINE e == Entries(shelf[target], page)
  <2>1. /\ i - n \in DOMAIN e
        /\ \A j \in DOMAIN e : e[j] = shelf[target][n + j]
    BY <1>1, <1>4, PageShows
  <2>2. n + (i - n) = i
    <3> HIDE DEF n
    <3> QED BY <1>2
  <2> HIDE DEF e, n
  <2>3. e[i - n] = shelf[target][i]
    BY <2>1, <2>2
  <2>4. InSeq(shelf[target][i], e)
    BY <2>1, <2>3 DEF InSeq
  <2> QED BY <2>4, ReadIs DEF e
<1> QED BY <1>2, <1>3, <1>4

\* With all entries of a list seen, nothing that stayed is missing.
LEMMA AllRead ==
  ASSUME SiteInv, WorkInv, Seen(page - 1, rows), AllSeen, NEW x, InSeq(x, shelf[target]), Kept(x)
  PROVE  InSeq(x, WhatIsRead)
<1>1. PICK i \in DOMAIN shelf[target] : shelf[target][i] = x
  BY DEF InSeq
<1>2. shelf[target] \in Seq(Things)
  BY ShelfIs DEF WorkInv
<1>3. i <= page * PageSize
  <2>1. i <= Len(shelf[target]) /\ i \in Nat /\ Len(shelf[target]) \in Nat
    BY <1>2
  <2>2. Len(shelf[target]) <= page * PageSize /\ page * PageSize \in Nat
    <3>1. page \in Nat
      BY CatalogueAssumption DEF WorkInv
    <3> QED BY <3>1, Products DEF AllSeen
  <2> QED BY <2>1, <2>2
<1> QED BY <1>1, <1>3, SeenMore DEF Seen

\* Where what stays on sale is shown.
LEMMA StaysShown ==
  ASSUME SiteInv, NEW l \in always
  PROVE  /\ l \in Lots /\ GroupOf[l] \in Groups /\ GroupOf[l] # Home /\ GroupOf[l] \notin closed
         /\ ~Hidden(l) /\ InSeq(l, shelf[ShelfOf(l)]) /\ Kept(l) /\ Kept(GroupOf[l])
         /\ adapter # "prado" => InSeq(GroupOf[l], shelf[Home])
<1>1. l \in Lots /\ Offered(l) /\ adapter \in Adapters
  BY DEF SiteInv
<1>2. GroupOf[l] \in Groups /\ GroupOf[l] # Home /\ GroupOf[l] \notin Lots
  BY <1>1, CatalogueAssumption
<1>3. InSeq(l, shelf[ShelfOf(l)])
  BY <1>1 DEF Offered, Shown, InSeq
<1>4. ASSUME adapter # "prado" PROVE InSeq(GroupOf[l], shelf[Home])
  <2>1. DOMAIN shelf[GroupOf[l]] # {}
    BY <1>3, <1>4 DEF InSeq, ShelfOf
  <2>2. shelf[GroupOf[l]] # <<>>
    BY <2>1
  <2> QED BY <1>2, <1>4, <2>2 DEF SiteInv
<1> QED BY <1>1, <1>2, <1>3, <1>4 DEF Offered, Kept

\* What is published moves entries towards the pages still to come, never away from them.
LEMMA SeenStep == SiteInv /\ ShapeInv /\ WorkInv /\ SeenInv /\ [Next]_vars => SeenInv'
<1> SUFFICES ASSUME SiteInv, ShapeInv, WorkInv, SeenInv, Watched', [Next]_vars
             PROVE  /\ phase' = "list" /\ adapter' \in Numbered => Seen(page - 1, rows)'
                    /\ phase' \in {"report", "done"} /\ adapter' = "prado" =>
                         \A l \in always' : InSeq(l, rows')
  BY DEF SeenInv, Seen
<1>1. Watched /\ (\A l \in Lots : ~Withdraw(l)) /\ UNCHANGED <<adapter, flaw, counted, closed, always>>
  BY WatchedBefore
<1>2. /\ phase = "list" /\ adapter \in Numbered => Seen(page - 1, rows)
      /\ phase \in {"report", "done"} /\ adapter = "prado" => \A l \in always : InSeq(l, rows)
  BY <1>1 DEF SeenInv, Seen
<1>3. \A x : Kept(x)' <=> Kept(x)
  BY <1>1 DEF Kept
\* What is added stands before the entries read, which move down the list.
<1>4. CASE \E l \in Lots : Publish(l)
  <2> PICK l \in Lots : Publish(l)
    BY <1>4
  <2>1. UNCHANGED <<phase, target, page, rows>> /\ phase \in {"list", "next"}
    BY ChangingIs DEF readVars
  <2>2. ASSUME Seen(page - 1, rows) PROVE Seen(page - 1, rows)'
    <3>1. target \in Lists /\ shelf[target] \in Seq(Things) /\ page - 1 \in Nat
      BY ShelfIs, CatalogueAssumption DEF WorkInv
    <3>2. CASE shelf'[target] = shelf[target]
      BY <1>3, <2>1, <2>2, <3>2 DEF Seen
    <3>3. CASE shelf'[target] # shelf[target]
      <4> PICK x \in Things : ~Kept(x) /\ shelf'[target] = <<x>> \o shelf[target]
        BY <3>1, <3>3, PublishIs DEF Grown
      <4>1. /\ shelf'[target][1] = x
            /\ \A i \in DOMAIN shelf'[target] : i # 1 =>
                 i - 1 \in DOMAIN shelf[target] /\ shelf'[target][i] = shelf[target][i - 1]
            /\ shelf'[target] \in Seq(Things)
        BY <3>1, Headed
      <4>2. (page - 1) * PageSize \in Nat
        BY <3>1, Products
      <4>3. ASSUME NEW i \in DOMAIN shelf'[target], i <= (page - 1) * PageSize, Kept(shelf'[target][i])
            PROVE  InSeq(shelf'[target][i], rows)
        <5>1. i # 1
          BY <4>1, <4>3
        <5>2. i - 1 <= (page - 1) * PageSize
          <6>1. i \in Nat
            BY <4>1
          <6> QED BY <4>2, <4>3, <6>1
        <5> QED BY <2>2, <4>1, <4>3, <5>1, <5>2 DEF Seen
      <4> QED BY <1>3, <2>1, <4>3 DEF Seen
    <3> QED BY <3>2, <3>3
  <2> QED BY <1>1, <1>2, <2>1, <2>2
<1>5. ASSUME UNCHANGED <<shelf, page, rows, target>>, phase' \in {phase, "done", "failed", "next"},
             phase' = "done" => phase = "report" \/ adapter # "prado" \/ phase = "done"
      PROVE  /\ phase' = "list" /\ adapter' \in Numbered => Seen(page - 1, rows)'
             /\ phase' \in {"report", "done"} /\ adapter' = "prado" =>
                  \A l \in always' : InSeq(l, rows')
  <2>1. Seen(page - 1, rows)' <=> Seen(page - 1, rows)
    BY <1>3, <1>5 DEF Seen
  <2> QED BY <1>1, <1>2, <1>5, <2>1
<1>6. CASE Fetch
  <2>1. /\ phase = "list" /\ UNCHANGED <<siteVars, changes>>
        /\ BreaksOff \/ GoesOn \/ Ends
    BY <1>6, FetchIs
  <2>2. shelf' = shelf /\ changes' = changes /\ changes \in Nat
    BY <2>1, CatalogueAssumption DEF siteVars, WorkInv
  <2>3. CASE BreaksOff
    BY <2>3 DEF BreaksOff, Broken, Read
  <2>4. CASE GoesOn
    <3>1. adapter \in Numbered /\ page' = page + 1 /\ rows' = WhatIsRead /\ phase' = phase /\ target' = target
      BY <2>4 DEF GoesOn, WhatIsRead
    <3>2. page' - 1 = page
      BY <3>1, CatalogueAssumption DEF WorkInv
    <3>3. Seen(page, WhatIsRead)
      BY <1>2, <2>1, <3>1, SeenMore
    <3>4. Seen(page - 1, rows)'
      BY <1>3, <2>2, <3>1, <3>2, <3>3 DEF Seen
    <3> QED BY <2>1, <3>1, <3>4
  <2>5. CASE Ends
    <3>1. CASE adapter = "remotes"
      BY <1>1, <2>5, <3>1 DEF Ends, Discovered, Numbered
    <3>2. CASE adapter # "remotes"
      <4>1. /\ IF target = Home THEN Discovered(WhatIsRead) ELSE GroupRead(WhatIsRead)
            /\ adapter \in Numbered
            /\ NoJunk => AllSeen \/ (adapter = "prado" /\ changes # 0 /\ TotalIsAbsurd')
        BY <2>5, <3>2 DEF Ends, WhatIsRead
      <4>2. CASE adapter # "prado"
        <5>1. phase' = "next"
          BY <3>2, <4>1, <4>2 DEF Discovered, GroupRead, Read
        <5> QED BY <5>1
      <4>3. CASE adapter = "prado"
        <5>1. target = Home
          BY <4>3 DEF ShapeInv
        <5>2. rows' = WhatIsRead /\ phase' = "report"
          BY <4>1, <4>3, <5>1 DEF Discovered
        <5>3. AllSeen
          BY <1>1, <2>2, <4>1, <4>3 DEF Watched
        <5>4. ASSUME NEW l \in always PROVE InSeq(l, rows')
          <6>1. InSeq(l, shelf[target]) /\ Kept(l)
            BY <4>3, <5>1, StaysShown DEF ShelfOf
          <6> QED BY <1>2, <2>1, <4>1, <5>2, <5>3, <6>1, AllRead
        <5> QED BY <1>1, <5>2, <5>4
      <4> QED BY <4>2, <4>3
    <3> QED BY <3>1, <3>2
  <2> QED BY <2>1, <2>3, <2>4, <2>5
<1>7. CASE NextGroup
  <2>1. /\ phase = "next" /\ UNCHANGED siteVars
        /\ UNCHANGED <<phase, readVars>> \/ Read(Head(queue), "list")
    BY <1>7 DEF NextGroup
  <2>2. CASE UNCHANGED <<phase, readVars>>
    BY <2>1, <2>2
  <2>3. CASE Read(Head(queue), "list")
    <3>1. page' = 1 /\ phase' = "list" /\ target' = Head(queue) /\ shelf' = shelf
      BY <2>1, <2>3 DEF Read, siteVars
    <3>2. Head(queue) \in Lists
      <4>1. queue # <<>> /\ queue \in Seq(Groups)
        BY <1>7 DEF NextGroup, WorkInv
      <4> QED BY <4>1 DEF Lists
    <3>3. shelf[Head(queue)] \in Seq(Things)
      BY <3>2, ShelfIs
    <3>4. \A i \in DOMAIN shelf[Head(queue)] : i \in Nat /\ ~(i <= 0)
      BY <3>3
    <3>5. (page' - 1) * PageSize = 0
      BY <3>1, CatalogueAssumption
    <3>6. Seen(page - 1, rows)'
      BY <3>1, <3>4, <3>5 DEF Seen
    <3> QED BY <3>1, <3>6
  <2> QED BY <2>1, <2>2, <2>3
<1>8. CASE DetailFails
  BY <1>5, <1>8 DEF DetailFails, siteVars, readVars
<1>9. CASE Price \/ Priced
  <2>1. phase = "price" /\ phase' \in {"price", "report"}
    BY <1>9 DEF Price, Priced
  <2>2. adapter = "remotes"
    BY <2>1 DEF ShapeInv
  <2> QED BY <1>1, <2>1, <2>2 DEF Numbered
<1>10. CASE ReportAuction \/ ReportCategory
  BY <1>5, <1>10 DEF ReportAuction, ReportCategory, siteVars, readVars
<1>11. CASE NoGroupLeft
  <2>1. phase \in {"next", "report"} /\ phase' = "done" /\ UNCHANGED <<siteVars, readVars>>
    BY <1>11 DEF NoGroupLeft
  <2>2. phase = "next" => adapter # "prado"
    BY DEF ShapeInv
  <2> QED BY <1>5, <2>1, <2>2 DEF siteVars, readVars
<1>12. CASE Rests \/ UNCHANGED vars
  BY <1>5, <1>12 DEF Rests, vars, siteVars, readVars
<1> QED BY <1>1, <1>4, <1>6, <1>7, <1>8, <1>9, <1>10, <1>11, <1>12 DEF Next

\* The lots of a group that is reported hold all that stayed on sale.
LEMMA LotsHoldAll ==
  ASSUME SiteInv, ShapeInv, WorkInv, SeenInv, Watched, NEW g \in Groups, NEW s \in Seq(Things),
         LotsOf(g, s), NEW l \in always, GroupOf[l] = g
  PROVE  InSeq(l, s)
<1>1. /\ l \in Lots /\ ~Hidden(l) /\ InSeq(l, shelf[ShelfOf(l)]) /\ Kept(l) /\ g # Home
  BY StaysShown
<1>2. l \in KeptLots
  BY <1>1 DEF KeptLots, Watched, NoJunk
<1>3. CASE /\ phase = "list" /\ target = g /\ s = WhatIsRead /\ adapter \in {"todoremates", "bavastro"}
           /\ NoJunk => AllSeen
  <2>1. Seen(page - 1, rows)
    BY <1>3 DEF SeenInv, Seen, Numbered
  <2>2. AllSeen /\ InSeq(l, shelf[target])
    BY <1>1, <1>3 DEF Watched, ShelfOf
  <2> QED BY <1>1, <1>3, <2>1, <2>2, AllRead
<1>4. CASE phase = "report" /\ adapter = "remotes" /\ s = shelf[g]
  BY <1>1, <1>4 DEF ShelfOf
<1>5. CASE phase = "report" /\ adapter = "prado" /\ s = OfGroup(g, rows)
  <2>1. InSeq(l, rows)
    BY <1>5 DEF SeenInv
  <2>2. PICK i \in DOMAIN rows : rows[i] = l
    BY <2>1 DEF InSeq
  <2>3. rows \in Seq(Things)
    BY DEF WorkInv
  <2>4. \A k \in DOMAIN rows : rows[k] \in KeptLots /\ GroupOf[rows[k]] = g =>
          InSeq(rows[k], OfGroup(g, rows))
    BY <2>3, OfGroupAre
  <2> QED BY <1>2, <1>5, <2>2, <2>4
<1> QED BY <1>3, <1>4, <1>5 DEF LotsOf

\* A complete receipt lists every lot of its group that stayed on sale: no record of the
\* group is malformed, so none of them was passed over.
LEMMA CompleteHasAll ==
  ASSUME SiteInv, ShapeInv, WorkInv, SeenInv, Watched, NEW g \in Groups, NEW s \in Seq(Things),
         LotsOf(g, s), ~Spoilt(g, s), \A i \in DOMAIN s : s[i] \in Lots, NEW l \in always,
         GroupOf[l] = g
  PROVE  InSeq(l, Sound(s))
<1>1. l \in Lots /\ ~Hidden(l) /\ InSeq(l, s)
  BY StaysShown, LotsHoldAll
<1>2. l \in KeptLots
  BY <1>1 DEF KeptLots, Watched, NoJunk
<1>3. PICK i \in DOMAIN s : s[i] = l
  BY <1>1 DEF InSeq
<1>4. flaw[l] # "untitled"
  <2>1. CASE adapter \in {"todoremates", "bavastro"}
    BY <1>3, <2>1 DEF Spoilt, Malformed
  <2>2. CASE adapter = "remotes"
    <3>1. CASE ~counted
      BY <1>1, <2>2, <3>1 DEF Watched
    <3>2. CASE counted
      <4> DEFINE S == {k \in KeptLots : flaw[k] # "untitled"}
      <4>1. Len(Sound(s)) = Len(s)
        BY <2>2, <3>2 DEF Spoilt
      <4>2. IsPick(Things, s, S, Sound(s))
        <5>1. IsPick(Things, s, S, Picked(s, S))
          <6> HIDE DEF S
          <6> QED BY PickedIsSome
        <5> QED BY <5>1 DEF Sound
      <4>3. s[i] \in S
        <5> HIDE DEF S
        <5> QED BY <4>1, <4>2 DEF IsPick
      <4> QED BY <1>3, <4>3
    <3> QED BY <3>1, <3>2
  <2>3. CASE adapter = "prado"
    <3>1. InSeq(l, rows)
      <4>1. phase = "report"
        BY <2>3 DEF LotsOf
      <4> QED BY <2>3, <4>1 DEF SeenInv
    <3>2. <<g, g>> \in Within
      BY CatalogueAssumption
    <3> QED BY <2>3, <3>1, <3>2 DEF InSeq, Spoilt
  <2>4. adapter \in Numbered \union {"remotes"}
    BY CatalogueAssumption DEF SiteInv
  <2> QED BY <2>1, <2>2, <2>3, <2>4 DEF Numbered
<1> QED BY <1>2, <1>3, <1>4, SoundAre

\* A new complete receipt has all lots, and what it once listed stays listed.
LEMMA CompleteStep ==
  SiteInv /\ ShapeInv /\ WorkInv /\ SeenInv /\ CompleteInv /\ [Next]_vars => CompleteInv'
<1> SUFFICES ASSUME SiteInv, ShapeInv, WorkInv, SeenInv, CompleteInv, Watched', [Next]_vars,
                    NEW l \in always', StatusOf(GroupOf[l], "complete")'
             PROVE  Listed(l)'
  BY DEF CompleteInv
<1>1. /\ Watched /\ (\A m \in Lots : ~Withdraw(m))
      /\ UNCHANGED <<adapter, flaw, counted, closed, always>>
  BY WatchedBefore
<1>2. l \in always /\ l \in Lots /\ GroupOf[l] \in Groups
  BY <1>1, StaysShown
<1>3. StatusOf(GroupOf[l], "complete") => Listed(l)
  BY <1>1, <1>2 DEF CompleteInv
<1>4. CASE UNCHANGED <<receipts, lots>>
  BY <1>3, <1>4 DEF StatusOf, Listed
<1>5. CASE \E k \in Lots : Publish(k)
  <2>1. UNCHANGED <<receipts, lots>>
    BY <1>5, ChangingIs DEF resultVars
  <2> QED BY <1>4, <2>1
<1>6. CASE ~\E k \in Lots : Publish(k)
  <2>1. \/ Quiet
        \/ \E g \in Groups : FailsFor(g)
        \/ \E g \in Groups, s \in Seq(Things) : ReportsFor(g, s)
    BY <1>1, <1>6, ResultStep
  <2>2. CASE Quiet
    BY <1>4, <2>2 DEF Quiet
  <2>3. ASSUME NEW g \in Groups, FailsFor(g) PROVE Listed(l)'
    <3>1. receipts' = Append(receipts, Receipt(g, "failed", 0)) /\ lots' = lots
      BY <2>3 DEF FailsFor
    <3>2. <<>> \in Seq(Things)
      OBVIOUS
    <3>3. Receipt(g, "failed", 0) \in Receipts /\ Receipt(g, "failed", 0).status = "failed"
      BY <3>2, ReceiptIs
    <3>4. \A i \in DOMAIN receipts' :
             \/ i \in DOMAIN receipts /\ receipts'[i] = receipts[i]
             \/ receipts'[i].status = "failed"
      BY <3>1, <3>3, OneReceiptMore
    <3>5. StatusOf(GroupOf[l], "complete")
      BY <3>4 DEF StatusOf
    <3> QED BY <1>3, <3>1, <3>5 DEF Listed
  <2>4. ASSUME NEW g \in Groups, NEW s \in Seq(Things), ReportsFor(g, s) PROVE Listed(l)'
    <3> DEFINE P == Groups \X Lots
               new == Pairs(g, Sound(s))
    <3>1. /\ receipts' = Append(receipts, ReceiptFor(g, s)) /\ lots' = lots \o new
          /\ LotsOf(g, s) /\ \A i \in DOMAIN s : s[i] \in Lots
      BY <2>4 DEF ReportsFor, Reported
    <3>2. /\ ReceiptFor(g, s) \in Receipts /\ ReceiptFor(g, s).group = g
          /\ ReceiptFor(g, s).status = "complete" => ~Spoilt(g, s)
      BY ReceiptIs
    <3>3. lots \in Seq(P) /\ new \in Seq(P)
      BY SoundAre, PairsAre DEF WorkInv
    <3>4. /\ \A i \in DOMAIN lots : i \in DOMAIN lots' /\ lots'[i] = lots[i]
          /\ \A j \in DOMAIN new : Len(lots) + j \in DOMAIN lots' /\ lots'[Len(lots) + j] = new[j]
      <4> HIDE DEF P, new
      <4> QED BY <3>1, <3>3, Joined
    <3>5. CASE StatusOf(GroupOf[l], "complete")
      BY <1>3, <3>4, <3>5 DEF Listed
    <3>6. CASE ~StatusOf(GroupOf[l], "complete")
      <4>1. \A i \in DOMAIN receipts' :
               \/ i \in DOMAIN receipts /\ receipts'[i] = receipts[i]
               \/ receipts'[i] = ReceiptFor(g, s)
        BY <3>1, <3>2, OneReceiptMore
      <4>2. GroupOf[l] = g /\ ReceiptFor(g, s).status = "complete"
        BY <3>2, <3>6, <4>1 DEF StatusOf
      <4>3. InSeq(l, Sound(s))
        BY <1>1, <1>2, <3>1, <3>2, <4>2, CompleteHasAll
      <4>4. PICK j \in DOMAIN Sound(s) : Sound(s)[j] = l
        BY <4>3 DEF InSeq
      <4>5. j \in DOMAIN new /\ new[j] = <<g, l>>
        BY <4>4, SoundAre, PairsAre
      <4> QED BY <3>4, <4>2, <4>5 DEF Listed
    <3> QED BY <3>5, <3>6
  <2> QED BY <2>1, <2>2, <2>3, <2>4
<1> QED BY <1>5, <1>6

\* The auction of a lot that stayed on sale is in the result, or its turn is still to come.
Ahead(l) ==
  \/ Found(GroupOf[l]) \/ InSeq(GroupOf[l], queue) \/ target = GroupOf[l]
  \/ phase \in {"price", "failed"} \/ (phase = "list" /\ target = Home)
  \/ phase = "report" /\ adapter = "prado"

\* No step loses an auction between the list of auctions, the queue and the result.
LEMMA NoneStep ==
  SiteInv /\ ShapeInv /\ WorkInv /\ SeenInv /\ NoneForgotten /\ [Next]_vars => NoneForgotten'
<1> SUFFICES ASSUME SiteInv, ShapeInv, WorkInv, SeenInv, NoneForgotten, Watched', flawless',
                    [Next]_vars, NEW l \in always'
             PROVE  Ahead(l)'
  BY DEF NoneForgotten, Ahead
<1>1. /\ Watched /\ (\A m \in Lots : ~Withdraw(m))
      /\ UNCHANGED <<adapter, flaw, counted, closed, always>>
  BY WatchedBefore
<1>2. /\ l \in always /\ l \in Lots /\ GroupOf[l] \in Groups /\ GroupOf[l] # Home
      /\ GroupOf[l] \notin closed /\ Kept(l) /\ Kept(GroupOf[l]) /\ ~Hidden(l)
      /\ adapter # "prado" => InSeq(GroupOf[l], shelf[Home])
  BY <1>1, StaysShown
<1>3. queue \in Seq(Groups) /\ groups \in Seq(Groups) /\ target \in Lists
  BY DEF WorkInv
\* Nothing changes before the first flaw.
<1>4. CASE \E k \in Lots : Publish(k)
  <2>1. UNCHANGED <<adapter, phase, target, queue, groups, flawless>>
    BY <1>4, ChangingIs DEF readVars, resultVars
  <2> QED BY <1>1, <1>2, <2>1 DEF NoneForgotten, Ahead, Found, InSeq
<1>5. CASE ~\E k \in Lots : Publish(k)
  <2>1. \/ Quiet
        \/ \E g \in Groups : FailsFor(g)
        \/ \E g \in Groups, s \in Seq(Things) : ReportsFor(g, s)
    BY <1>1, <1>5, ResultStep
  <2>2. ASSUME adapter = "prado", phase = "list" PROVE flawless
    BY <2>2 DEF ShapeInv
  <2>3. flawless
    BY <2>1, <2>2 DEF Quiet, FailsFor, ReportsFor, Reported
  <2>4. Ahead(l)
    BY <1>1, <1>2, <2>3 DEF NoneForgotten, Ahead
  <2>5. ASSUME UNCHANGED <<adapter, phase, target, queue, groups>> PROVE Ahead(l)'
    BY <2>4, <2>5 DEF Ahead, Found, InSeq
  \* A group that joins the result is found from then on.
  <2>6. ASSUME NEW g \in Groups, groups' = Append(groups, g)
        PROVE  Found(g)' /\ \A h : Found(h) => Found(h)'
    <3>1. \A h : InSeq(h, groups') <=> InSeq(h, groups) \/ h = g
      BY <1>3, <2>6, AppendIs
    <3> QED BY <3>1 DEF InSeq, Found
  <2>7. CASE Fetch
    <3>1. phase = "list" /\ (BreaksOff \/ GoesOn \/ Ends)
      BY <2>7, FetchIs
    <3>2. CASE BreaksOff
      BY <3>2 DEF BreaksOff, Broken, Ahead
    <3>3. CASE GoesOn
      BY <1>1, <2>5, <3>3 DEF GoesOn, resultVars
    <3>4. CASE Ends /\ target = Home
      <4>1. CASE adapter = "remotes"
        BY <3>4, <4>1 DEF Ends, Discovered, Numbered, Ahead
      <4>2. CASE adapter = "prado"
        <5>1. phase' = "report"
          BY <3>4, <4>2 DEF Ends, Discovered
        <5> QED BY <1>1, <4>2, <5>1 DEF Ahead
      <4>3. CASE adapter \notin {"remotes", "prado"}
        <5>1. queue' = WhatIsRead /\ adapter \in Numbered /\ AllSeen
          BY <1>1, <3>4, <4>3 DEF Ends, Discovered, WhatIsRead, Watched
        <5>2. Seen(page - 1, rows)
          BY <1>1, <3>1, <5>1 DEF SeenInv, Seen
        <5>3. InSeq(GroupOf[l], shelf[target])
          BY <1>2, <3>4, <4>3
        <5>4. InSeq(GroupOf[l], WhatIsRead)
          BY <1>2, <5>1, <5>2, <5>3, AllRead
        <5> QED BY <5>1, <5>4 DEF Ahead, InSeq
      <4> QED BY <4>1, <4>2, <4>3
    <3>5. CASE Ends /\ target # Home
      <4>1. target \in Groups /\ adapter \in {"todoremates", "bavastro"}
        BY <1>3, <3>5 DEF Lists, ShapeInv
      <4>2. groups' = Append(groups, target) /\ queue' = queue
        BY <3>5, <4>1 DEF Ends, GroupRead, Reported
      <4>3. Found(GroupOf[l])' \/ InSeq(GroupOf[l], queue)
        BY <2>4, <2>6, <3>1, <3>5, <4>1, <4>2 DEF Ahead
      <4> QED BY <4>2, <4>3 DEF Ahead, InSeq
    <3> QED BY <3>1, <3>2, <3>3, <3>4, <3>5
  <2>8. CASE NextGroup
    <3>1. /\ phase = "next" /\ queue # <<>> /\ queue' = Tail(queue) /\ UNCHANGED resultVars
          /\ \/ Head(queue) \in closed
             \/ target' = Head(queue)
      BY <2>8 DEF NextGroup, Read
    <3>2. Found(GroupOf[l]) \/ InSeq(GroupOf[l], queue)
      BY <1>2, <2>4, <3>1 DEF Ahead, ShapeInv
    <3>3. InSeq(GroupOf[l], queue) => GroupOf[l] = Head(queue) \/ InSeq(GroupOf[l], Tail(queue))
      BY <1>3, <3>1, TailIs
    <3> QED BY <1>2, <3>1, <3>2, <3>3 DEF Ahead, Found, InSeq, resultVars
  <2>9. CASE DetailFails
    BY <2>9 DEF DetailFails
  <2>10. CASE Price
    BY <2>10 DEF Price, Ahead
  <2>11. CASE Priced
    <3>1. queue' = shelf[Home] /\ adapter # "prado"
      BY <2>11 DEF Priced, ShapeInv
    <3> QED BY <1>2, <3>1 DEF Ahead, InSeq
  <2>12. CASE ReportAuction
    <3>1. /\ phase = "report" /\ queue # <<>> /\ queue' = Tail(queue)
          /\ groups' = Append(groups, Head(queue)) /\ phase' = phase
      BY <2>12 DEF ReportAuction, Reported
    <3>2. /\ Head(queue) \in Groups
          /\ InSeq(GroupOf[l], queue) => GroupOf[l] = Head(queue) \/ InSeq(GroupOf[l], Tail(queue))
      BY <1>3, <3>1, TailIs
    <3>3. Found(GroupOf[l]) \/ InSeq(GroupOf[l], queue) \/ adapter = "prado"
      BY <1>2, <2>4, <3>1 DEF Ahead, ShapeInv
    <3>4. Found(GroupOf[l])' \/ InSeq(GroupOf[l], Tail(queue)) \/ adapter = "prado"
      BY <2>6, <3>1, <3>2, <3>3
    <3> QED BY <1>1, <3>1, <3>4 DEF Ahead, InSeq
  <2>13. CASE ReportCategory
    BY <1>1, <2>13 DEF ReportCategory, Ahead
  <2>14. CASE NoGroupLeft
    <3>1. /\ phase \in {"next", "report"} /\ queue = <<>> /\ groups' = groups
          /\ adapter = "prado" => \A i \in DOMAIN rows : ~NewCategory(i)
      BY <2>14 DEF NoGroupLeft, resultVars
    <3>2. Found(GroupOf[l])
      <4>1. CASE adapter # "prado"
        BY <1>2, <2>4, <3>1, <4>1 DEF Ahead, ShapeInv, InSeq
      <4>2. CASE adapter = "prado"
        <5>1. InSeq(l, rows)
          BY <1>1, <1>2, <3>1, <4>2 DEF SeenInv, ShapeInv
        <5>2. l \in KeptLots
          BY <1>1, <1>2 DEF KeptLots, Watched, NoJunk
        <5> QED BY <3>1, <4>2, <5>1, <5>2 DEF InSeq, NewCategory, Found
      <4> QED BY <4>1, <4>2
    <3> QED BY <3>1, <3>2 DEF Ahead, Found
  <2>15. CASE Rests \/ UNCHANGED vars
    BY <2>5, <2>15 DEF Rests, vars, siteVars, readVars, resultVars
  <2> QED BY <1>1, <1>5, <2>7, <2>8, <2>9, <2>10, <2>11, <2>12, <2>13, <2>14, <2>15 DEF Next
<1> QED BY <1>4, <1>5

AuthorityInv == SeenInv /\ CompleteInv /\ NoneForgotten

\* Nothing is read and nothing is claimed yet.
LEMMA AuthorityInit == Init => AuthorityInv
<1> SUFFICES ASSUME Init PROVE AuthorityInv
  OBVIOUS
<1>1. /\ phase = "list" /\ target = Home /\ page = 1 /\ receipts = <<>>
      /\ Shape
  BY SiteInit, ShapeInit, WorkInit DEF Init, Shape
<1>2. shelf[Home] \in Seq(Things)
  BY <1>1, ShelfIs DEF Shape, WorkInv
<1>3. \A i \in DOMAIN shelf[target] : ~(i <= (page - 1) * PageSize)
  <2>1. (page - 1) * PageSize = 0
    BY <1>1, CatalogueAssumption
  <2>2. \A i \in DOMAIN shelf[Home] : i \in Nat /\ ~(i <= 0)
    BY <1>2
  <2> QED BY <1>1, <2>1, <2>2
<1> QED BY <1>1, <1>3 DEF AuthorityInv, SeenInv, CompleteInv, NoneForgotten, StatusOf

\* What the engine removes, once it has accepted a result, was not on sale all through the
\* scan: a lot that was is listed by the complete receipt of its auction, and its auction is
\* named by every scan without errors.  The exceptions are those of the property, and no
\* weaker: what is taken from a list, records that are no objects, the feed of Remotes
\* without a declared number of lots, and a catalogue of Prado that grows beyond its limit.
THEOREM AuthorityTrue == Spec => []AuthorityIsTrue
<1>1. Init => AuthorityInv
  BY AuthorityInit
<1>2. Shape /\ AuthorityInv /\ [Next]_vars => AuthorityInv'
  BY SeenStep, CompleteStep, NoneStep DEF Shape, AuthorityInv
<1>3. Shape /\ AuthorityInv => AuthorityIsTrue
  <2> SUFFICES ASSUME Shape, AuthorityInv, phase = "done", Watched, NEW l \in always,
                      StatusOf(GroupOf[l], "complete") \/ (flawless /\ ~Found(GroupOf[l]))
               PROVE  Listed(l)
    BY DEF AuthorityIsTrue, Watched, NoJunk, TotalIsAbsurd, Claimed
  <2>1. queue = <<>> /\ target = Home /\ GroupOf[l] # Home
    BY StaysShown DEF Shape, ShapeInv
  <2>2. flawless => Found(GroupOf[l])
    BY <2>1 DEF AuthorityInv, NoneForgotten, InSeq
  <2> QED BY <2>2 DEF AuthorityInv, CompleteInv
<1> QED BY <1>1, <1>2, <1>3, ShapeHolds, PTL DEF Spec
=============================================================================
