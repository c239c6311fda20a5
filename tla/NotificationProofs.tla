------------------------- MODULE NotificationProofs --------------------------
(***************************************************************************)
(* Proofs about the mails.  About Matching, for all terms, profiles and    *)
(* lots: what has to be there for a match, and what an edit of the profile *)
(* cannot do.  About Announcements, for any number of lots, searches and   *)
(* events: what the mails tell.  About Delivery, for every number of       *)
(* notifications, attempts, crashes and errors: its safety, and that it    *)
(* implements BoundedDelivery.                                             *)
(***************************************************************************)
EXTENDS Announcements, Delivery, TLAPS

-----------------------------------------------------------------------------
(* Matching *)

\* A match was found by a term the profile looks for, in the text of the lot and in a
\* context its rule allows: boosts and a low minimum alone match nothing (match_lot).
THEOREM MatchNeedsTerm ==
  ASSUME NEW p \in Search, NEW lot, Matches(p, lot)
  PROVE  \E t \in DOMAIN MatchOf(p, lot).terms : t \in Positive(p) /\ Found(p, lot, t)
<1>1. PICK t \in p.any \union p.exact \union p.all : Found(p, lot, t)
  BY DEF Matches, Triggered, FoundOf
<1>2. t \in Positive(p) /\ t \in FoundOf(p, lot, Positive(p) \union Boosts(p))
  BY <1>1 DEF Positive, FoundOf
<1> QED BY <1>1, <1>2 DEF MatchOf, Listing

LEMMA SameContext ==
  ASSUME NEW p, NEW q, NEW lot, p.required = q.required, p.excluded = q.excluded
  PROVE  /\ \A t : Found(p, lot, t) = Found(q, lot, t)
         /\ \A S : FoundOf(p, lot, S) = FoundOf(q, lot, S)
<1>1. \A t : Found(p, lot, t) = Found(q, lot, t)
  BY DEF Found
<1> QED BY <1>1 DEF FoundOf

\* What a profile looks for, how it weighs it and how it writes it.
LEMMA SameScore ==
  ASSUME NEW p, NEW q, NEW lot,
         p.required = q.required, p.excluded = q.excluded,
         p.any = q.any, p.all = q.all, p.exact = q.exact, p.boost = q.boost, p.risk = q.risk,
         p.rank = q.rank, p.spelling = q.spelling
  PROVE  Score(p, lot) = Score(q, lot) /\ MatchOf(p, lot) = MatchOf(q, lot)
<1>1. \A S : FoundOf(p, lot, S) = FoundOf(q, lot, S)
  BY SameContext
<1>2. \A S, n : ListScore(p, lot, S, n) = ListScore(q, lot, S, n)
  BY <1>1 DEF ListScore
<1>3. \A w : Weight(p, lot, w) = Weight(q, lot, w)
  BY <1>1 DEF Weight
<1>4. Score(p, lot) = Score(q, lot)
  BY <1>2, <1>3 DEF Score
<1>5. Wording(p) = Wording(q)
  BY DEF Wording
<1> QED BY <1>1, <1>4, <1>5 DEF MatchOf, Positive, Boosts

\* An edit that only excludes more terms, lowers the price that is allowed or refuses what
\* has no price gains no match and changes none it keeps (match_lot, _price_rejection).
THEOREM StricterGainsNothing ==
  ASSUME NEW p \in Search, NEW q \in Search, NEW lot \in Lot,
         p.required = q.required, p.excluded = q.excluded,
         p.any = q.any, p.all = q.all, p.exact = q.exact, p.boost = q.boost, p.risk = q.risk,
         p.rank = q.rank, p.spelling = q.spelling,
         p.categories = q.categories, q.enabled => p.enabled,
         p.exclude \subseteq q.exclude, p.minimum = q.minimum,
         p.maximum = Free \/ (q.maximum # Free /\ q.maximum <= p.maximum
                              /\ (q.unknown = "include" => p.unknown = "include")),
         Matches(q, lot)
  PROVE  Matches(p, lot) /\ MatchOf(p, lot) = MatchOf(q, lot)
<1>1. Score(p, lot) = Score(q, lot) /\ MatchOf(p, lot) = MatchOf(q, lot)
  BY SameScore
<1>2. \A S : FoundOf(p, lot, S) = FoundOf(q, lot, S)
  BY SameContext
<1>3. FoundOf(p, lot, p.exclude) = {}
  BY <1>2 DEF FoundOf, Matches
<1>4. PriceAllowed(p, lot)
  <2>1. PriceAllowed(q, lot)  BY DEF Matches
  <2>2. p.maximum \in Nat \union {Free} /\ q.maximum \in Nat \union {Free}
        /\ lot.price \in Nat \union {Free}
    BY DEF Search, Rules, Lot
  <2> QED BY <2>1, <2>2, TermsAssumption DEF PriceAllowed
<1>5. Score(p, lot) >= p.minimum
  BY <1>1 DEF Matches
<1> QED BY <1>1, <1>2, <1>3, <1>4, <1>5 DEF Matches, Triggered

-----------------------------------------------------------------------------
(* Announcements *)

\* The maps of matches a snapshot may hold, and what a mail may have said of one lot.
MatchMap == [Lots -> Match \union {Gone}]
Sayings == {Told(m) : m \in Match \union {Gone}}

\* Between a run and its plan the recipient knows the snapshot before.
PlanInv == stage = "plan" => \A l \in Lots \ unsaid : picture[l] = Told(previous[l])

\* The terms of a match stand as the profile wrote them at the run it comes from.
WrittenAs(matches, w) ==
  \A l \in Lots : matches[l] # Gone =>
    matches[l].terms = Listing(w, DOMAIN matches[l].terms)
WordInv ==
  /\ WrittenAs(snapshot.matches, wording.last)
  /\ stage = "plan" => WrittenAs(previous, wording.before)
  /\ stage = "idle" => wording.before = wording.last
NewsIInv == NewsTypeOK /\ PictureIsCurrent /\ PlanInv /\ WordInv

LEMMA MatchedIsTyped ==
  ASSUME NewsTypeOK, NEW stored \in [Lots -> Contents \union {Gone}]
  PROVE  Matched(stored) \in MatchMap
<1>1. ASSUME NEW l \in Lots, stored[l] # Gone, Matches(search, stored[l])
      PROVE  MatchOf(search, stored[l]) \in Match
  <2>1. stored[l] \in Contents /\ search \in Searches  BY <1>1 DEF NewsTypeOK
  <2>2. DOMAIN MatchOf(search, stored[l]).terms # {}
    BY <1>1, <2>1, MatchNeedsTerm, AnnouncementsAssumption
  <2> QED BY <2>1, <2>2 DEF Match
<1> QED BY <1>1 DEF Matched, MatchMap

LEMMA MatchedIsWritten ==
  ASSUME NEW stored PROVE WrittenAs(Matched(stored), Wording(search))
<1>1. ASSUME NEW lot
      PROVE  MatchOf(search, lot).terms
               = Listing(Wording(search), DOMAIN MatchOf(search, lot).terms)
  BY DEF MatchOf, Listing
<1> QED BY <1>1 DEF WrittenAs, Matched

\* A lot the mail passes over although its match changed is kept back on purpose.
LEMMA NothingElseChanged ==
  ASSUME NewsTypeOK, NEW l \in Lots, l \notin Mailed(previous), l \notin dismissed,
         ~(snapshot.status = "partial" /\ snapshot.matches[l] = Gone)
  PROVE  snapshot.matches[l] = previous[l]
<1>1. snapshot.matches[l] \in Match \union {Gone} /\ previous[l] \in Match \union {Gone}
      /\ snapshot.status \in {"completed", "partial"}
  BY DEF NewsTypeOK, MatchMap
<1>2. ~NewOrChanged(previous, l) /\ ~Removed(previous, l)
  BY DEF Mailed
<1>3. CASE snapshot.matches[l] = Gone
  BY <1>1, <1>2, <1>3 DEF Removed
<1>4. CASE snapshot.matches[l] # Gone
  <2>1. snapshot.matches[l] \in Match /\ previous[l] \in Match
    BY <1>1, <1>2, <1>4 DEF NewOrChanged
  <2>2. snapshot.matches[l].score = previous[l].score
        /\ snapshot.matches[l].terms = previous[l].terms
    BY <1>2, <1>4 DEF NewOrChanged
  <2>3. ASSUME NEW m \in Match PROVE m = [score |-> m.score, terms |-> m.terms]
    <3>1. PICK p \in Searches, c \in Contents : m = MatchOf(p, c)
      BY DEF Match
    <3> QED BY <3>1 DEF MatchOf
  <2> QED BY <2>1, <2>2, <2>3
<1> QED BY <1>3, <1>4

\* What a mail says of two matches differs in score or terms when the profile wrote its
\* terms alike both times and the mail has room for them.
LEMMA FactsDiffer ==
  ASSUME NewsTypeOK, NEW l \in Mailed(previous), NEW w,
         WrittenAs(snapshot.matches, w), WrittenAs(previous, w),
         ToldWhole(previous[l]), ToldWhole(snapshot.matches[l])
  PROVE  Facts(Told(snapshot.matches[l])) # Facts(Told(previous[l]))
<1> DEFINE new == snapshot.matches[l]
           old == previous[l]
<1>1. Facts(Told(Gone)) = {}
  BY DEF Facts, Told
<1>2. ASSUME NEW m, m # Gone, ToldWhole(m)
      PROVE  Facts(Told(m)) = {[score |-> m.score, terms |-> DOMAIN m.terms]}
  <2>1. {t \in DOMAIN m.terms : m.terms[t].place < MaxTerms} = DOMAIN m.terms
    BY <1>2 DEF ToldWhole
  <2>2. DOMAIN Restrict(m.terms, DOMAIN m.terms) = DOMAIN m.terms
    BY DEF Restrict
  <2>3. Told(m) = {[score |-> m.score, terms |-> Restrict(m.terms, DOMAIN m.terms)]}
    BY <1>2, <2>1 DEF Told
  <2> QED BY <2>2, <2>3 DEF Facts
<1>3. l \in Lots /\ (NewOrChanged(previous, l) \/ Removed(previous, l))
  BY DEF Mailed
<1>4. CASE new = Gone \/ old = Gone
  <2>1. CASE new = Gone
    <3>1. old # Gone  BY <1>3, <2>1 DEF NewOrChanged, Removed
    <3>2. Facts(Told(old)) # {}  BY <1>2, <3>1
    <3> QED BY <1>1, <2>1, <3>2
  <2>2. CASE old = Gone
    <3>1. new # Gone  BY <1>3, <2>2 DEF NewOrChanged, Removed
    <3>2. Facts(Told(new)) # {}  BY <1>2, <3>1
    <3> QED BY <1>1, <2>2, <3>2
  <2> QED BY <1>4, <2>1, <2>2
<1>5. CASE new # Gone /\ old # Gone
  <2> SUFFICES ASSUME Facts(Told(new)) = Facts(Told(old)) PROVE FALSE
    OBVIOUS
  <2>1. {[score |-> new.score, terms |-> DOMAIN new.terms]}
          = {[score |-> old.score, terms |-> DOMAIN old.terms]}
    BY <1>2, <1>5
  <2>2. new.score = old.score /\ DOMAIN new.terms = DOMAIN old.terms
    <3>1. \A s, t, u, v : {[score |-> s, terms |-> u]} = {[score |-> t, terms |-> v]} => s = t /\ u = v
      <4>1. \A s, t, u, v : [score |-> s, terms |-> u] = [score |-> t, terms |-> v] => s = t /\ u = v
        OBVIOUS
      <4> QED BY <4>1, Zenon
    <3> HIDE DEF new, old
    <3> QED BY <2>1, <3>1
  <2>3. new.terms = old.terms
    BY <1>3, <1>5, <2>2 DEF WrittenAs
  <2> QED BY <1>3, <1>5, <2>2, <2>3 DEF NewOrChanged, Removed
<1> QED BY <1>4, <1>5

LEMMA NewsInitIInv == NewsInit => NewsIInv
<1> SUFFICES ASSUME NewsInit PROVE NewsIInv
  OBVIOUS
<1>1. Nothing \in MatchMap /\ Told(Gone) = {} /\ {} \in Sayings
  BY DEF Nothing, MatchMap, Told, Sayings
<1>2. NewsTypeOK
  BY <1>1, AnnouncementsAssumption DEF NewsInit, NewsTypeOK, Nothing, Wordings
<1>3. PictureIsCurrent /\ PlanInv
  BY <1>1 DEF NewsInit, PictureIsCurrent, PlanInv, Nothing
<1>4. WordInv
  BY DEF NewsInit, WordInv, WrittenAs, Nothing
<1> QED BY <1>2, <1>3, <1>4 DEF NewsIInv

LEMMA NewsNextIInv == NewsIInv /\ [NewsNext]_newsVars => NewsIInv'
<1> SUFFICES ASSUME NewsIInv, [NewsNext]_newsVars PROVE NewsIInv'
  OBVIOUS
<1> USE AnnouncementsAssumption DEF NewsIInv
<1>1. ASSUME Event PROVE events' \in 0..MaxEvents
  BY <1>1 DEF Event, NewsTypeOK
<1>2. ASSUME WorkerStays, NewsTypeOK' PROVE NewsIInv'
  BY <1>2 DEF WorkerStays, PictureIsCurrent, PlanInv, WordInv
<1>3. ASSUME NEW l \in Lots, MarketMoves(l) PROVE NewsIInv'
  BY <1>1, <1>2, <1>3 DEF MarketMoves, NewsTypeOK, WorkerStays
<1>4. ASSUME NEW l \in Lots, Closes(l) PROVE NewsIInv'
  BY <1>1, <1>2, <1>4 DEF Closes, NewsTypeOK, WorkerStays
<1>5. ASSUME NEW l \in Lots, Decide(l) PROVE NewsIInv'
  BY <1>1, <1>2, <1>5 DEF Decide, NewsTypeOK, WorkerStays
<1>6. CASE Edit
  BY <1>1, <1>2, <1>6 DEF Edit, NewsTypeOK, WorkerStays
<1>7. CASE SetMode
  BY <1>1, <1>2, <1>7 DEF SetMode, NewsTypeOK, WorkerStays
<1>8. CASE Run
  <2>1. inventory' \in [Lots -> Contents \union {Gone}]
    BY <1>8 DEF Run, NewsTypeOK
  <2>2. Matched(inventory') \in MatchMap
    BY <2>1, MatchedIsTyped
  <2>3. snapshot' \in [status : {"completed", "partial"}, matches : MatchMap]
    BY <1>8, <2>2 DEF Run
  <2>4. previous' \in MatchMap /\ wording' \in [before : Wordings, last : Wordings]
    BY <1>8 DEF Run, NewsTypeOK, MatchMap, Wordings
  <2>5. NewsTypeOK'
    BY <1>8, <2>1, <2>3, <2>4 DEF Run, NewsTypeOK, MatchMap, Sayings, worldVars
  <2>6. PlanInv' /\ PictureIsCurrent'
    BY <1>8 DEF Run, PlanInv, PictureIsCurrent
  <2>7. WordInv'
    <3>1. WrittenAs(snapshot'.matches, wording'.last)
      BY <1>8, MatchedIsWritten DEF Run, NewsTypeOK
    <3>2. previous' = snapshot.matches /\ wording'.before = wording.before
          /\ stage = "idle" /\ stage' = "plan"
      BY <1>8 DEF Run, NewsTypeOK
    <3>3. WrittenAs(previous', wording'.before)
      BY <3>2 DEF WordInv
    <3> QED BY <3>1, <3>2, <3>3 DEF WordInv
  <2> QED BY <2>5, <2>6, <2>7
<1>9. CASE Plan
  <2> DEFINE mail == IF mode = "disabled" THEN {} ELSE Mailed(previous)
             kept == {l \in Lots : /\ snapshot.matches[l] # previous[l]
                                   /\ \/ mode = "disabled" \/ l \in dismissed
                                      \/ snapshot.status = "partial" /\ snapshot.matches[l] = Gone}
  <2>1. PICK shown \in SUBSET Lots :
          /\ Shows(mail, shown)
          /\ picture' = [l \in Lots |-> IF l \in shown THEN Told(snapshot.matches[l])
                                       ELSE picture[l]]
          /\ unsaid' = (unsaid \union kept \union mail) \ shown
    BY <1>9 DEF Plan
  <2>2. /\ stage = "plan" /\ stage' = "idle" /\ previous' = Nothing
        /\ wording' = [wording EXCEPT !.before = wording.last]
        /\ UNCHANGED <<worldVars, inventory, snapshot>>
    BY <1>9 DEF Plan
  <2>3. NewsTypeOK'
    <3>1. picture' \in [Lots -> Sayings]
      BY <2>1 DEF NewsTypeOK, MatchMap, Sayings
    <3>2. previous' \in MatchMap
      BY <2>2 DEF Nothing, MatchMap
    <3>3. unsaid' \subseteq Lots
      BY <2>1 DEF NewsTypeOK, Mailed
    <3>4. wording' \in [before : Wordings, last : Wordings]
      BY <2>2 DEF NewsTypeOK
    <3> QED BY <2>2, <3>1, <3>2, <3>3, <3>4 DEF NewsTypeOK, MatchMap, Sayings, worldVars
  <2>4. ASSUME NEW l \in Lots, l \notin unsaid' PROVE picture'[l] = Told(snapshot'.matches[l])
    <3>1. CASE l \in shown
      BY <2>1, <2>2, <3>1
    <3>2. CASE l \notin shown
      <4>1. picture'[l] = picture[l] /\ l \notin unsaid /\ l \notin kept /\ l \notin mail
            /\ snapshot' = snapshot
        BY <2>1, <2>2, <2>4, <3>2
      <4>2. picture[l] = Told(previous[l])
        BY <2>2, <4>1 DEF PlanInv
      <4>3. snapshot.matches[l] = previous[l]
        BY <4>1, NothingElseChanged
      <4> QED BY <4>1, <4>2, <4>3
    <3> QED BY <3>1, <3>2
  <2>5. PictureIsCurrent' /\ PlanInv'
    BY <2>2, <2>4 DEF PictureIsCurrent, PlanInv
  <2>6. WordInv'
    BY <2>2 DEF WordInv, NewsTypeOK
  <2> QED BY <2>3, <2>5, <2>6
<1>10. CASE UNCHANGED newsVars
  BY <1>10 DEF newsVars, worldVars, NewsTypeOK, PictureIsCurrent, PlanInv, WordInv
<1> QED
  BY <1>3, <1>4, <1>5, <1>6, <1>7, <1>8, <1>9, <1>10 DEF NewsNext

LEMMA NewsInvariance == NewsSpec => []NewsIInv
<1> QED BY NewsInitIInv, NewsNextIInv, PTL DEF NewsSpec

\* The state is well typed, and every match has a term it was found by, for all lots,
\* searches and contents.
THEOREM NewsTypeCorrect == NewsSpec => []NewsTypeOK
<1>1. NewsIInv => NewsTypeOK  BY DEF NewsIInv
<1> QED BY NewsInvariance, <1>1, PTL

\* The mails tell the recipient what a mail can say of the matches of the last snapshot, of
\* every lot of which no change was kept from him on purpose or cut at the limit of a mail
\* (NotificationPlanner.plan, render_matches_notification).
THEOREM PictureStaysCurrent == NewsSpec => []PictureIsCurrent
<1>1. NewsIInv => PictureIsCurrent  BY DEF NewsIInv
<1> QED BY NewsInvariance, <1>1, PTL

\* No mail says a score and terms its recipient knows already, as long as the user leaves
\* the order and the spelling of his terms alone and a mail has room for them.
THEOREM NewsIsNew == NewsSpec => NoNewsTwice
<1>1. ASSUME NewsIInv, [NewsNext]_newsVars,
             stage = "plan", stage' = "idle", mode # "disabled", wording.last = wording.before,
             NEW l \in Mailed(previous) \ (unsaid \union unsaid'),
             ToldWhole(previous[l]), ToldWhole(snapshot.matches[l])
      PROVE  Facts(picture'[l]) # Facts(picture[l])
  <2>1. Plan
    BY <1>1 DEF NewsNext, MarketMoves, Closes, Decide, Edit, SetMode, Run, WorkerStays, newsVars
  <2>2. l \in Lots  BY DEF Mailed
  <2>3. picture'[l] = Told(snapshot.matches[l])  BY <1>1, <2>1, <2>2 DEF Plan
  <2>4. picture[l] = Told(previous[l])  BY <1>1, <2>2 DEF NewsIInv, PlanInv
  <2>5. WrittenAs(snapshot.matches, wording.last) /\ WrittenAs(previous, wording.last)
    BY <1>1 DEF NewsIInv, WordInv
  <2> QED BY <1>1, <2>3, <2>4, <2>5, FactsDiffer DEF NewsIInv
<1>2. NewsIInv /\ [NewsNext]_newsVars =>
        [(stage = "plan" /\ stage' = "idle" /\ mode # "disabled"
            /\ wording.last = wording.before) =>
           \A l \in Mailed(previous) \ (unsaid \union unsaid') :
             (ToldWhole(previous[l]) /\ ToldWhole(snapshot.matches[l])) =>
               Facts(picture'[l]) # Facts(picture[l])]_newsVars
  BY <1>1
<1> QED BY NewsInvariance, <1>2, PTL DEF NewsSpec, NoNewsTwice
-----------------------------------------------------------------------------
(* Delivery *)

LEMMA ItemsAreNat == Items \subseteq Nat \ {NoItem}
  BY DeliveryAssumption DEF Items, NoItem

\* What the worker knows of the row it holds.
HoldInv ==
  pc \in {"send", "sent", "failed"} =>
    /\ status[item] \in {"sending", "deleted"}
    /\ pc = "send" => mails[item] < attempts[item]
    /\ pc = "sent" => mails[item] > 0

\* Without a fault a mailed notification is marked, or about to be.
FaultFreeInv ==
  crashes + errors = 0 =>
    /\ \A n \in Items : mails[n] <= 1
    /\ \A n \in Items : mails[n] > 0 => \/ status[n] \in {"sent", "deleted"}
                                        \/ pc = "sent" /\ item = n
    /\ pc = "send" => mails[item] = 0

IInv == TypeOK /\ HoldInv /\ MailsBounded /\ SentWasMailed /\ OneInFlight /\ FaultFreeInv

LEMMA InitIInv == Init => IInv
<1> SUFFICES ASSUME Init PROVE IInv
  OBVIOUS
<1>1. TypeOK
  BY ItemsAreNat, DeliveryAssumption DEF Init, TypeOK
<1>2. HoldInv /\ MailsBounded /\ SentWasMailed /\ OneInFlight /\ FaultFreeInv
  BY DeliveryAssumption DEF Init, HoldInv, MailsBounded, SentWasMailed, OneInFlight, FaultFreeInv
<1> QED BY <1>1, <1>2 DEF IInv

LEMMA NextTypeOK == TypeOK /\ [Next]_vars => TypeOK'
<1> SUFFICES ASSUME TypeOK, [Next]_vars PROVE TypeOK'
  OBVIOUS
<1> USE ItemsAreNat, DeliveryAssumption DEF vars, rowVars, Rest
<1>1. CASE Claim  BY <1>1 DEF TypeOK, Claim, Claimable
<1>2. CASE Send \/ SendFails  BY <1>2 DEF TypeOK, Send, SendFails
<1>3. CASE SendFailsLate
  <2>1. errors' \in 0..MaxErrors  BY <1>3 DEF TypeOK, SendFailsLate
  <2> QED BY <1>3, <2>1 DEF TypeOK, SendFailsLate
<1>4. CASE MarkSent  BY <1>4 DEF TypeOK, MarkSent, Marked
<1>5. CASE MarkFailed  BY <1>5 DEF TypeOK, MarkFailed
<1>6. CASE MarkMissing  BY <1>6 DEF TypeOK, MarkMissing
<1>7. CASE Boot  BY <1>7 DEF TypeOK, Boot, Recovered
<1>8. CASE Crash
  <2>1. crashes' \in 0..MaxCrashes  BY <1>8 DEF TypeOK, Crash
  <2> QED BY <1>8, <2>1 DEF TypeOK, Crash
<1>9. CASE CallRaises
  <2>1. errors' \in 0..MaxErrors  BY <1>9 DEF TypeOK, CallRaises
  <2> QED BY <1>9, <2>1 DEF TypeOK, CallRaises
<1>10. ASSUME NEW n \in Items, Enqueue(n) PROVE TypeOK'
  BY <1>10 DEF TypeOK, Enqueue
<1>11. ASSUME NEW n \in Items, DelayElapses(n) PROVE TypeOK'
  BY <1>11 DEF TypeOK, DelayElapses
<1>12. ASSUME NEW p \in Profiles, DeleteProfile(p) PROVE TypeOK'
  BY <1>12 DEF TypeOK, DeleteProfile
<1>13. CASE UNCHANGED vars  BY <1>13 DEF TypeOK
<1> QED
  BY <1>1, <1>2, <1>3, <1>4, <1>5, <1>6, <1>7, <1>8, <1>9, <1>10, <1>11, <1>12, <1>13
  DEF Next, Worker, Environment

LEMMA NextIInv == IInv /\ [Next]_vars => IInv'
<1> SUFFICES ASSUME IInv, [Next]_vars PROVE IInv'
  OBVIOUS
<1>0. TypeOK'
  BY NextTypeOK DEF IInv
<1> USE <1>0, ItemsAreNat, DeliveryAssumption DEF IInv, vars, rowVars, Rest
<1>1. CASE Claim
  <2>1. PICK n \in Items :
          /\ status[n] \in {"pending", "failed"} /\ attempts[n] < MaxAttempts
          /\ status' = [status EXCEPT ![n] = "sending"]
          /\ attempts' = [attempts EXCEPT ![n] = @ + 1]
          /\ item' = n /\ pc' = "send" /\ pc = "idle"
          /\ UNCHANGED <<mails, crashes, errors>>
    BY <1>1 DEF Claim, Claimable
  <2>2. HoldInv' /\ MailsBounded'
    BY <2>1 DEF TypeOK, HoldInv, MailsBounded
  <2>3. SentWasMailed' /\ OneInFlight'
    BY <2>1 DEF TypeOK, SentWasMailed, OneInFlight
  <2>4. FaultFreeInv'
    BY <2>1 DEF TypeOK, FaultFreeInv
  <2> QED BY <2>2, <2>3, <2>4
<1>2. CASE Send
  <2>1. HoldInv' /\ MailsBounded'  BY <1>2 DEF TypeOK, HoldInv, MailsBounded, Send
  <2>2. SentWasMailed' /\ OneInFlight'  BY <1>2 DEF TypeOK, SentWasMailed, OneInFlight, Send
  <2>3. FaultFreeInv'  BY <1>2 DEF TypeOK, FaultFreeInv, Send
  <2> QED BY <2>1, <2>2, <2>3
<1>3. CASE SendFails
  BY <1>3 DEF TypeOK, HoldInv, MailsBounded, SentWasMailed, OneInFlight, FaultFreeInv, SendFails
<1>4. CASE SendFailsLate
  <2>1. HoldInv' /\ MailsBounded'  BY <1>4 DEF TypeOK, HoldInv, MailsBounded, SendFailsLate
  <2>2. SentWasMailed' /\ OneInFlight'  BY <1>4 DEF TypeOK, SentWasMailed, OneInFlight, SendFailsLate
  <2>3. FaultFreeInv'  BY <1>4 DEF TypeOK, FaultFreeInv, SendFailsLate
  <2> QED BY <2>1, <2>2, <2>3
<1>5. CASE MarkSent
  <2>1. HoldInv' /\ MailsBounded' /\ SentWasMailed'
    BY <1>5 DEF TypeOK, HoldInv, MailsBounded, SentWasMailed, MarkSent, Marked
  <2>2. OneInFlight' /\ FaultFreeInv'
    BY <1>5 DEF TypeOK, HoldInv, OneInFlight, FaultFreeInv, MarkSent, Marked
  <2> QED BY <2>1, <2>2
<1>6. CASE MarkFailed
  <2>1. HoldInv' /\ MailsBounded' /\ SentWasMailed'
    BY <1>6 DEF TypeOK, HoldInv, MailsBounded, SentWasMailed, MarkFailed
  <2>2. OneInFlight'  BY <1>6 DEF TypeOK, HoldInv, OneInFlight, MarkFailed
  <2>3. FaultFreeInv'
    BY <1>6 DEF TypeOK, HoldInv, FaultFreeInv, MarkFailed
  <2> QED BY <2>1, <2>2, <2>3
<1>7. CASE MarkMissing
  BY <1>7 DEF TypeOK, HoldInv, MailsBounded, SentWasMailed, OneInFlight, FaultFreeInv, MarkMissing
<1>8. CASE Boot
  BY <1>8 DEF TypeOK, HoldInv, MailsBounded, SentWasMailed, OneInFlight, FaultFreeInv, Boot, Recovered
<1>9. CASE Crash \/ CallRaises
  <2>0. crashes \in Nat /\ errors \in Nat  BY DEF TypeOK
  <2>1. crashes' + errors' # 0  BY <1>9, <2>0 DEF Crash, CallRaises
  <2>2. FaultFreeInv'  BY <2>1 DEF FaultFreeInv
  <2>3. pc' \in {"down", "dead"} /\ UNCHANGED <<status, attempts, mails>>
    BY <1>9 DEF Crash, CallRaises
  <2> QED BY <2>2, <2>3 DEF HoldInv, MailsBounded, SentWasMailed, OneInFlight
<1>10. ASSUME NEW n \in Items, Enqueue(n) PROVE IInv'
  BY <1>10 DEF TypeOK, HoldInv, MailsBounded, SentWasMailed, OneInFlight, FaultFreeInv, Enqueue
<1>11. ASSUME NEW n \in Items, DelayElapses(n) PROVE IInv'
  BY <1>11 DEF TypeOK, HoldInv, MailsBounded, SentWasMailed, OneInFlight, FaultFreeInv, DelayElapses
<1>12. ASSUME NEW p \in Profiles, DeleteProfile(p) PROVE IInv'
  BY <1>12 DEF TypeOK, HoldInv, MailsBounded, SentWasMailed, OneInFlight, FaultFreeInv, DeleteProfile
<1>13. CASE UNCHANGED vars
  BY <1>13 DEF HoldInv, MailsBounded, SentWasMailed, OneInFlight, FaultFreeInv
<1> QED
  BY <1>1, <1>2, <1>3, <1>4, <1>5, <1>6, <1>7, <1>8, <1>9, <1>10, <1>11, <1>12, <1>13
  DEF Next, Worker, Environment

LEMMA Invariance == Spec => []IInv
  BY InitIInv, NextIInv, PTL DEF Spec

\* The outbox and its worker never hold a value outside its type.
THEOREM TypeCorrect == Spec => []TypeOK
<1>1. IInv => TypeOK  BY DEF IInv
<1> QED BY <1>1, Invariance, PTL

\* At most max_attempts mails leave for a notification, through every fault.
THEOREM MailsAreBounded == Spec => []MailsBounded
<1>1. IInv => MailsBounded  BY DEF IInv
<1> QED BY <1>1, Invariance, PTL

\* A row that reads sent was mailed.
THEOREM SentIsTrue == Spec => []SentWasMailed
<1>1. IInv => SentWasMailed  BY DEF IInv
<1> QED BY <1>1, Invariance, PTL

\* While the process runs, only the claimed row reads sending.
THEOREM SingleFlight == Spec => []OneInFlight
<1>1. IInv => OneInFlight  BY DEF IInv
<1> QED BY <1>1, Invariance, PTL

\* Nobody is mailed twice about the same run unless a crash, an error or a lost
\* answer hid the first mail.
THEOREM OneMailWithoutFaults == Spec => []SecondMailNeedsFault
<1>1. IInv => SecondMailNeedsFault  BY DEF IInv, FaultFreeInv, SecondMailNeedsFault
<1> QED BY <1>1, Invariance, PTL

-----------------------------------------------------------------------------
(* Refinement                                                                *)

LEMMA InitRefines == Init => Abstract!Init
  BY DEF Init, Abstract!Init, Phase

\* Every step of the outbox is a step of BoundedDelivery, or changes nothing in it.
LEMMA StepRefines == IInv /\ IInv' /\ [Next]_vars => [Abstract!Next]_<<Phase, attempts, mails>>
<1> SUFFICES ASSUME IInv, IInv', [Next]_vars PROVE [Abstract!Next]_<<Phase, attempts, mails>>
  OBVIOUS
<1> USE ItemsAreNat, DeliveryAssumption DEF IInv, vars, rowVars, Rest
<1>1. CASE Claim
  <2>1. PICK n \in Items :
          /\ status[n] \in {"pending", "failed"} /\ attempts[n] < MaxAttempts
          /\ status' = [status EXCEPT ![n] = "sending"]
          /\ attempts' = [attempts EXCEPT ![n] = @ + 1]
          /\ UNCHANGED mails
    BY <1>1 DEF Claim, Claimable
  <2>2. Abstract!Try(n)  BY <2>1 DEF TypeOK, Abstract!Try, Phase
  <2> QED BY <2>2 DEF Abstract!Next
<1>2. CASE Send \/ SendFailsLate
  <2>1. Abstract!Mail(item)
    BY <1>2 DEF TypeOK, HoldInv, Send, SendFailsLate, Abstract!Mail, Phase
  <2> QED BY <1>2, <2>1 DEF TypeOK, Send, SendFailsLate, Abstract!Next
<1>3. CASE SendFails \/ MarkMissing \/ Crash \/ CallRaises \/ UNCHANGED vars
  <2>1. UNCHANGED <<status, attempts, mails>>
    BY <1>3 DEF SendFails, MarkMissing, Crash, CallRaises
  <2> QED BY <2>1 DEF Phase
<1>4. CASE MarkSent
  <2>1. CASE status[item] = "deleted"
    BY <1>4, <2>1 DEF TypeOK, MarkSent, Marked, Phase
  <2>2. CASE status[item] = "sending"
    <3>1. Abstract!Deliver(item)
      BY <1>4, <2>2 DEF TypeOK, HoldInv, MarkSent, Marked, Abstract!Deliver, Phase
    <3> QED BY <1>4, <3>1 DEF TypeOK, MarkSent, Abstract!Next
  <2> QED BY <1>4, <2>1, <2>2 DEF TypeOK, HoldInv, MarkSent
<1>5. CASE MarkFailed
  <2>1. Abstract!Reopen({item})
    BY <1>5 DEF TypeOK, HoldInv, MarkFailed, Abstract!Reopen, Phase
  <2> QED BY <1>5, <2>1 DEF TypeOK, MarkFailed, Abstract!Next
<1>6. CASE Boot
  <2> DEFINE S == {n \in Items : status[n] = "sending"}
  <2>1. Abstract!Reopen(S)
    BY <1>6 DEF TypeOK, Boot, Recovered, Abstract!Reopen, Phase
  <2> QED BY <2>1 DEF Abstract!Next
<1>7. ASSUME NEW n \in Items, Enqueue(n) PROVE Abstract!Next
  <2>1. Abstract!Submit(n)  BY <1>7 DEF TypeOK, Enqueue, Abstract!Submit, Phase
  <2> QED BY <2>1 DEF Abstract!Next
<1>8. ASSUME NEW n \in Items, DelayElapses(n) PROVE UNCHANGED <<Phase, attempts, mails>>
  BY <1>8 DEF DelayElapses, Phase
<1>9. ASSUME NEW p \in Profiles, DeleteProfile(p) PROVE Abstract!Next
  <2> DEFINE S == {n \in Items : OwnerOf[n] = p /\ status[n] # "none"}
  <2>1. Abstract!Withdraw(S)
    BY <1>9 DEF TypeOK, DeleteProfile, Abstract!Withdraw, Phase
  <2> QED BY <2>1 DEF Abstract!Next
<1> QED
  BY <1>1, <1>2, <1>3, <1>4, <1>5, <1>6, <1>7, <1>8, <1>9 DEF Next, Worker, Environment

\* The outbox and its worker implement BoundedDelivery.
THEOREM Refinement == Spec => ImplementsBoundedDelivery
<1>1. IInv /\ IInv' /\ [Next]_vars => [Abstract!Next]_<<Phase, attempts, mails>>
  BY StepRefines
<1> QED
  BY <1>1, InitRefines, Invariance, PTL DEF Spec, ImplementsBoundedDelivery, Abstract!Spec
=============================================================================
