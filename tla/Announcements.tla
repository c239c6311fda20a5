---------------------------- MODULE Announcements ----------------------------
(***************************************************************************)
(* What a profile's recipient comes to know, over many runs: the market    *)
(* moves, runs see all of it, part of it or nothing (AuctionRunEngine),    *)
(* match the inventory against the profile (Matching), publish a snapshot, *)
(* and NotificationPlanner.plan mails what differs from the snapshot       *)
(* before; rendering.render_matches_notification shows only the first of   *)
(* those lots, and of each only the first of its terms.  The user edits    *)
(* the profile, mutes it and dismisses lots at any time.  That every plan  *)
(* is carried out and every mail arrives is not certain: that is           *)
(* RunWorker's and Delivery's matter, here both do.                        *)
(***************************************************************************)
EXTENDS Matching

CONSTANTS
  Lots,       \* opportunity keys
  Contents,   \* what a lot may say and cost
  Searches,   \* the criteria the user moves between
  Gone,       \* not published, not matched
  MaxLots,    \* rendering.MAX_RENDERED_LOTS
  MaxTerms,   \* the terms LotView.reason shows
  MaxEvents   \* bound: events of the market and the user

ASSUME AnnouncementsAssumption ==
  /\ IsFiniteSet(Lots) /\ Contents \subseteq Lot /\ Searches \subseteq Search
  /\ Searches # {} /\ Gone \notin Lot /\ MaxEvents \in Nat
  /\ MaxLots \in Nat \ {0} /\ MaxTerms \in Nat

VARIABLES
  market,     \* what each lot says on its site
  closed,     \* lots whose closing_at is past
  inventory,  \* the lots stored as active, as last seen
  search,     \* the profile
  mode,       \* its notification_mode: "disabled" or "matches"
  dismissed,  \* the lots whose user state is dismissed
  snapshot,   \* the last published snapshot: [status, matches]
  previous,   \* the matches of the snapshot before the run, until its plan
  stage,      \* the worker: "idle", or "plan" between a run and its plan
  picture,    \* what the mails so far say of each lot, see Told
  unsaid,     \* history: lots of which a change was kept from the recipient or cut from a mail
  wording,    \* history: the order and spelling of the profile's terms at the last run
              \* (`last') and at the run of the last plan (`before')
  events

worldVars == <<market, closed, search, mode, dismissed, events>>
newsVars == <<worldVars, inventory, snapshot, previous, stage, picture, unsaid, wording>>

Nothing == [l \in Lots |-> Gone]

-----------------------------------------------------------------------------
(* A definition that stands before the one it is named after is a seeded fault, *)
(* as in RunWorker.                                                            *)

\* The matches of the inventory: a closed lot never reaches the matcher.
Matched(stored) ==
  [l \in Lots |-> IF stored[l] # Gone /\ l \notin closed /\ Matches(search, stored[l])
                  THEN MatchOf(search, stored[l]) ELSE Gone]

\* plan: the lots a mail speaks of, given the matches before.
NewOrChanged(old, l) ==
  snapshot.matches[l] # Gone
    /\ (old[l] = Gone \/ snapshot.matches[l].score # old[l].score
          \/ snapshot.matches[l].terms # old[l].terms)
Removed(old, l) ==
  snapshot.status = "completed" /\ snapshot.matches[l] = Gone /\ old[l] # Gone

MailedAgain(old) ==
  {l \in Lots : snapshot.matches[l] # Gone \/ Removed(old, l)} \ dismissed
MailedWithoutRemoved(old) == {l \in Lots : NewOrChanged(old, l)} \ dismissed
Mailed(old) == {l \in Lots : NewOrChanged(old, l) \/ Removed(old, l)} \ dismissed

\* The lots a mail shows: as many as it may, lots that left the search after all others;
\* within these the closing times and the titles decide.  The rest it only counts.
Shows(mail, shown) ==
  /\ shown \subseteq mail
  /\ IF Cardinality(mail) <= MaxLots THEN shown = mail ELSE Cardinality(shown) = MaxLots
  /\ \A l \in shown, k \in mail \ shown :
       snapshot.matches[l] = Gone => snapshot.matches[k] = Gone

\* What a mail says of a lot it shows: its score and the first of its terms, or that it
\* is there no more.
Told(match) ==
  IF match = Gone THEN {}
  ELSE {[score |-> match.score,
         terms |-> Restrict(match.terms,
                     {t \in DOMAIN match.terms : match.terms[t].place < MaxTerms})]}

NewsInit ==
  /\ market \in [Lots -> Contents] /\ closed = {}
  /\ inventory = Nothing /\ search \in Searches /\ mode = "matches" /\ dismissed = {}
  /\ snapshot = [status |-> "completed", matches |-> Nothing] /\ previous = Nothing
  /\ stage = "idle" /\ picture = [l \in Lots |-> {}] /\ unsaid = {} /\ events = 0
  /\ wording = [before |-> Wording(search), last |-> Wording(search)]

-----------------------------------------------------------------------------
(* The world *)

Event == events < MaxEvents /\ events' = events + 1
WorkerStays == UNCHANGED <<inventory, snapshot, previous, stage, picture, unsaid, wording>>

MarketMoves(l) ==
  /\ Event /\ \E now \in (Contents \union {Gone}) \ {market[l]} : market' = [market EXCEPT ![l] = now]
  /\ UNCHANGED <<closed, search, mode, dismissed>> /\ WorkerStays

Closes(l) ==
  /\ Event /\ l \notin closed /\ closed' = closed \union {l}
  /\ UNCHANGED <<market, search, mode, dismissed>> /\ WorkerStays

\* update_profile.
Edit ==
  /\ Event /\ \E s \in Searches \ {search} : search' = s
  /\ UNCHANGED <<market, closed, mode, dismissed>> /\ WorkerStays

\* set_notification_mode.
SetMode ==
  /\ Event /\ mode' \in {"disabled", "matches"} \ {mode}
  /\ UNCHANGED <<market, closed, search, dismissed>> /\ WorkerStays

\* set_opportunity_state: dismissed, and restored.
Decide(l) ==
  /\ Event /\ dismissed' = IF l \in dismissed THEN dismissed \ {l} ELSE dismissed \union {l}
  /\ UNCHANGED <<market, closed, search, mode>> /\ WorkerStays

-----------------------------------------------------------------------------
(* The worker *)

\* The run sees every lot or, if it is partial, some: what it sees is stored, what is
\* gone there is removed.  previous_snapshot is read before it.
Run ==
  /\ stage = "idle" /\ stage' = "plan"
  /\ \E status \in {"completed", "partial"}, seen \in SUBSET Lots :
       /\ status = "completed" => seen = Lots
       /\ inventory' = [l \in Lots |-> IF l \in seen THEN market[l] ELSE inventory[l]]
       /\ snapshot' = [status |-> status, matches |-> Matched(inventory')]
  /\ previous' = snapshot.matches
  /\ wording' = [wording EXCEPT !.last = Wording(search)]
  /\ UNCHANGED <<worldVars, picture, unsaid>>

\* plan: the mail brings the recipient up to date on the lots it shows.  Kept from him
\* are changes while the profile is muted or the lot dismissed, and, by design, the lots
\* that leave in a partial run.  The next plan compares with the newer snapshot.
Plan ==
  LET mail == IF mode = "disabled" THEN {} ELSE Mailed(previous)
      kept == {l \in Lots : /\ snapshot.matches[l] # previous[l]
                            /\ \/ mode = "disabled" \/ l \in dismissed
                               \/ snapshot.status = "partial" /\ snapshot.matches[l] = Gone}
  IN  /\ stage = "plan" /\ stage' = "idle"
      /\ \E shown \in SUBSET Lots :
           /\ Shows(mail, shown)
           /\ picture' = [l \in Lots |-> IF l \in shown THEN Told(snapshot.matches[l])
                                        ELSE picture[l]]
           /\ unsaid' = (unsaid \union kept \union mail) \ shown
      /\ previous' = Nothing /\ wording' = [wording EXCEPT !.before = wording.last]
      /\ UNCHANGED <<worldVars, inventory, snapshot>>

NewsNext ==
  \/ \E l \in Lots : MarketMoves(l) \/ Closes(l) \/ Decide(l)
  \/ Edit \/ SetMode \/ Run \/ Plan

NewsSpec == NewsInit /\ [][NewsNext]_newsVars

-----------------------------------------------------------------------------
(* Properties *)

\* What some search says of some lot, never without a term it was found by.
Match ==
  {m \in {MatchOf(p, c) : p \in Searches, c \in Contents} : DOMAIN m.terms # {}}
Wordings == {Wording(p) : p \in Searches}

\* The state is well typed, and every match is what one of the searches says of what its
\* lot says, with a term it was found by, however much its boosts weigh.
NewsTypeOK ==
  LET said == Match \union {Gone}
      matches == [Lots -> said]
  IN  /\ market \in [Lots -> Contents \union {Gone}]
      /\ inventory \in [Lots -> Contents \union {Gone}]
      /\ closed \subseteq Lots /\ dismissed \subseteq Lots /\ unsaid \subseteq Lots
      /\ search \in Searches /\ mode \in {"disabled", "matches"} /\ stage \in {"idle", "plan"}
      /\ snapshot \in [status : {"completed", "partial"}, matches : matches]
      /\ previous \in matches
      /\ picture \in [Lots -> {Told(m) : m \in said}]
      /\ wording \in [before : Wordings, last : Wordings]
      /\ events \in 0..MaxEvents

\* After every run the mails together tell the recipient of every lot what a mail can say
\* of its match in the last snapshot, its score and the first of its terms, or that it is
\* none: a change is not lost between two snapshots, whatever partial runs, edits, mutings
\* and dismissals come between (NotificationPlanner.plan).  Excepted are the lots of which
\* a change was kept from him on purpose, or fell to the limit of a mail: those are never
\* told later, until they change again (rendering.py:22).
PictureIsCurrent ==
  stage = "idle" => \A l \in Lots \ unsaid : picture[l] = Told(snapshot.matches[l])

\* The score and the terms, whatever their order and spelling.
Facts(told) == {[score |-> m.score, terms |-> DOMAIN m.terms] : m \in told}
ToldWhole(match) == match # Gone => \A t \in DOMAIN match.terms : match.terms[t].place < MaxTerms

\* A mail says of no lot a score and terms that the recipient already knows of it (the
\* comparison with the previous snapshot in plan; docs/PERSISTENCE.md:75-77), unless
\* something of it was kept from him or cut before, or it has more terms than a mail shows,
\* or the user gave his terms another order or spelling between the two runs: that alone
\* is a change to plan, which compares the lists (service.py:84-86).
NoNewsTwice ==
  [][(stage = "plan" /\ stage' = "idle" /\ mode # "disabled" /\ wording.last = wording.before) =>
       \A l \in Mailed(previous) \ (unsaid \union unsaid') :
         (ToldWhole(previous[l]) /\ ToldWhole(snapshot.matches[l])) =>
           Facts(picture'[l]) # Facts(picture[l])]_newsVars
=============================================================================
