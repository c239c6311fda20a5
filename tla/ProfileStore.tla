----------------------------- MODULE ProfileStore -----------------------------
(***************************************************************************)
(* Profiles and the decisions taken under them: persistence.repository,    *)
(* the profile handlers of server.profiles, the seed of the protected      *)
(* profile at start-up (main.py) and OperationalRepository.set_user_state. *)
(* A client reads a row, in the page it shows or in the first transaction  *)
(* of a handler, and writes on the strength of what it read in a later     *)
(* transaction.  A transaction that would write over a snapshot of the     *)
(* database that is no longer current fails ("locked"), so each is atomic. *)
(***************************************************************************)
EXTENDS Integers, FiniteSets

CONSTANTS
  Sys,           \* the id of the seeded profile
  UserIds,       \* ids a client may give
  Clients,       \* pages and requests that are open at one time
  Criteria,      \* what a user may search for
  Seeds,         \* the seed versions of the releases installed over time
  NoProfile,
  MaxWrites      \* bound: what clients create, replace, delete and decide

Ids == UserIds \union {Sys}

ASSUME StoreAssumption ==
  /\ Sys \notin UserIds /\ Seeds \subseteq Nat \ {0} /\ MaxWrites \in Nat

States == {"none", "following", "dismissed"}

\* The row of a profile, the criteria and the policy of notifications and schedule
\* one value each.  A seed's criteria and policy are named by its version.
Profile ==
  [kind : {"system", "user"}, seed : Seeds \union {0}, enabled : BOOLEAN,
   criteria : Criteria \union Seeds, mode : {"on", "off"}, revision : Nat \ {0}]

\* A decision on the lot considered: no row, or its state and version.
NoDecision == [state |-> "none", version |-> 0]
Decision == [state : States, version : Nat]

\* A request or an open page: what it is about and what it has read; `born' tells
\* whether the id has been used again since.
Ops == {"edit", "delete", "mode", "pause", "resume", "clone", "decide"}
Request ==
  [op : Ops \union {"idle"}, id : Ids, base : Profile \union {NoProfile},
   seen : Decision, born : Nat]

ASSUME NoProfileAssumption == NoProfile \notin Profile

VARIABLES
  store,     \* profiles: the row of each id, or NoProfile
  decision,  \* user_opportunity_states of the lot considered, for each profile
  req,       \* what each client is about and what it has read
  up,        \* the process runs
  writes,
  births,    \* history: how often each id was created
  asked,     \* history: what its users last asked each profile's enabled to be
  newest     \* history: the newest seed installed

vars == <<store, decision, req, up, writes, births, asked, newest>>

-----------------------------------------------------------------------------
(* A definition that stands before the one it is named after is a seeded fault, *)
(* as in RunWorker.                                                            *)

Exists(p) == store[p] # NoProfile
Idle == [op |-> "idle", id |-> Sys, base |-> NoProfile, seen |-> NoDecision, born |-> 0]

\* The handlers whose two transactions are one request: a restart ends them.  The others
\* are pages of a browser, which stay open.
InServer == {"mode", "pause", "resume", "clone"}

\* ProfileRepository.replace: the revision is the expected one, and a system profile
\* keeps what its seed says unless the seed is newer.
ReplaceableAny(p, new, expected) ==
  /\ Exists(p)
  /\ (store[p].kind = "system") =>
       /\ new.kind = "system" /\ new.seed >= store[p].seed
       /\ new.seed = store[p].seed => new.criteria = store[p].criteria
Replaceable(p, new, expected) ==
  /\ Exists(p) /\ store[p].revision = expected
  /\ (store[p].kind = "system") =>
       /\ new.kind = "system" /\ new.seed >= store[p].seed
       /\ new.seed = store[p].seed => new.criteria = store[p].criteria

Replaced(p, new) == [store EXCEPT ![p] = [new EXCEPT !.revision = store[p].revision + 1]]

Seed(v) == [kind |-> "system", seed |-> v, enabled |-> TRUE, criteria |-> v, mode |-> "on", revision |-> 1]

\* seed_system_profile: create, leave alone, or upgrade without reactivating a pause.
SeededActive(v) ==
  IF ~Exists(Sys) THEN [store EXCEPT ![Sys] = Seed(v)]
  ELSE IF store[Sys].seed >= v THEN store ELSE Replaced(Sys, Seed(v))
SeededAnyVersion(v) ==
  IF ~Exists(Sys) THEN [store EXCEPT ![Sys] = Seed(v)]
  ELSE IF store[Sys].seed = v THEN store
  ELSE Replaced(Sys, [Seed(v) EXCEPT !.enabled = store[Sys].enabled])
Seeded(v) ==
  IF ~Exists(Sys) THEN [store EXCEPT ![Sys] = Seed(v)]
  ELSE IF store[Sys].seed >= v THEN store
  ELSE Replaced(Sys, [Seed(v) EXCEPT !.enabled = store[Sys].enabled])

Init ==
  /\ store = [p \in Ids |-> NoProfile]
  /\ decision = [p \in Ids |-> NoDecision]
  /\ req = [c \in Clients |-> Idle] /\ up = FALSE /\ writes = 0
  /\ births = [p \in Ids |-> 0] /\ asked = [p \in Ids |-> TRUE]
  /\ newest = 0

-----------------------------------------------------------------------------
(* The process *)

Stop ==
  /\ up /\ up' = FALSE
  /\ req' = [c \in Clients |-> IF req[c].op \in InServer THEN Idle ELSE req[c]]
  /\ UNCHANGED <<store, decision, writes, births, asked, newest>>

\* A release with seed v starts and seeds before it serves.
Boot(v) ==
  /\ ~up /\ up' = TRUE
  /\ store' = Seeded(v)
  /\ births' = [births EXCEPT ![Sys] = IF Exists(Sys) THEN @ ELSE 1]
  /\ newest' = IF v > newest THEN v ELSE newest
  /\ UNCHANGED <<decision, req, writes, asked>>

-----------------------------------------------------------------------------
(* Clients *)

Counted == writes < MaxWrites /\ writes' = writes + 1

\* A user profile as a client composes it.
Row(crit, on, m) ==
  [kind |-> "user", seed |-> 0, enabled |-> on, criteria |-> crit, mode |-> m, revision |-> 1]

\* ProfileRepository.create under an id that is free.
Created(p, row) ==
  /\ ~Exists(p) /\ Counted
  /\ store' = [store EXCEPT ![p] = row]
  /\ births' = [births EXCEPT ![p] = @ + 1]
  /\ asked' = [asked EXCEPT ![p] = row.enabled]

\* create_profile takes a complete user profile.
Create(p) ==
  /\ up /\ p \in UserIds
  /\ \E crit \in Criteria, on \in BOOLEAN : Created(p, Row(crit, on, "on"))
  /\ UNCHANGED <<decision, req, up, newest>>

\* A client reads a profile, and the decision under it, and sets about something.
Read(c, op, p) ==
  /\ up /\ req[c] = Idle /\ Exists(p)
  /\ req' = [req EXCEPT ![c] =
       [op |-> op, id |-> p, born |-> births[p],
        base |-> IF op = "decide" THEN NoProfile ELSE store[p],
        seen |-> IF op = "decide" THEN decision[p] ELSE NoDecision]]
  /\ UNCHANGED <<store, decision, up, writes, births, asked, newest>>

Done(c) == req' = [req EXCEPT ![c] = Idle]

\* What a replacement asks for, given what was read: update_profile takes any profile of
\* a user, _set_enabled and set_notification_mode change one field.
Wanted(c) ==
  LET b == req[c].base IN
  CASE req[c].op = "edit" ->
         {Row(crit, on, m) : crit \in Criteria, on \in BOOLEAN, m \in {"on", "off"}}
    [] req[c].op = "pause" -> {[b EXCEPT !.enabled = FALSE]}
    [] req[c].op = "resume" -> {[b EXCEPT !.enabled = TRUE]}
    [] req[c].op = "mode" -> {[b EXCEPT !.mode = IF @ = "on" THEN "off" ELSE "on"]}
    [] OTHER -> {}

Replace(c) ==
  LET p == req[c].id IN
  /\ up /\ Done(c) /\ Counted
  /\ \E new \in Wanted(c) :
       /\ Replaceable(p, new, req[c].base.revision)
       /\ store' = Replaced(p, new)
       /\ asked' = [asked EXCEPT ![p] = IF req[c].op = "mode" THEN @ ELSE new.enabled]
  /\ UNCHANGED <<decision, up, births, newest>>

\* ProfileRepository.delete takes the decisions along; a run under way, which is
\* RunWorker's, may refuse it.
Delete(c) ==
  LET p == req[c].id IN
  /\ up /\ req[c].op = "delete" /\ Done(c) /\ Counted
  /\ Exists(p) /\ store[p].kind # "system" /\ store[p].revision = req[c].base.revision
  /\ store' = [store EXCEPT ![p] = NoProfile]
  /\ decision' = [decision EXCEPT ![p] = NoDecision]
  /\ UNCHANGED <<up, births, asked, newest>>

\* clone: a user profile made of what was read.
Clone(c, p) ==
  /\ up /\ req[c].op = "clone" /\ p \in UserIds /\ Done(c)
  /\ LET b == req[c].base IN Created(p, Row(b.criteria, b.enabled, b.mode))
  /\ UNCHANGED <<decision, up, newest>>

\* set_user_state: a page that shows a decision sends its version, one that shows none
\* sends no version.  The foreign key wants the profile.
AcceptedUnversioned(p, seen) == Exists(p)
Accepted(p, seen) == Exists(p) /\ (seen.version = 0 \/ decision[p].version = seen.version)

Decide(c) ==
  LET p == req[c].id IN
  /\ up /\ req[c].op = "decide" /\ Done(c) /\ Counted
  /\ Accepted(p, req[c].seen)
  /\ \E s \in States : decision' = [decision EXCEPT ![p] = [state |-> s, version |-> @.version + 1]]
  /\ UNCHANGED <<store, up, births, asked, newest>>

\* 403, 404, 409 and 503: the request changes nothing.  A page may also be closed.
Refused(c) ==
  /\ req[c] # Idle /\ Done(c)
  /\ UNCHANGED <<store, decision, up, writes, births, asked, newest>>

Next ==
  \/ Stop \/ \E v \in Seeds : Boot(v)
  \/ \E p \in Ids : Create(p)
  \/ \E c \in Clients :
       \/ \E op \in Ops, p \in Ids : Read(c, op, p)
       \/ Replace(c) \/ Delete(c) \/ (\E p \in Ids : Clone(c, p))
       \/ Decide(c) \/ Refused(c)

Spec == Init /\ [][Next]_vars

-----------------------------------------------------------------------------
(* Properties *)

\* The step writes what client c is about.
Writes(c) == req[c] # Idle /\ req'[c] = Idle /\ <<store, decision>>' # <<store, decision>>

\* The state is well typed, and no decision outlives its profile.
TypeOK ==
  /\ store \in [Ids -> Profile \union {NoProfile}]
  /\ decision \in [Ids -> Decision]
  /\ req \in [Clients -> Request]
  /\ up \in BOOLEAN /\ births \in [Ids -> Nat] /\ writes \in 0..MaxWrites
  /\ asked \in [Ids -> BOOLEAN] /\ newest \in Seeds \union {0}
  /\ \A p \in Ids : ~Exists(p) => decision[p] = NoDecision

\* No update is lost.  A client that writes over a profile or deletes one has read the
\* very row it writes over: no edit, pause, resume or change of mode of another client is
\* overwritten (ProfileRepository.replace and delete).  A client that writes over a decision
\* it was shown has been shown the last one (set_user_state with expected_version).  An id
\* that was deleted and created again since is left out: its revisions begin anew.
NoLostUpdate ==
  [][\A c \in Clients :
       LET p == req[c].id IN
       (Writes(c) /\ req[c].born = births[p]) =>
         /\ req[c].op \in {"edit", "delete", "mode", "pause", "resume"} => req[c].base = store[p]
         /\ req[c].op = "decide" /\ req[c].seen.version > 0 => req[c].seen = decision[p]]_vars

\* A profile is enabled exactly if its users last asked for that: no restart, upgrade,
\* change of mode or concurrent request resumes a paused profile or pauses another
\* (seed_system_profile, _set_enabled).  An id that was reused is left out.
PauseKept == \A p \in Ids : (Exists(p) /\ births[p] = 1) => store[p].enabled = asked[p]

\* The protected profile is there from the first start on and searches for what the
\* newest seed ever installed says, whatever clients and older releases do.
ProtectedKept ==
  newest > 0 =>
    /\ Exists(Sys) /\ store[Sys].kind = "system"
    /\ store[Sys].seed = newest /\ store[Sys].criteria = newest
=============================================================================
