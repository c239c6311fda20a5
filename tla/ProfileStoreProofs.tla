-------------------------- MODULE ProfileStoreProofs --------------------------
(***************************************************************************)
(* Proofs about ProfileStore, for any number of clients, ids, releases and *)
(* writes.                                                                 *)
(***************************************************************************)
EXTENDS ProfileStore, TLAPS

\* A request that is under way has read a row that was there.
Changes == {"edit", "delete", "mode", "pause", "resume", "clone"}
ReqInv ==
  \A c \in Clients :
    /\ req[c].op \in Changes => req[c].base \in Profile
    /\ req[c].op \in Changes /\ req[c].id \in UserIds => req[c].base.kind = "user"
    /\ req[c].op # "idle" => req[c].born \in 1..births[req[c].id]

\* The seeded profile is the only system profile, and there since the first start.
BirthInv ==
  /\ \A p \in UserIds : Exists(p) => store[p].kind = "user"
  /\ \A p \in Ids : Exists(p) => births[p] > 0
  /\ births[Sys] > 0 <=> newest > 0
  /\ births[Sys] <= 1
  /\ \A p \in Ids : births[p] = 0 => asked[p]

\* What a client read has since been replaced, and its revision is past, or still stands.
FreshInv ==
  \A c \in Clients :
    (req[c].op # "idle" /\ req[c].born = births[req[c].id] /\ Exists(req[c].id)) =>
      /\ req[c].op \in Changes =>
           store[req[c].id] = req[c].base \/ store[req[c].id].revision > req[c].base.revision
      /\ req[c].op = "decide" =>
           decision[req[c].id] = req[c].seen \/ decision[req[c].id].version > req[c].seen.version

IInv == TypeOK /\ ReqInv /\ BirthInv /\ FreshInv /\ PauseKept /\ ProtectedKept

LEMMA InitIInv == Init => IInv
<1> SUFFICES ASSUME Init PROVE IInv
  OBVIOUS
<1> USE StoreAssumption DEF Init, Exists
<1>1. TypeOK
  <2>1. NoDecision \in Decision  BY DEF NoDecision, Decision, States
  <2>2. Idle \in Request  BY <2>1 DEF Idle, Request, Ids, Ops
  <2>3. store \in [Ids -> Profile \union {NoProfile}] /\ decision \in [Ids -> Decision]
        /\ req \in [Clients -> Request]
    BY <2>1, <2>2
  <2>4. births \in [Ids -> Nat] /\ asked \in [Ids -> BOOLEAN]
    OBVIOUS
  <2>5. up \in BOOLEAN /\ newest \in Seeds \union {0}
    OBVIOUS
  <2>6. writes \in 0..MaxWrites
    OBVIOUS
  <2>7. \A p \in Ids : ~Exists(p) => decision[p] = NoDecision
    OBVIOUS
  <2> QED BY <2>3, <2>4, <2>5, <2>6, <2>7 DEF TypeOK
<1>2. ReqInv  BY DEF ReqInv, Changes, Idle
<1>3. BirthInv  BY DEF BirthInv, Ids
<1>4. FreshInv  BY DEF FreshInv, Idle
<1>5. PauseKept /\ ProtectedKept  BY DEF PauseKept, ProtectedKept
<1> QED BY <1>1, <1>2, <1>3, <1>4, <1>5 DEF IInv

-----------------------------------------------------------------------------
(* Writes to one row                                                         *)

\* replace takes the row the client read, if its id was not reused since.
LEMMA ReplacesWhatWasRead ==
  ASSUME IInv, NEW c \in Clients, NEW new, NEW p, p = req[c].id,
         req[c].op \in Changes, Replaceable(p, new, req[c].base.revision),
         req[c].born = births[p]
  PROVE  store[p] = req[c].base
<1>1. store[p].revision = req[c].base.revision /\ Exists(p)
  BY DEF Replaceable
<1>2. req[c].base \in Profile /\ req[c].op # "idle"
  BY DEF IInv, ReqInv, Changes
<1>3. store[p] = req[c].base \/ store[p].revision > req[c].base.revision
  BY <1>1, <1>2 DEF IInv, FreshInv
<1>4. req[c].base.revision \in Nat
  BY <1>2 DEF Profile
<1> QED BY <1>1, <1>3, <1>4

\* No row is lost or doubled by a restart.
LEMMA SeededInv == ASSUME IInv, NEW v \in Seeds, Boot(v) PROVE IInv'
<1> USE StoreAssumption, NoProfileAssumption DEF IInv
<1>0. Sys \in Ids /\ v \in Nat /\ v > 0 /\ v = Seed(v).seed /\ Seed(v) \in Profile
  BY DEF Ids, Seed, Profile
<1>1. CASE ~Exists(Sys)
  <2>1. newest = 0 /\ births[Sys] = 0
    <3>1. newest \in Nat /\ births[Sys] \in Nat  BY <1>0 DEF TypeOK
    <3>2. newest = 0  BY <1>1, <3>1 DEF ProtectedKept
    <3> QED BY <3>1, <3>2 DEF BirthInv
  <2>2. store' = [store EXCEPT ![Sys] = Seed(v)] /\ births' = [births EXCEPT ![Sys] = 1]
        /\ newest' = v /\ UNCHANGED <<decision, req, writes, asked>> /\ up' = TRUE
    BY <1>0, <1>1, <2>1 DEF Boot, Seeded, Exists
  <2>3. TypeOK'
    BY <1>0, <2>2 DEF TypeOK, Exists
  <2>4. \A c \in Clients : req[c].op # "idle" => req[c].id # Sys
    BY <1>0, <2>1 DEF ReqInv, TypeOK
  <2>5. ReqInv'  BY <1>0, <2>2, <2>4 DEF ReqInv, TypeOK, Request
  <2>6. BirthInv'
    BY <1>0, <2>1, <2>2 DEF BirthInv, TypeOK, Exists, Ids
  <2>7. FreshInv'
    BY <1>0, <2>2, <2>4 DEF FreshInv, TypeOK, Exists, Request
  <2>8. PauseKept'
    BY <1>0, <2>1, <2>2 DEF PauseKept, BirthInv, TypeOK, Exists, Seed
  <2>9. ProtectedKept'
    BY <1>0, <2>2 DEF ProtectedKept, TypeOK, Exists, Seed
  <2> QED BY <2>3, <2>5, <2>6, <2>7, <2>8, <2>9
<1>2. CASE Exists(Sys) /\ store[Sys].seed >= v
  <2>1. newest > 0  BY <1>0, <1>2 DEF BirthInv
  <2>2. newest = store[Sys].seed  BY <2>1 DEF ProtectedKept
  <2>3. newest' = newest /\ store' = store /\ births' = births
        /\ UNCHANGED <<decision, req, writes, asked>> /\ up' = TRUE
    BY <1>0, <1>2, <2>2 DEF Boot, Seeded, TypeOK
  <2> QED
    BY <2>3 DEF TypeOK, ReqInv, BirthInv, FreshInv, PauseKept, ProtectedKept, Exists
<1>3. CASE Exists(Sys) /\ ~(store[Sys].seed >= v)
  <2>1. store[Sys] \in Profile  BY <1>0, <1>3 DEF TypeOK, Exists
  <2>2. newest = store[Sys].seed /\ newest > 0 /\ store[Sys].seed \in Nat
        /\ store[Sys].revision \in Nat /\ store[Sys].enabled \in BOOLEAN
    <3>1. newest > 0  BY <1>0, <1>3 DEF BirthInv
    <3>2. store[Sys].seed \in Seeds \union {0}  BY <2>1 DEF Profile
    <3>3. store[Sys].revision \in Nat  BY <2>1 DEF Profile
    <3>4. store[Sys].enabled \in BOOLEAN  BY <2>1 DEF Profile
    <3>5. store[Sys].seed \in Nat
      <4>1. \A s \in Seeds \union {0} : s \in Nat  OBVIOUS
      <4> QED BY <3>2, <4>1
    <3>6. newest = store[Sys].seed  BY <3>1 DEF ProtectedKept
    <3> QED BY <3>1, <3>3, <3>4, <3>5, <3>6
  <2> DEFINE new ==
        [kind |-> "system", seed |-> v, enabled |-> store[Sys].enabled, criteria |-> v,
         mode |-> "on", revision |-> store[Sys].revision + 1]
  <2>3. new \in Profile /\ new.kind = "system" /\ new.seed = v /\ new.criteria = v
        /\ new.enabled = store[Sys].enabled /\ new.revision = store[Sys].revision + 1
    BY <1>0, <2>2 DEF Seed, Profile
  <2>4. store' = [store EXCEPT ![Sys] = new] /\ births' = births /\ newest' = v
        /\ UNCHANGED <<decision, req, writes, asked>> /\ up' = TRUE
    <3> DEFINE kept == [kind |-> "system", seed |-> v, enabled |-> store[Sys].enabled,
                        criteria |-> v, mode |-> "on", revision |-> 1]
    <3>1. [Seed(v) EXCEPT !.enabled = store[Sys].enabled] = kept  BY DEF Seed
    <3>2. [kept EXCEPT !.revision = store[Sys].revision + 1] = new  OBVIOUS
    <3>3. Replaced(Sys, [Seed(v) EXCEPT !.enabled = store[Sys].enabled])
            = [store EXCEPT ![Sys] = new]
      BY <3>1, <3>2 DEF Replaced
    <3>4. store' = [store EXCEPT ![Sys] = new]
      BY <1>3, <3>3 DEF Boot, Seeded
    <3>5. births' = births
      <4>1. births' = [births EXCEPT ![Sys] = births[Sys]]
        BY <1>3 DEF Boot
      <4> QED BY <4>1 DEF TypeOK
    <3>6. newest' = v  BY <1>0, <1>3, <2>2 DEF Boot
    <3> QED BY <3>4, <3>5, <3>6 DEF Boot
  <2> HIDE DEF new
  <2>5. TypeOK'  BY <1>0, <1>3, <2>3, <2>4 DEF TypeOK, Exists
  <2>6. ReqInv' /\ BirthInv'
    BY <1>0, <1>3, <2>2, <2>3, <2>4 DEF ReqInv, BirthInv, TypeOK, Exists, Ids
  <2>7. ASSUME NEW c \in Clients, req[c].op # "idle", req[c].born = births[req[c].id],
               req[c].id = Sys, req[c].op \in Changes
        PROVE  new.revision > req[c].base.revision
    <3>1. req[c].base \in Profile  BY <2>7 DEF ReqInv
    <3>2. store[Sys] = req[c].base \/ store[Sys].revision > req[c].base.revision
      BY <1>3, <2>7 DEF FreshInv
    <3> QED BY <2>1, <2>3, <3>1, <3>2 DEF Profile
  <2>8. FreshInv'
    BY <1>0, <1>3, <2>4, <2>7 DEF FreshInv, TypeOK, Exists, Request
  <2>9. PauseKept' /\ ProtectedKept'
    BY <1>0, <1>3, <2>3, <2>4 DEF PauseKept, ProtectedKept, TypeOK, Exists
  <2> QED BY <2>5, <2>6, <2>8, <2>9
<1> QED BY <1>1, <1>2, <1>3

-----------------------------------------------------------------------------
(* Requests that end                                                         *)

\* Some requests end and no other is touched.
Fewer ==
  /\ req' \in [Clients -> Request]
  /\ \A c \in Clients : req'[c] = req[c] \/ req'[c] = Idle

LEMMA IdleIsRequest == Idle \in Request
<1>1. NoDecision \in Decision  BY DEF NoDecision, Decision, States
<1> QED BY <1>1 DEF Idle, Request, Ids, Ops

LEMMA DoneIsFewer == ASSUME TypeOK, NEW c \in Clients, Done(c) PROVE Fewer
BY IdleIsRequest DEF TypeOK, Done, Fewer

LEMMA StopIsFewer == ASSUME TypeOK, Stop PROVE Fewer
BY IdleIsRequest DEF TypeOK, Stop, Fewer

\* What is known of a request survives as long as the history of births only grows.
LEMMA FewerReqInv ==
  ASSUME IInv, Fewer, \A p \in Ids : births'[p] \in Nat /\ births'[p] >= births[p]
  PROVE  ReqInv'
<1> SUFFICES ASSUME NEW c \in Clients
             PROVE  /\ req'[c].op \in Changes => req'[c].base \in Profile
                    /\ req'[c].op \in Changes /\ req'[c].id \in UserIds => req'[c].base.kind = "user"
                    /\ req'[c].op # "idle" => req'[c].born \in 1..births'[req'[c].id]
  BY DEF ReqInv
<1>1. CASE req'[c] = Idle  BY <1>1 DEF Idle, Changes
<1>2. CASE req'[c] = req[c]
  <2>1. req[c] \in Request  BY DEF IInv, TypeOK
  <2>2. req[c].id \in Ids  BY <2>1 DEF Request
  <2>3. births[req[c].id] \in Nat  BY <2>2 DEF IInv, TypeOK
  <2> QED BY <1>2, <2>2, <2>3 DEF IInv, ReqInv
<1> QED BY <1>1, <1>2 DEF Fewer

\* A request that ends without a write, a restart or a page that is closed.
LEMMA EndInv ==
  ASSUME IInv, Fewer, UNCHANGED <<store, decision, writes, births, asked, newest>>,
         up' \in BOOLEAN
  PROVE  IInv'
<1> USE DEF IInv
<1>1. TypeOK'  BY DEF TypeOK, Fewer, Exists
<1>2. ReqInv'
  <2>1. \A p \in Ids : births'[p] \in Nat /\ births'[p] >= births[p]  BY DEF TypeOK
  <2> QED BY <2>1, FewerReqInv
<1>3. FreshInv'
  <2>1. Idle.op = "idle"  BY DEF Idle
  <2> QED BY <2>1 DEF FreshInv, Fewer, Exists
<1>4. BirthInv' /\ PauseKept' /\ ProtectedKept'
  BY DEF BirthInv, PauseKept, ProtectedKept, Exists
<1> QED BY <1>1, <1>2, <1>3, <1>4

-----------------------------------------------------------------------------
(* Each action of a client                                                   *)

LEMMA ReadInv ==
  ASSUME IInv, NEW c \in Clients, NEW op \in Ops, NEW p \in Ids, Read(c, op, p)
  PROVE  IInv'
<1> USE DEF IInv
<1> DEFINE r == [op |-> op, id |-> p, born |-> births[p],
                 base |-> IF op = "decide" THEN NoProfile ELSE store[p],
                 seen |-> IF op = "decide" THEN decision[p] ELSE NoDecision]
<1>1. req' = [req EXCEPT ![c] = r] /\ Exists(p)
      /\ UNCHANGED <<store, decision, up, writes, births, asked, newest>>
  BY DEF Read
<1>2. store[p] \in Profile /\ births[p] \in Nat /\ births[p] > 0 /\ decision[p] \in Decision
  BY <1>1 DEF TypeOK, BirthInv, Exists
<1>3. r.op = op /\ r.id = p /\ r.born = births[p]
      /\ (op # "decide" => r.base = store[p]) /\ (op = "decide" => r.seen = decision[p])
  OBVIOUS
<1>4. r \in Request
  <2>1. NoDecision \in Decision  BY DEF NoDecision, Decision, States
  <2> QED BY <1>2, <2>1 DEF Request
<1>5. op \in Changes <=> op # "decide"  BY DEF Ops, Changes
<1> HIDE DEF r
<1>6. req'[c] = r /\ \A d \in Clients : d # c => req'[d] = req[d]
  BY <1>1 DEF TypeOK
<1>7. TypeOK'  BY <1>1, <1>4 DEF TypeOK, Exists
<1>8. ReqInv'
  <2>1. p \in UserIds => store[p].kind = "user"  BY <1>1 DEF BirthInv
  <2> QED BY <1>1, <1>2, <1>3, <1>5, <1>6, <2>1 DEF ReqInv
<1>9. FreshInv'
  <2> SUFFICES ASSUME NEW d \in Clients, req'[d].op # "idle",
                      req'[d].born = births[req'[d].id], store[req'[d].id] # NoProfile
               PROVE  /\ req'[d].op \in Changes =>
                           store[req'[d].id] = req'[d].base
                           \/ store[req'[d].id].revision > req'[d].base.revision
                      /\ req'[d].op = "decide" =>
                           decision[req'[d].id] = req'[d].seen
                           \/ decision[req'[d].id].version > req'[d].seen.version
    BY <1>1 DEF FreshInv, Exists
  <2>1. CASE d = c
    <3>1. req'[d] = r  BY <1>6, <2>1
    <3>2. CASE op = "decide"
      <4>1. req'[d].id = p /\ req'[d].seen = decision[p] /\ req'[d].op = "decide"
        BY <1>3, <3>1, <3>2
      <4> QED BY <4>1 DEF Changes
    <3>3. CASE op # "decide"
      <4>1. req'[d].id = p /\ req'[d].base = store[p] /\ req'[d].op # "decide"
        BY <1>3, <3>1, <3>3
      <4> QED BY <4>1
    <3> QED BY <3>2, <3>3
  <2>2. CASE d # c
    <3>1. req'[d] = req[d]  BY <1>6, <2>2
    <3> QED BY <3>1 DEF FreshInv, Exists
  <2> QED BY <2>1, <2>2
<1>10. BirthInv' /\ PauseKept' /\ ProtectedKept'
  BY <1>1 DEF BirthInv, PauseKept, ProtectedKept, Exists
<1> QED BY <1>7, <1>8, <1>9, <1>10

\* A new row under a free id: create and clone.
LEMMA CreatedInv ==
  ASSUME IInv, Fewer, NEW p \in UserIds, NEW row, Created(p, row),
         UNCHANGED <<decision, newest>>, up' \in BOOLEAN,
         row \in Profile, row.kind = "user"
  PROVE  IInv'
<1> USE StoreAssumption, NoProfileAssumption DEF IInv
<1>1. /\ store[p] = NoProfile /\ store' = [store EXCEPT ![p] = row]
      /\ births' = [births EXCEPT ![p] = births[p] + 1]
      /\ asked' = [asked EXCEPT ![p] = row.enabled]
      /\ writes < MaxWrites /\ writes' = writes + 1
  BY DEF Created, Counted, Exists
<1>2. row.enabled \in BOOLEAN  BY DEF Profile
<1>3. p \in Ids /\ p # Sys /\ births[p] \in Nat /\ Sys \in Ids  BY DEF Ids, TypeOK
<1>4. TypeOK'
  <2>1. store' \in [Ids -> Profile \union {NoProfile}]  BY <1>1, <1>2, <1>3 DEF TypeOK
  <2>2. births' \in [Ids -> Nat]  BY <1>1, <1>3 DEF TypeOK
  <2>5. asked' \in [Ids -> BOOLEAN]  BY <1>1, <1>2, <1>3 DEF TypeOK
  <2>3. writes' \in 0..MaxWrites  BY <1>1 DEF TypeOK
  <2>4. \A q \in Ids : store'[q] = NoProfile => decision'[q] = NoDecision
    BY <1>1, <1>2, <1>3 DEF TypeOK, Exists
  <2> QED BY <2>1, <2>2, <2>3, <2>4, <2>5 DEF TypeOK, Fewer, Exists
<1>5. ReqInv'
  <2>1. \A q \in Ids : births'[q] \in Nat /\ births'[q] >= births[q]
    BY <1>1, <1>3 DEF TypeOK
  <2> QED BY <2>1, FewerReqInv
<1>6. BirthInv'  BY <1>1, <1>2, <1>3 DEF BirthInv, TypeOK, Exists, Ids
<1>7. FreshInv'
  <2> SUFFICES ASSUME NEW d \in Clients, req'[d].op # "idle",
                      req'[d].born = births'[req'[d].id], store'[req'[d].id] # NoProfile
               PROVE  /\ req'[d].op \in Changes =>
                           store'[req'[d].id] = req'[d].base
                           \/ store'[req'[d].id].revision > req'[d].base.revision
                      /\ req'[d].op = "decide" =>
                           decision'[req'[d].id] = req'[d].seen
                           \/ decision'[req'[d].id].version > req'[d].seen.version
    BY DEF FreshInv, Exists
  <2>1. req'[d] = req[d]  BY DEF Fewer, Idle
  <2>2. req[d].id \in Ids /\ req[d].born \in 1..births[req[d].id]
    BY <2>1 DEF TypeOK, Request, ReqInv
  <2>3. req[d].id # p  BY <1>1, <1>3, <2>1, <2>2 DEF TypeOK
  <2>4. store'[req[d].id] = store[req[d].id] /\ births'[req[d].id] = births[req[d].id]
    BY <1>1, <2>2, <2>3 DEF TypeOK
  <2> QED BY <2>1, <2>4 DEF FreshInv, Exists
<1>8. PauseKept'  BY <1>1, <1>2, <1>3 DEF PauseKept, TypeOK, Exists
<1>9. ProtectedKept'  BY <1>1, <1>3 DEF ProtectedKept, TypeOK, Exists
<1> QED BY <1>4, <1>5, <1>6, <1>7, <1>8, <1>9

LEMMA RowIsProfile ==
  ASSUME NEW crit \in Criteria, NEW on \in BOOLEAN, NEW m \in {"on", "off"}
  PROVE  Row(crit, on, m) \in Profile /\ Row(crit, on, m).kind = "user"
         /\ Row(crit, on, m).enabled = on
BY DEF Row, Profile

LEMMA CreateInv == ASSUME IInv, NEW p \in Ids, Create(p) PROVE IInv'
<1> USE DEF IInv
<1>1. PICK crit \in Criteria, on \in BOOLEAN : Created(p, Row(crit, on, "on"))
  BY DEF Create
<1>2. Fewer  BY DEF TypeOK, Create, Fewer
<1>3. p \in UserIds /\ up' \in BOOLEAN /\ UNCHANGED <<decision, newest>>
  BY DEF Create, TypeOK
<1> QED BY <1>1, <1>2, <1>3, RowIsProfile, CreatedInv

LEMMA CloneInv == ASSUME IInv, NEW c \in Clients, NEW p \in Ids, Clone(c, p) PROVE IInv'
<1> USE DEF IInv
<1> DEFINE b == req[c].base
           row == Row(b.criteria, b.enabled, b.mode)
<1>1. Created(p, row) /\ p \in UserIds /\ Done(c) /\ req[c].op = "clone" /\ up' \in BOOLEAN
      /\ UNCHANGED <<decision, newest>>
  BY DEF Clone, TypeOK
<1>2. b \in Profile  BY <1>1 DEF ReqInv, Changes
<1>3. row \in Profile /\ row.kind = "user"  BY <1>2 DEF Row, Profile
<1>4. Fewer  BY <1>1, DoneIsFewer
<1> HIDE DEF row
<1> QED BY <1>1, <1>3, <1>4, CreatedInv

\* Whatever a client wants is a profile; a mode keeps what it read of enabled; an edit is
\* a user profile, and the others keep kind, seed and criteria.
LEMMA WantedIsProfile ==
  ASSUME IInv, NEW c \in Clients, NEW new \in Wanted(c)
  PROVE  /\ req[c].op \in Changes /\ req[c].op # "clone" /\ req[c].op # "delete"
         /\ new \in Profile
         /\ req[c].op = "mode" => new.enabled = req[c].base.enabled
         /\ req[c].op = "edit" => new.kind = "user"
         /\ req[c].op # "edit" => /\ new.kind = req[c].base.kind
                                  /\ new.seed = req[c].base.seed
                                  /\ new.criteria = req[c].base.criteria
<1> DEFINE b == req[c].base
<1>1. req[c].op \in {"edit", "pause", "resume", "mode"}
  BY DEF Wanted
<1>2. b \in Profile  BY <1>1 DEF IInv, ReqInv, Changes
<1>3. CASE req[c].op = "edit"
  <2>1. PICK crit \in Criteria, on \in BOOLEAN, m \in {"on", "off"} : new = Row(crit, on, m)
    BY <1>3 DEF Wanted
  <2> QED BY <1>3, <2>1, RowIsProfile DEF Changes
<1>4. CASE req[c].op = "pause"
  <2>1. new = [b EXCEPT !.enabled = FALSE]  BY <1>4 DEF Wanted
  <2> HIDE DEF b
  <2>2. new \in Profile /\ new.kind = b.kind /\ new.seed = b.seed /\ new.criteria = b.criteria
    BY <1>2, <2>1 DEF Profile
  <2> QED BY <1>4, <2>2 DEF Changes, b
<1>5. CASE req[c].op = "resume"
  <2>1. new = [b EXCEPT !.enabled = TRUE]  BY <1>5 DEF Wanted
  <2> HIDE DEF b
  <2>2. new \in Profile /\ new.kind = b.kind /\ new.seed = b.seed /\ new.criteria = b.criteria
    BY <1>2, <2>1 DEF Profile
  <2> QED BY <1>5, <2>2 DEF Changes, b
<1>6. CASE req[c].op = "mode"
  <2>1. new = [b EXCEPT !.mode = IF b.mode = "on" THEN "off" ELSE "on"]
    BY <1>6 DEF Wanted
  <2> HIDE DEF b
  <2>2. new \in Profile /\ new.kind = b.kind /\ new.seed = b.seed /\ new.criteria = b.criteria
        /\ new.enabled = b.enabled
    BY <1>2, <2>1 DEF Profile
  <2> QED BY <1>6, <2>2 DEF Changes, b
<1> QED BY <1>1, <1>3, <1>4, <1>5, <1>6

LEMMA ReplaceInv == ASSUME IInv, NEW c \in Clients, Replace(c) PROVE IInv'
<1> USE StoreAssumption, NoProfileAssumption DEF IInv
<1> DEFINE p == req[c].id
           b == req[c].base
<1>1. PICK new \in Wanted(c) :
        /\ Replaceable(p, new, b.revision) /\ store' = Replaced(p, new)
        /\ asked' = [asked EXCEPT ![p] = IF req[c].op = "mode" THEN asked[p] ELSE new.enabled]
  BY DEF Replace
<1>2. Fewer /\ up' \in BOOLEAN /\ UNCHANGED <<decision, up, births, newest>>
      /\ writes < MaxWrites /\ writes' = writes + 1
  BY DoneIsFewer DEF Replace, Counted, TypeOK
<1>3. new \in Profile /\ req[c].op \in Changes /\ req[c].op # "clone" /\ req[c].op # "delete"
  BY WantedIsProfile
<1>4. p \in Ids /\ Sys \in Ids /\ b \in Profile /\ req[c].op # "idle"
  BY <1>3 DEF TypeOK, Request, Ids, ReqInv, Changes
<1>5. store[p] \in Profile /\ births[p] \in Nat /\ req[c].born \in 1..births[p]
  BY <1>1, <1>4 DEF Replaceable, Exists, TypeOK, ReqInv
<1> DEFINE row == [new EXCEPT !.revision = store[p].revision + 1]
<1>6. store' = [store EXCEPT ![p] = row]  BY <1>1 DEF Replaced
<1>7. /\ row \in Profile /\ row.kind = new.kind /\ row.seed = new.seed
      /\ row.criteria = new.criteria /\ row.enabled = new.enabled
      /\ row.revision = store[p].revision + 1 /\ new.enabled \in BOOLEAN
  BY <1>3, <1>5 DEF Profile
<1>8. req[c].born = births[p] => store[p] = b
  BY <1>1, <1>3, ReplacesWhatWasRead
<1>9. births[p] = 1 => store[p] = b
  BY <1>5, <1>8
<1>a. Exists(p) /\ store[p].revision \in Nat  BY <1>1, <1>5 DEF Replaceable, Profile
<1> HIDE DEF row, p, b
<1>10. TypeOK'
  <2>1. store' \in [Ids -> Profile \union {NoProfile}]  BY <1>4, <1>6, <1>7 DEF TypeOK
  <2>2. asked' \in [Ids -> BOOLEAN]  BY <1>1, <1>4, <1>7 DEF TypeOK
  <2>3. writes' \in 0..MaxWrites  BY <1>2 DEF TypeOK
  <2>4. \A q \in Ids : store'[q] = NoProfile => decision'[q] = NoDecision
    BY <1>2, <1>4, <1>6, <1>7 DEF TypeOK, Exists
  <2> QED BY <1>2, <2>1, <2>2, <2>3, <2>4 DEF TypeOK, Fewer, Exists
<1>11. ReqInv'
  <2>1. \A q \in Ids : births'[q] \in Nat /\ births'[q] >= births[q]  BY <1>2 DEF TypeOK
  <2> QED BY <1>2, <2>1, FewerReqInv
<1>12. BirthInv'
  <2>1. p \in UserIds => row.kind = "user"
    BY <1>1, <1>3, <1>7, WantedIsProfile DEF ReqInv, p, b
  <2>2. births[p] > 0  BY <1>4, <1>a DEF BirthInv
  <2>3. \A q \in Ids : births[q] = 0 => asked'[q]
    BY <1>1, <1>4, <2>2 DEF BirthInv, TypeOK
  <2> QED BY <1>2, <1>4, <1>6, <1>7, <1>a, <2>1, <2>2, <2>3 DEF BirthInv, TypeOK, Exists, Ids
<1>13. FreshInv'
  <2> SUFFICES ASSUME NEW d \in Clients, req'[d].op # "idle",
                      req'[d].born = births'[req'[d].id], store'[req'[d].id] # NoProfile
               PROVE  /\ req'[d].op \in Changes =>
                           store'[req'[d].id] = req'[d].base
                           \/ store'[req'[d].id].revision > req'[d].base.revision
                      /\ req'[d].op = "decide" =>
                           decision'[req'[d].id] = req'[d].seen
                           \/ decision'[req'[d].id].version > req'[d].seen.version
    BY DEF FreshInv, Exists
  <2>1. req'[d] = req[d]  BY <1>2 DEF Fewer, Idle
  <2>2. req[d].id \in Ids  BY DEF TypeOK, Request
  <2>3. CASE req[d].id # p
    <3>1. store'[req[d].id] = store[req[d].id]  BY <1>6, <2>2, <2>3 DEF TypeOK
    <3> QED BY <1>2, <2>1, <3>1 DEF FreshInv, Exists
  <2>4. CASE req[d].id = p
    <3>1. store'[p] = row  BY <1>4, <1>6 DEF TypeOK
    <3>2. ASSUME req[d].op \in Changes
          PROVE  row.revision > req[d].base.revision
      <4>1. req[d].base \in Profile  BY <3>2 DEF ReqInv
      <4>2. store[p] = req[d].base \/ store[p].revision > req[d].base.revision
        BY <1>2, <1>a, <2>1, <2>4, <3>2 DEF FreshInv
      <4>3. req[d].base.revision \in Nat  BY <4>1 DEF Profile
      <4> QED BY <1>7, <1>a, <4>2, <4>3
    <3>3. req[d].op = "decide" =>
            decision[p] = req[d].seen \/ decision[p].version > req[d].seen.version
      BY <1>2, <1>a, <2>1, <2>4 DEF FreshInv
    <3> QED BY <1>2, <2>1, <2>4, <3>1, <3>2, <3>3
  <2> QED BY <2>3, <2>4
<1>14. PauseKept'
  <2>1. ASSUME births[p] = 1  PROVE row.enabled = asked'[p]
    <3>1. CASE req[c].op = "mode"
      <4>1. row.enabled = store[p].enabled
        BY <1>7, <1>9, <2>1, <3>1, WantedIsProfile DEF b
      <4>2. store[p].enabled = asked[p]  BY <1>4, <1>a, <2>1 DEF PauseKept
      <4> QED BY <1>1, <1>4, <3>1, <4>1, <4>2 DEF TypeOK
    <3>2. CASE req[c].op # "mode"
      BY <1>1, <1>4, <1>7, <3>2 DEF TypeOK
    <3> QED BY <3>1, <3>2
  <2>2. \A q \in Ids \ {p} : store'[q] = store[q] /\ asked'[q] = asked[q]
    BY <1>1, <1>4, <1>6 DEF TypeOK
  <2>3. store'[p] = row  BY <1>4, <1>6 DEF TypeOK
  <2> QED BY <1>2, <2>1, <2>2, <2>3 DEF PauseKept, Exists
<1>15. ProtectedKept'
  <2>1. CASE p # Sys  BY <1>2, <1>4, <1>6, <2>1 DEF ProtectedKept, TypeOK, Exists
  <2>2. CASE p = Sys /\ newest > 0
    <3>1. store[p].kind = "system" /\ store[p].seed = newest /\ store[p].criteria = newest
      BY <2>2 DEF ProtectedKept
    <3>2. births[p] = 1  BY <1>4, <1>5, <1>a, <2>2 DEF BirthInv
    <3>3. store[p] = b  BY <1>9, <3>2
    <3>4. new.kind = "system"  BY <1>1, <3>1 DEF Replaceable
    <3>5. row.kind = "system" /\ row.seed = newest /\ row.criteria = newest
      BY <1>7, <3>1, <3>3, <3>4, WantedIsProfile DEF b
    <3>6. store'[Sys] = row  BY <1>4, <1>6, <2>2 DEF TypeOK
    <3>7. row # NoProfile  BY <1>7
    <3> QED BY <1>2, <3>5, <3>6, <3>7 DEF ProtectedKept, Exists
  <2>3. CASE ~(newest > 0)  BY <1>2, <2>3 DEF ProtectedKept
  <2> QED BY <2>1, <2>2, <2>3
<1> QED BY <1>10, <1>11, <1>12, <1>13, <1>14, <1>15

LEMMA DeleteInv == ASSUME IInv, NEW c \in Clients, Delete(c) PROVE IInv'
<1> USE StoreAssumption, NoProfileAssumption DEF IInv
<1> DEFINE p == req[c].id
<1>1. /\ Exists(p) /\ store[p].kind # "system"
      /\ store' = [store EXCEPT ![p] = NoProfile]
      /\ decision' = [decision EXCEPT ![p] = NoDecision]
      /\ UNCHANGED <<up, births, asked, newest>>
      /\ writes < MaxWrites /\ writes' = writes + 1
  BY DEF Delete, Counted
<1>2. Fewer  BY DoneIsFewer DEF Delete
<1>3. p \in Ids /\ Sys \in Ids  BY DEF TypeOK, Request, Ids
<1> HIDE DEF p
<1>4. p # Sys
  <2>1. Exists(Sys) => store[Sys].kind = "system"  BY <1>3 DEF BirthInv, ProtectedKept
  <2> QED BY <1>1, <2>1
<1>5. TypeOK'
  <2>1. NoDecision \in Decision  BY DEF NoDecision, Decision, States
  <2>2. store' \in [Ids -> Profile \union {NoProfile}]  BY <1>1, <1>3 DEF TypeOK
  <2>3. decision' \in [Ids -> Decision]  BY <1>1, <1>3, <2>1 DEF TypeOK
  <2>4. writes' \in 0..MaxWrites  BY <1>1 DEF TypeOK
  <2>5. \A q \in Ids : store'[q] = NoProfile => decision'[q] = NoDecision
    BY <1>1, <1>3 DEF TypeOK, Exists
  <2> QED BY <1>1, <1>2, <2>2, <2>3, <2>4, <2>5 DEF TypeOK, Fewer, Exists
<1>6. ReqInv'
  <2>1. \A q \in Ids : births'[q] \in Nat /\ births'[q] >= births[q]  BY <1>1 DEF TypeOK
  <2> QED BY <1>2, <2>1, FewerReqInv
<1>7. \A q \in Ids : store'[q] # NoProfile =>
        q # p /\ store'[q] = store[q] /\ decision'[q] = decision[q]
  BY <1>1, <1>3 DEF TypeOK
<1>8. FreshInv'
  <2> SUFFICES ASSUME NEW d \in Clients, req'[d].op # "idle",
                      req'[d].born = births'[req'[d].id], store'[req'[d].id] # NoProfile
               PROVE  /\ req'[d].op \in Changes =>
                           store'[req'[d].id] = req'[d].base
                           \/ store'[req'[d].id].revision > req'[d].base.revision
                      /\ req'[d].op = "decide" =>
                           decision'[req'[d].id] = req'[d].seen
                           \/ decision'[req'[d].id].version > req'[d].seen.version
    BY DEF FreshInv, Exists
  <2>1. req'[d] = req[d]  BY <1>2 DEF Fewer, Idle
  <2>2. req[d].id \in Ids  BY DEF TypeOK, Request
  <2>3. /\ store'[req[d].id] = store[req[d].id] /\ decision'[req[d].id] = decision[req[d].id]
        /\ births'[req[d].id] = births[req[d].id]
    BY <1>1, <1>7, <2>1, <2>2
  <2> QED BY <2>1, <2>3 DEF FreshInv, Exists
<1>9. BirthInv'  BY <1>1, <1>3, <1>7 DEF BirthInv, Exists, Ids
<1>10. PauseKept'  BY <1>1, <1>7 DEF PauseKept, Exists
<1>11. ProtectedKept'  BY <1>1, <1>3, <1>4 DEF ProtectedKept, TypeOK, Exists
<1> QED BY <1>5, <1>6, <1>8, <1>9, <1>10, <1>11

LEMMA DecideInv == ASSUME IInv, NEW c \in Clients, Decide(c) PROVE IInv'
<1> USE StoreAssumption DEF IInv
<1> DEFINE p == req[c].id
<1>1. PICK s \in States :
        decision' = [decision EXCEPT ![p] = [state |-> s, version |-> decision[p].version + 1]]
  BY DEF Decide
<1>2. /\ Exists(p) /\ Fewer /\ UNCHANGED <<store, up, births, asked, newest>>
      /\ writes < MaxWrites /\ writes' = writes + 1
  BY DoneIsFewer DEF Decide, Accepted, Counted
<1>3. p \in Ids  BY DEF TypeOK, Request
<1> HIDE DEF p
<1>4. decision[p].version \in Nat  BY <1>3 DEF TypeOK, Decision
<1> DEFINE taken == [state |-> s, version |-> decision[p].version + 1]
<1>5. taken \in Decision /\ taken.version = decision[p].version + 1
  BY <1>4 DEF Decision
<1>6. decision' = [decision EXCEPT ![p] = taken]  BY <1>1
<1> HIDE DEF taken
<1>7. TypeOK'
  <2>1. decision' \in [Ids -> Decision]  BY <1>5, <1>6 DEF TypeOK
  <2>2. writes' \in 0..MaxWrites  BY <1>2 DEF TypeOK
  <2>3. \A q \in Ids : store'[q] = NoProfile => decision'[q] = NoDecision
    BY <1>2, <1>6 DEF TypeOK, Exists
  <2> QED BY <1>2, <2>1, <2>2, <2>3 DEF TypeOK, Fewer, Exists
<1>8. ReqInv'
  <2>1. \A q \in Ids : births'[q] \in Nat /\ births'[q] >= births[q]  BY <1>2 DEF TypeOK
  <2> QED BY <1>2, <2>1, FewerReqInv
<1>9. FreshInv'
  <2> SUFFICES ASSUME NEW d \in Clients, req'[d].op # "idle",
                      req'[d].born = births'[req'[d].id], store'[req'[d].id] # NoProfile
               PROVE  /\ req'[d].op \in Changes =>
                           store'[req'[d].id] = req'[d].base
                           \/ store'[req'[d].id].revision > req'[d].base.revision
                      /\ req'[d].op = "decide" =>
                           decision'[req'[d].id] = req'[d].seen
                           \/ decision'[req'[d].id].version > req'[d].seen.version
    BY DEF FreshInv, Exists
  <2>1. req'[d] = req[d]  BY <1>2 DEF Fewer, Idle
  <2>2. req[d].id \in Ids  BY DEF TypeOK, Request
  <2>3. req[d].op \in Changes =>
          store'[req'[d].id] = req'[d].base \/ store'[req'[d].id].revision > req'[d].base.revision
    BY <1>2, <2>1 DEF FreshInv, Exists
  <2>4. ASSUME req[d].op = "decide"
        PROVE  decision'[req'[d].id] = req'[d].seen
               \/ decision'[req'[d].id].version > req'[d].seen.version
    <3>1. decision[req[d].id] = req[d].seen
          \/ decision[req[d].id].version > req[d].seen.version
      BY <1>2, <2>1, <2>4 DEF FreshInv, Exists
    <3>2. req[d].seen.version \in Nat  BY DEF TypeOK, Request, Decision
    <3>3. CASE req[d].id = p
      <4>1. decision'[p].version > decision[p].version  BY <1>3, <1>4, <1>5, <1>6 DEF TypeOK
      <4>2. decision'[p].version \in Nat  BY <1>3, <1>4, <1>5, <1>6 DEF TypeOK
      <4> QED BY <1>4, <2>1, <3>1, <3>2, <3>3, <4>1, <4>2
    <3>4. CASE req[d].id # p
      <4>1. decision'[req[d].id] = decision[req[d].id]  BY <1>6, <2>2, <3>4 DEF TypeOK
      <4> QED BY <2>1, <3>1, <4>1
    <3> QED BY <3>3, <3>4
  <2> QED BY <2>1, <2>3, <2>4
<1>10. BirthInv' /\ PauseKept' /\ ProtectedKept'
  BY <1>2 DEF BirthInv, PauseKept, ProtectedKept, Exists
<1> QED BY <1>7, <1>8, <1>9, <1>10

-----------------------------------------------------------------------------
(* The theorems                                                              *)

LEMMA StutterIInv == ASSUME IInv, UNCHANGED vars PROVE IInv'
BY DEF vars, IInv, TypeOK, ReqInv, BirthInv, FreshInv, PauseKept, ProtectedKept, Exists

LEMMA NextIInv == ASSUME IInv, [Next]_vars PROVE IInv'
<1>1. CASE Stop
  <2>1. Fewer  BY <1>1, StopIsFewer DEF IInv
  <2> QED BY <1>1, <2>1, EndInv DEF Stop
<1>2. ASSUME NEW v \in Seeds, Boot(v) PROVE IInv'  BY <1>2, SeededInv
<1>3. ASSUME NEW p \in Ids, Create(p) PROVE IInv'  BY <1>3, CreateInv
<1>4. ASSUME NEW c \in Clients, NEW op \in Ops, NEW p \in Ids, Read(c, op, p) PROVE IInv'
  BY <1>4, ReadInv
<1>5. ASSUME NEW c \in Clients, Replace(c) PROVE IInv'  BY <1>5, ReplaceInv
<1>6. ASSUME NEW c \in Clients, Delete(c) PROVE IInv'  BY <1>6, DeleteInv
<1>7. ASSUME NEW c \in Clients, NEW p \in Ids, Clone(c, p) PROVE IInv'  BY <1>7, CloneInv
<1>8. ASSUME NEW c \in Clients, Decide(c) PROVE IInv'  BY <1>8, DecideInv
<1>9. ASSUME NEW c \in Clients, Refused(c) PROVE IInv'
  <2>1. Fewer  BY <1>9, DoneIsFewer DEF IInv, Refused
  <2> QED BY <1>9, <2>1, EndInv DEF Refused, IInv, TypeOK
<1>10. CASE UNCHANGED vars  BY <1>10, StutterIInv
<1> QED BY <1>1, <1>2, <1>3, <1>4, <1>5, <1>6, <1>7, <1>8, <1>9, <1>10 DEF Next

THEOREM Inductive == Spec => []IInv
<1>1. Init => IInv  BY InitIInv
<1>2. IInv /\ [Next]_vars => IInv'  BY NextIInv
<1> QED BY <1>1, <1>2, PTL DEF Spec

\* TypeOK: the rows of profiles and decisions are well formed and no decision outlives its
\* profile, whatever clients and restarts do.
THEOREM TypeCorrect == Spec => []TypeOK
<1>1. IInv => TypeOK  BY DEF IInv
<1> QED BY <1>1, Inductive, PTL

\* PauseKept: a profile stays paused, or active, until its users say otherwise, across
\* upgrades of its seed and concurrent requests (seed_system_profile, _set_enabled).
THEOREM PauseSurvives == Spec => []PauseKept
<1>1. IInv => PauseKept  BY DEF IInv
<1> QED BY <1>1, Inductive, PTL

\* ProtectedKept: the seeded profile is never deleted, edited or set back to an older seed
\* (ProfileRepository.replace and delete, seed_system_profile).
THEOREM ProtectedStays == Spec => []ProtectedKept
<1>1. IInv => ProtectedKept  BY DEF IInv
<1> QED BY <1>1, Inductive, PTL

\* NoLostUpdate: what a client writes over is what it read (expected_revision and
\* expected_version).
LEMMA StepKeepsUpdates ==
  ASSUME IInv, [Next]_vars, NEW c \in Clients, Writes(c), req[c].born = births[req[c].id]
  PROVE  /\ req[c].op \in {"edit", "delete", "mode", "pause", "resume"} =>
              req[c].base = store[req[c].id]
         /\ req[c].op = "decide" /\ req[c].seen.version > 0 =>
              req[c].seen = decision[req[c].id]
<1> DEFINE Goal == /\ req[c].op \in {"edit", "delete", "mode", "pause", "resume"} =>
                        req[c].base = store[req[c].id]
                   /\ req[c].op = "decide" /\ req[c].seen.version > 0 =>
                        req[c].seen = decision[req[c].id]
<1> USE DEF Writes
<1>0. ASSUME NEW d \in Clients, Done(d) PROVE d = c
  BY <1>0 DEF IInv, TypeOK, Done
<1>1. ASSUME NEW d \in Clients, Replace(d) PROVE Goal
  <2>1. d = c  BY <1>0, <1>1 DEF Replace
  <2>2. PICK new \in Wanted(c) : Replaceable(req[c].id, new, req[c].base.revision)
    BY <1>1, <2>1 DEF Replace
  <2>3. req[c].op \in Changes  BY WantedIsProfile
  <2>4. store[req[c].id] = req[c].base  BY <2>2, <2>3, ReplacesWhatWasRead
  <2> QED BY <2>3, <2>4 DEF Changes
<1>2. ASSUME NEW d \in Clients, Delete(d) PROVE Goal
  <2>1. d = c  BY <1>0, <1>2 DEF Delete
  <2>2. /\ req[c].op = "delete" /\ Exists(req[c].id)
        /\ store[req[c].id].revision = req[c].base.revision
    BY <1>2, <2>1 DEF Delete
  <2>3. req[c].base \in Profile  BY <2>2 DEF IInv, ReqInv, Changes
  <2>4. store[req[c].id] = req[c].base \/ store[req[c].id].revision > req[c].base.revision
    BY <2>2 DEF IInv, FreshInv, Changes
  <2>5. req[c].base.revision \in Nat  BY <2>3 DEF Profile
  <2> QED BY <2>2, <2>4, <2>5
<1>3. ASSUME NEW d \in Clients, Decide(d) PROVE Goal
  <2>1. d = c  BY <1>0, <1>3 DEF Decide
  <2>2. req[c].op = "decide" /\ Accepted(req[c].id, req[c].seen)
    BY <1>3, <2>1 DEF Decide
  <2>3. req[c].seen.version \in Nat  BY DEF IInv, TypeOK, Request, Decision
  <2>4. decision[req[c].id] = req[c].seen
        \/ decision[req[c].id].version > req[c].seen.version
    BY <2>2 DEF IInv, FreshInv, Accepted
  <2> QED BY <2>2, <2>3, <2>4 DEF Accepted
<1>4. ASSUME NEW d \in Clients, NEW p \in Ids, Clone(d, p) PROVE Goal
  <2>1. d = c /\ req[d].op = "clone"  BY <1>0, <1>4 DEF Clone
  <2> QED BY <2>1
<1>5. ASSUME NEW d \in Clients, Refused(d) PROVE FALSE
  BY <1>5 DEF Refused
<1>6. ASSUME NEW d \in Clients, NEW op \in Ops, NEW p \in Ids, Read(d, op, p) PROVE FALSE
  BY <1>6 DEF Read
<1>7. ASSUME NEW p \in Ids, Create(p) PROVE FALSE  BY <1>7 DEF Create
<1>8. ASSUME NEW v \in Seeds, Boot(v) PROVE FALSE  BY <1>8 DEF Boot
<1>9. ASSUME Stop PROVE FALSE  BY <1>9 DEF Stop
<1>10. ~ UNCHANGED vars  BY DEF vars
<1> QED
  BY <1>1, <1>2, <1>3, <1>4, <1>5, <1>6, <1>7, <1>8, <1>9, <1>10 DEF Next

THEOREM UpdatesKept == Spec => NoLostUpdate
<1> DEFINE Kept == \A c \in Clients :
              LET p == req[c].id IN
              (Writes(c) /\ req[c].born = births[p]) =>
                /\ req[c].op \in {"edit", "delete", "mode", "pause", "resume"} =>
                     req[c].base = store[p]
                /\ req[c].op = "decide" /\ req[c].seen.version > 0 =>
                     req[c].seen = decision[p]
<1>1. IInv /\ [Next]_vars => [Kept]_vars
  BY StepKeepsUpdates
<1> QED BY <1>1, Inductive, PTL DEF Spec, NoLostUpdate
=============================================================================
