--------------------------- MODULE SubmissionProofs ---------------------------
(***************************************************************************)
(* Proofs about Submission, for any profiles, schedules, zones, lengths of *)
(* day and grace, and any number of requests, rows and upsets.             *)
(***************************************************************************)
EXTENDS Submission, WellFoundedInduction, TLAPS

-----------------------------------------------------------------------------
(* Maxima and minima of sets of integers *)

LEMMA LeastNumber ==
  ASSUME NEW S \in SUBSET Nat, S # {}
  PROVE  \E x \in S : \A y \in S : x <= y
<1>1. PICK x \in S : \A y \in S : ~ (<<y, x>> \in OpToRel(<, Nat))
  BY NatLessThanWellFounded, WFMin
<1>2. \A y \in S : ~ (y < x)
  BY <1>1 DEF OpToRel
<1> QED BY <1>2

LEMMA MaxIsTop ==
  ASSUME NEW S \in SUBSET Int, S # {}, NEW b \in Int, \A x \in S : x <= b
  PROVE  Max(S) \in S /\ \A x \in S : x <= Max(S)
<1> DEFINE D == {b - x : x \in S}
<1>1. \A x \in S : b - x \in Nat
  OBVIOUS
<1>2. D \in SUBSET Nat /\ D # {}
  BY <1>1
<1>3. PICK d \in D : \A e \in D : d <= e
  BY <1>2, LeastNumber
<1>4. PICK m \in S : d = b - m
  BY <1>3
<1>5. \A x \in S : m >= x
  BY <1>3, <1>4
<1>6. \E n \in S : \A x \in S : n >= x
  BY <1>5
<1>7. Max(S) \in S /\ \A x \in S : Max(S) >= x
  BY <1>6 DEF Max
<1> QED BY <1>7

\* What is at the top of a set is its maximum.
LEMMA TopIsMax ==
  ASSUME NEW S \in SUBSET Int, NEW m \in S, \A x \in S : x <= m
  PROVE  Max(S) = m
<1>1. m \in Int /\ S # {}
  OBVIOUS
<1>2. Max(S) \in S /\ \A x \in S : x <= Max(S)
  BY <1>1, MaxIsTop
<1>3. Max(S) \in Int /\ Max(S) <= m /\ m <= Max(S)
  BY <1>2
<1> QED BY <1>1, <1>3

LEMMA OfTwo ==
  ASSUME NEW s \in Int
  PROVE  /\ Max({0, s}) = IF s <= 0 THEN 0 ELSE s
         /\ Min({0, s}) = IF s <= 0 THEN s ELSE 0
<1>0. {0, s} \in SUBSET Int
  OBVIOUS
<1>1. Max({0, s}) = IF s <= 0 THEN 0 ELSE s
  BY <1>0, TopIsMax
<1>2. PICK m \in {0, s} : \A y \in {0, s} : m =< y
  OBVIOUS
<1>3. Min({0, s}) \in {0, s} /\ \A y \in {0, s} : Min({0, s}) =< y
  BY <1>2 DEF Min
<1> QED BY <1>1, <1>3

-----------------------------------------------------------------------------
(* Days and clocks *)

LEMMA Divide ==
  ASSUME NEW a \in Int, NEW d \in Nat \ {0}
  PROVE  a = (a \div d) * d + (a % d) /\ a % d \in 0..(d - 1) /\ a \div d \in Int
  OBVIOUS

LEMMA Quotient ==
  ASSUME NEW q \in Int, NEW d \in Nat \ {0}, NEW r \in 0..(d - 1)
  PROVE  (q * d + r) \div d = q /\ (q * d + r) % d = r
  OBVIOUS

LEMMA QuotientOfNat ==
  ASSUME NEW a \in Nat, NEW d \in Nat \ {0}
  PROVE  a \div d \in Nat
<1> DEFINE q == a \div d
<1>1. a = q * d + (a % d) /\ a % d \in 0..(d - 1) /\ q \in Int
  BY Divide
<1>2. SUFFICES ASSUME q < 0 PROVE FALSE
  BY <1>1
<1>3. q * d <= (-1) * d
  BY <1>1, <1>2
<1> QED BY <1>1, <1>3

LEMMA Typed ==
  ASSUME zone \in Zones, NEW t \in Int
  PROVE  zone.change \in Nat /\ zone.shift \in Int /\ Wall(t) \in Int /\ Date(t) \in Int
         /\ Fold(t) \in {0, 1}
<1>1. zone.change \in Nat /\ zone.shift \in Int
  BY SubmissionAssumption
<1>2. Wall(t) \in Int
  BY <1>1 DEF Wall
<1> QED BY <1>1, <1>2, Divide, SubmissionAssumption DEF Date, Fold

LEMMA UtcTyped ==
  ASSUME zone \in Zones, NEW w \in Int, NEW f
  PROVE  Utc(w, f) \in {w, w - zone.shift} /\ Utc(w, f) \in Int
  BY Typed DEF Utc

\* On a plain day the clock runs with the instants: there is one offset for the day.
LEMMA OneOffset ==
  ASSUME zone \in Zones, NEW t \in Instants, PlainDay(t)
  PROVE  \E o \in {0, zone.shift} :
           \A w \in Int, f \in {0, 1} :
             Date(t) * Day <= w /\ w < (Date(t) + 1) * Day =>
               /\ Utc(w, f) = w - o
               /\ \A u \in Int : Wall(u) = w => u = w - o
               /\ w - o >= 0 /\ Wall(w - o) = w
<1> DEFINE D == Date(t)  s == zone.shift  c == zone.change
<1> SUFFICES ASSUME TRUE
             PROVE  \E o \in {0, s} :
                      \A w \in Int, f \in {0, 1} :
                        D * Day <= w /\ w < (D + 1) * Day =>
                          /\ Utc(w, f) = w - o
                          /\ \A u \in Int : Wall(u) = w => u = w - o
                          /\ w - o >= 0 /\ Wall(w - o) = w
  OBVIOUS
<1>0. Max({0, s}) = (IF s <= 0 THEN 0 ELSE s) /\ Min({0, s}) = (IF s <= 0 THEN s ELSE 0)
  <2>1. s \in Int
    BY SubmissionAssumption
  <2> QED BY <2>1, OfTwo
<1>1. c \in Nat /\ s \in Int /\ D \in Int /\ t \in Nat /\ t \in Int /\ Day \in Nat \ {0}
  BY Typed, SubmissionAssumption DEF Instants
<1>2. Wall(t) = D * Day + (Wall(t) % Day) /\ Wall(t) % Day \in 0..(Day - 1) /\ Wall(t) \in Int
  BY <1>1, Typed, Divide DEF Date
<1>3. D * Day <= Wall(t) /\ Wall(t) < (D + 1) * Day /\ D * Day \in Int /\ (D + 1) * Day \in Int
  BY <1>1, <1>2
<1> DEFINE A == D * Day  B == (D + 1) * Day
<1> HIDE DEF A, B
<1>4. A <= Wall(t) /\ Wall(t) < B /\ A \in Int /\ B \in Int
  BY <1>3 DEF A, B
<1>d. (A > 0 => D \in Nat \ {0}) /\ (t < c => Wall(t) = t)
  BY <1>1 DEF A, Wall
<1>5. CASE s = 0
  <2>1. \A u \in Int : Wall(u) = u
    BY <1>1, <1>5 DEF Wall
  <2>2. \A w \in Int, f \in {0, 1} : Utc(w, f) = w
    BY <1>1, <1>5 DEF Utc
  <2>3. A >= 0
    <3>1. D >= 0
      BY <2>1, <1>1, QuotientOfNat DEF Date
    <3> QED BY <3>1, <1>1 DEF A
  <2> QED BY <2>1, <2>2, <2>3, <1>4, <1>5, <1>1 DEF A, B
<1>6. CASE s # 0 /\ B <= c + Min({0, s})
  <2>1. B <= c /\ B <= c + s
    BY <1>6, <1>1, <1>4, <1>0
  <2>2. t < c
    BY <2>1, <1>1, <1>4 DEF Wall
  <2>3. A >= 0
    <3>1. D >= 0
      BY <2>2, <1>1, QuotientOfNat DEF Date, Wall
    <3> QED BY <3>1, <1>1 DEF A
  <2>4. ASSUME NEW w \in Int, NEW f \in {0, 1}, A <= w, w < B
        PROVE  Utc(w, f) = w
    BY <2>4, <2>1, <1>1, <1>4, <1>0 DEF Utc
  <2>5. ASSUME NEW w \in Int, NEW u \in Int, w < B, Wall(u) = w
        PROVE  u = w
    BY <2>5, <2>1, <1>1, <1>4 DEF Wall
  <2>6. ASSUME NEW w \in Int, A <= w, w < B
        PROVE  w >= 0 /\ Wall(w) = w
    BY <2>6, <2>1, <2>3, <1>1, <1>4 DEF Wall
  <2> QED BY <2>4, <2>5, <2>6, <1>1, <1>4 DEF A, B
<1>7. CASE s # 0 /\ c + Max({0, s}) <= A
  <2>1. c <= A /\ c + s <= A
    BY <1>7, <1>1, <1>4, <1>0
  <2>4. ASSUME NEW w \in Int, NEW f \in {0, 1}, A <= w, w < B
        PROVE  Utc(w, f) = w - s
    BY <2>4, <2>1, <1>1, <1>4, <1>0 DEF Utc
  <2>5. ASSUME NEW w \in Int, NEW u \in Int, A <= w, Wall(u) = w
        PROVE  u = w - s
    BY <2>5, <2>1, <1>1, <1>4 DEF Wall
  <2>6. ASSUME NEW w \in Int, A <= w, w < B
        PROVE  w - s >= 0 /\ Wall(w - s) = w
    BY <2>6, <2>1, <1>1, <1>4 DEF Wall
  <2> QED BY <2>4, <2>5, <2>6, <1>1, <1>4 DEF A, B
<1> QED BY <1>5, <1>6, <1>7 DEF PlainDay, A, B

-----------------------------------------------------------------------------
(* Slots *)

LEMMA ElapsedTyped ==
  ASSUME zone \in Zones, NEW t \in Instants, NEW p \in Profiles, NEW w \in Elapsed(p, t)
  PROVE  /\ w \in Int /\ w <= Wall(t) /\ Wall(t) \in Int
         /\ Date(t) * Day <= w /\ w < (Date(t) + 1) * Day
         /\ w % Day \in Times[p]
<1>1. t \in Int /\ Day \in Nat \ {0} /\ Times[p] \subseteq 0..(Day - 1)
  BY SubmissionAssumption DEF Instants
<1>2. Date(t) \in Int /\ Wall(t) \in Int
  BY <1>1, Typed
<1>3. PICK time \in Times[p] : w = Date(t) * Day + time /\ w <= Wall(t)
  BY DEF Elapsed
<1>4. time \in 0..(Day - 1)
  BY <1>1
<1>5. w % Day = time
  BY <1>1, <1>2, <1>3, <1>4, Quotient
<1>6. w \in Int /\ Date(t) * Day <= w /\ w < (Date(t) + 1) * Day
  BY <1>1, <1>2, <1>3, <1>4
<1> QED BY <1>2, <1>3, <1>5, <1>6

LEMMA LastElapsed ==
  ASSUME zone \in Zones, NEW t \in Instants, NEW p \in Profiles, Elapsed(p, t) # {}
  PROVE  /\ Max(Elapsed(p, t)) \in Elapsed(p, t) /\ Max(Elapsed(p, t)) \in Int
         /\ \A w \in Elapsed(p, t) : w <= Max(Elapsed(p, t))
<1>1. Elapsed(p, t) \in SUBSET Int /\ Wall(t) \in Int /\ \A w \in Elapsed(p, t) : w <= Wall(t)
  BY ElapsedTyped
<1>2. Max(Elapsed(p, t)) \in Elapsed(p, t) /\ \A w \in Elapsed(p, t) : w <= Max(Elapsed(p, t))
  BY <1>1, MaxIsTop
<1> QED BY <1>1, <1>2

LEMMA SlotTyped ==
  ASSUME zone \in Zones, NEW t \in Instants, NEW p \in Profiles, Elapsed(p, t) # {}
  PROVE  SlotStamp(p, t) \in Int /\ LatestSlot(p, t) \in Int
<1>1. SlotStamp(p, t) \in Int
  BY LastElapsed, UtcTyped DEF SlotStamp
<1> DEFINE S == {Utc(w, Fold(t)) : w \in Elapsed(p, t)}
           b == IF zone.shift >= 0 THEN Wall(t) ELSE Wall(t) - zone.shift
<1>2. t \in Int
  BY DEF Instants
<1>3. Wall(t) \in Int /\ zone.shift \in Int
  BY <1>2, Typed
<1>4. b \in Int
  BY <1>3
<1>5. ASSUME NEW w \in Elapsed(p, t)
      PROVE  Utc(w, Fold(t)) \in Int /\ Utc(w, Fold(t)) <= b
  <2>1. w \in Int /\ w <= Wall(t)
    BY ElapsedTyped
  <2>2. Utc(w, Fold(t)) \in {w, w - zone.shift}
    BY <2>1, UtcTyped
  <2> QED BY <2>1, <2>2, <1>3
<1>6. S \in SUBSET Int /\ S # {} /\ \A x \in S : x <= b
  BY <1>5
<1>7. Max(S) \in Int
  <2> HIDE DEF S, b
  <2> QED BY <1>4, <1>6, MaxIsTop
<1> QED BY <1>1, <1>7 DEF LatestSlot

\* due_profiles converts the times of the day and takes the latest, _slot_stamp takes the
\* latest and converts it: on a plain day they name the same instant.
LEMMA SlotIsLatest ==
  ASSUME zone \in Zones, NEW t \in Instants, NEW p \in Profiles, Elapsed(p, t) # {}, PlainDay(t)
  PROVE  LatestSlot(p, t) = SlotStamp(p, t)
<1> DEFINE m == Max(Elapsed(p, t))
           S == {Utc(w, Fold(t)) : w \in Elapsed(p, t)}
<1>1. m \in Elapsed(p, t) /\ m \in Int /\ \A w \in Elapsed(p, t) : w <= m
  BY LastElapsed
<1>2. PICK o \in {0, zone.shift} :
        \A w \in Int, f \in {0, 1} :
          Date(t) * Day <= w /\ w < (Date(t) + 1) * Day => Utc(w, f) = w - o
  BY OneOffset
<1>3. o \in Int /\ Fold(t) \in {0, 1}
  BY Typed DEF Instants
<1>4. \A w \in Elapsed(p, t) : w \in Int /\ Utc(w, Fold(t)) = w - o
  BY <1>2, <1>3, ElapsedTyped
<1>5. S \in SUBSET Int /\ m - o \in S /\ \A x \in S : x <= m - o
  BY <1>1, <1>3, <1>4
<1>6. Max(S) = m - o
  <2> HIDE DEF S, m
  <2> QED BY <1>5, TopIsMax
<1> QED BY <1>1, <1>4, <1>6 DEF LatestSlot, SlotStamp

\* On a plain day the slot is the last instant at which the clock showed a time of the
\* schedule, if it showed one on that day.
LEMMA SlotWasShown ==
  ASSUME zone \in Zones, NEW t \in Instants, NEW p \in Profiles, PlainDay(t),
         Shown(p, t) # {}, Date(LastShown(p, t)) = Date(t)
  PROVE  Elapsed(p, t) # {} /\ LastShown(p, t) = SlotStamp(p, t)
<1>1. t \in Int /\ t \in Nat /\ Day \in Nat \ {0} /\ Times[p] \subseteq 0..(Day - 1)
      /\ Instants \subseteq Int
  BY SubmissionAssumption DEF Instants
<1> DEFINE u == LastShown(p, t)  D == Date(t)
<1>2. u \in Shown(p, t) /\ \A v \in Shown(p, t) : v <= u
  <2>1. Shown(p, t) \in SUBSET Int /\ \A v \in Shown(p, t) : v <= t
    BY <1>1 DEF Shown
  <2> QED BY <2>1, <1>1, MaxIsTop DEF LastShown
<1>3. u \in Instants /\ u \in Int /\ u <= t /\ Wall(u) % Day \in Times[p] /\ Wall(u) \in Int
  BY <1>1, <1>2, Typed DEF Shown
<1>4. D \in Int /\ Wall(t) \in Int
  BY <1>1, Typed
<1>5. Wall(u) = D * Day + (Wall(u) % Day)
  BY <1>1, <1>3, Divide DEF Date
<1>6. Wall(t) = D * Day + (Wall(t) % Day) /\ Wall(t) % Day \in 0..(Day - 1)
  BY <1>1, <1>4, Divide DEF Date
<1>7. PICK o \in {0, zone.shift} :
        \A w \in Int, f \in {0, 1} :
          D * Day <= w /\ w < (D + 1) * Day =>
            /\ Utc(w, f) = w - o
            /\ \A v \in Int : Wall(v) = w => v = w - o
            /\ w - o >= 0 /\ Wall(w - o) = w
  BY OneOffset
<1>8. o \in Int /\ Fold(t) \in {0, 1}
  BY <1>1, Typed
<1>9. Wall(u) % Day \in 0..(Day - 1)
  BY <1>1, <1>3
<1>10. /\ D * Day <= Wall(u) /\ Wall(u) < (D + 1) * Day
       /\ D * Day <= Wall(t) /\ Wall(t) < (D + 1) * Day
  BY <1>1, <1>4, <1>5, <1>6, <1>9
<1>11. u = Wall(u) - o /\ t = Wall(t) - o
  BY <1>1, <1>3, <1>4, <1>7, <1>10
<1>12. Wall(u) \in Elapsed(p, t)
  <2>1. Wall(u) <= Wall(t)
    BY <1>3, <1>4, <1>8, <1>11, <1>1
  <2> QED BY <2>1, <1>3, <1>5 DEF Elapsed
<1>13. ASSUME NEW w \in Elapsed(p, t)
       PROVE  w <= Wall(u)
  <2>1. /\ w \in Int /\ w <= Wall(t) /\ D * Day <= w /\ w < (D + 1) * Day
        /\ w % Day \in Times[p]
    BY ElapsedTyped
  <2>2. w - o >= 0 /\ Wall(w - o) = w
    BY <2>1, <1>7
  <2>3. w - o <= t /\ w - o \in Int
    BY <2>1, <1>1, <1>4, <1>8, <1>11
  <2>4. w - o \in Instants
    BY <2>2, <2>3, SubmissionAssumption DEF Instants
  <2>5. w - o \in Shown(p, t)
    BY <2>1, <2>2, <2>3, <2>4 DEF Shown
  <2>6. w - o <= u
    BY <2>5, <1>2
  <2> QED BY <2>1, <2>6, <1>3, <1>8, <1>11
<1>14. Max(Elapsed(p, t)) = Wall(u)
  <2>1. Elapsed(p, t) \in SUBSET Int
    BY ElapsedTyped
  <2> QED BY <2>1, <1>12, <1>13, TopIsMax
<1>15. Utc(Wall(u), Fold(t)) = u
  BY <1>3, <1>7, <1>8, <1>10, <1>11
<1> QED BY <1>12, <1>14, <1>15 DEF SlotStamp

-----------------------------------------------------------------------------
(* The inductive invariant *)

Passes == [pc : {"down", "idle", "coverage", "enqueue", "claim", "run"}, at : Instants,
           listed : SUBSET Profiles, due : SUBSET [profile : Profiles, slot : Int], row : Nat]
Calls == [pc : {"unasked", "key", "enqueue", "answered"}, profile : Profiles \union {Min(Profiles)},
          key : [by : {"client"}, of : {0}, n : Nat], row : Nat]

\* What TypeOK leaves open of the locals of the threads.
LocalsInv ==
  /\ loop \in Passes /\ request \in [Requests -> Calls]
  /\ \A r \in Requests : request[r].pc \in {"key", "enqueue"} => request[r].profile \in Profiles

\* Rows are not ahead of the clock, and the scheduler's key says whose the row is.
RowInv ==
  /\ loop.at <= now
  /\ \A i \in DOMAIN queue :
       /\ queue[i].at <= now /\ queue[i].finished <= now
       /\ queue[i].key.by = "clock" => queue[i].key.of = queue[i].profile

\* Only the thread that runs has a running row; a dead process may have left some.
RunningInv ==
  loop.pc \notin {"run", "down"} => \A i \in Live : queue[i].status # "running"

\* A request is answered with a row that has its key.
AnswerInv ==
  \A r \in Requests :
    request[r].pc = "answered" =>
      request[r].row \in DOMAIN queue /\ queue[request[r].row].key = request[r].key

\* What made a profile due is still so when its turn comes: no run ends during a pass.
DueInv ==
  loop.pc = "enqueue" =>
    \A d \in loop.due :
      /\ Elapsed(d.profile, loop.at) # {}
      /\ d.slot = SlotStamp(d.profile, loop.at)
      /\ \A i \in Covers(d.profile) : queue[i].finished < LatestSlot(d.profile, loop.at) - Grace

\* What SlotAttended asks of a pass for p.
MustAttend(p) ==
  /\ profile[p] # "gone" /\ InGrace(p, loop.at) /\ PlainDay(loop.at)
  /\ Date(LastShown(p, loop.at)) = Date(loop.at)

\* A listed profile is attended to or still to come; a pass that is over has some still to
\* come only if the first of them was deleted.
PassInv ==
  /\ loop.pc = "claim" /\ loop.due # {} => profile[NextDue.profile] = "gone"
  /\ loop.pc \in {"enqueue", "claim"} =>
       \A p \in loop.listed :
         MustAttend(p) => Attended(p, loop.at) \/ \E d \in loop.due : d.profile = p

IInv ==
  /\ TypeOK /\ LocalsInv /\ RowInv /\ RunningInv /\ AnswerInv
  /\ DueInv /\ PassInv /\ CoveredNotRepeated

LEMMA Appending ==
  ASSUME TypeOK, NEW row \in RowType, Len(queue) < MaxRows, queue' = Append(queue, row)
  PROVE  /\ queue' \in Seq(RowType) /\ Len(queue') <= MaxRows
         /\ DOMAIN queue' = DOMAIN queue \union {Len(queue) + 1}
         /\ Len(queue) + 1 \notin DOMAIN queue /\ queue'[Len(queue) + 1] = row
         /\ \A i \in DOMAIN queue : queue'[i] = queue[i]
<1>1. queue \in Seq(RowType) /\ MaxRows \in Nat
  BY SubmissionAssumption DEF TypeOK
<1> QED BY <1>1

LEMMA Rewriting ==
  ASSUME TypeOK, NEW rows \in [DOMAIN queue -> RowType], queue' = rows
  PROVE  queue' \in Seq(RowType) /\ Len(queue') = Len(queue) /\ DOMAIN queue' = DOMAIN queue
<1>1. queue \in Seq(RowType) /\ Len(queue) \in Nat /\ DOMAIN queue = 1..Len(queue)
  BY DEF TypeOK
<1> QED BY <1>1

LEMMA RowTyped ==
  ASSUME TypeOK, NEW i \in DOMAIN queue
  PROVE  /\ queue[i] \in RowType
         /\ queue[i] = [key |-> queue[i].key, profile |-> queue[i].profile, status |-> queue[i].status,
                        at |-> queue[i].at, finished |-> queue[i].finished]
         /\ queue[i].key.by \in {"clock", "client"} /\ queue[i].profile \in Profiles
         /\ queue[i].status \in Statuses /\ queue[i].at \in Instants /\ queue[i].at \in Int
         /\ queue[i].finished \in Int /\ queue[i].finished \in Instants \union {Never}
<1>1. queue[i] \in RowType
  BY DEF TypeOK
<1> QED BY <1>1 DEF RowType, Instants, Never

\* Marking rows with another status and time keeps them rows.
LEMMA Marked ==
  ASSUME TypeOK, NEW i \in DOMAIN queue, NEW s \in Statuses, NEW n \in Instants \union {Never}
  PROVE  /\ [queue[i] EXCEPT !.status = s] \in RowType
         /\ [queue[i] EXCEPT !.status = s, !.finished = n] \in RowType
  BY RowTyped DEF RowType

LEMMA NextIsDue ==
  ASSUME LocalsInv, loop.due # {}
  PROVE  NextDue \in loop.due /\ NextDue.profile \in Profiles /\ NextDue.slot \in Int
<1> DEFINE S == {d.profile : d \in loop.due}
<1>1. \A d \in loop.due : d.profile \in Profiles /\ d.slot \in Int
  BY DEF LocalsInv, Passes
<1>2. S \in SUBSET Nat /\ S # {}
  BY <1>1, SubmissionAssumption
<1>3. PICK x \in S : \A y \in S : x <= y
  BY <1>2, LeastNumber
<1>4. \E d \in loop.due : \A e \in loop.due : d.profile <= e.profile
  BY <1>3
<1>5. NextDue \in loop.due
  BY <1>4 DEF NextDue
<1> QED BY <1>1, <1>5

-----------------------------------------------------------------------------
(* What one step does to the rows *)

\* No step takes a row away, changes what it is for, revives it or takes its coverage
\* back; only the thread that runs covers a row, and it does so now.
OldRows ==
  \A i \in DOMAIN queue :
    /\ i \in DOMAIN queue'
    /\ queue'[i].key = queue[i].key /\ queue'[i].profile = queue[i].profile
    /\ queue'[i].at = queue[i].at
    /\ queue[i].status = "deleted" => queue'[i].status = "deleted"
    /\ queue'[i].status = "deleted" => queue[i].status = "deleted" \/ profile'[queue[i].profile] = "gone"
    /\ \/ /\ queue'[i].finished = queue[i].finished
          /\ queue'[i].status = "covered" => queue[i].status = "covered"
          /\ queue[i].status = "covered" /\ profile'[queue[i].profile] # "gone" => queue'[i].status = "covered"
       \/ loop.pc = "run" /\ queue[i].status = "running" /\ queue'[i].finished = now
    /\ \/ queue'[i].status = queue[i].status
       \/ queue[i].status \notin {"queued", "running"} /\ queue'[i].status = "deleted"
       \/ Boot \/ ClaimNext \/ FinishRun

\* A step adds at most one row, under a key that no other has: that of a request, now, or
\* that of a due profile, at the time of the pass.
NewRows ==
  \A i \in DOMAIN queue' \ DOMAIN queue :
    /\ i = Len(queue) + 1
    /\ queue'[i].status = "queued" /\ queue'[i].finished = Never
    /\ \A j \in Live : queue[j].key # queue'[i].key
    /\ \/ queue'[i].key.by = "client" /\ queue'[i].at = now
       \/ /\ loop.pc = "enqueue" /\ queue'[i].at = loop.at
          /\ \E d \in loop.due : /\ queue'[i].key = ClockKey(d.profile, d.slot)
                                 /\ queue'[i].profile = d.profile

Rows ==
  /\ queue' \in Seq(RowType) /\ Len(queue') <= MaxRows
  /\ OldRows /\ NewRows

LEMMA SameRows ==
  ASSUME TypeOK, UNCHANGED queue
  PROVE  Rows
  BY DEF TypeOK, Rows, OldRows, NewRows

\* enqueue, for the request or the due profile of the caller.
LEMMA InsertedRows ==
  ASSUME TypeOK, NEW key \in [by : {"clock", "client"}, of : Nat, n : Int], NEW p \in Profiles,
         NEW at \in Instants, NEW id \in Ids, Inserted(key, p, at, id),
         \/ key.by = "client" /\ at = now
         \/ loop.pc = "enqueue" /\ at = loop.at
            /\ \E d \in loop.due : key = ClockKey(d.profile, d.slot) /\ p = d.profile
  PROVE  Rows /\ id \in DOMAIN queue' /\ queue'[id].key = key /\ queue'[id].status # "deleted"
<1>1. CASE ByKey(key) # {} /\ id \in ByKey(key) /\ UNCHANGED queue
  BY <1>1, SameRows DEF ByKey, Live
<1>2. CASE /\ ByKey(key) = {} /\ Len(queue) < MaxRows
           /\ queue' = Append(queue, Row(key, p, at)) /\ id = Len(queue) + 1
  <2> DEFINE row == Row(key, p, at)
  <2>1. row \in RowType /\ row.status = "queued" /\ row.finished = Never /\ row.key = key
        /\ row.at = at /\ row.profile = p
    BY DEF Row, RowType, Statuses
  <2> HIDE DEF row
  <2>2. /\ queue' \in Seq(RowType) /\ Len(queue') <= MaxRows
        /\ DOMAIN queue' = DOMAIN queue \union {Len(queue) + 1}
        /\ queue'[Len(queue) + 1] = row
        /\ \A i \in DOMAIN queue : queue'[i] = queue[i]
    BY <1>2, <2>1, Appending DEF row
  <2>3. OldRows
    BY <2>2 DEF OldRows
  <2>4. \A j \in Live : queue[j].key # key
    BY <1>2 DEF ByKey
  <2>5. NewRows
    BY <2>1, <2>2, <2>4 DEF NewRows
  <2> QED BY <1>2, <2>1, <2>2, <2>3, <2>5 DEF Rows
<1> QED BY <1>1, <1>2 DEF Inserted

LEMMA ScheduledRows ==
  ASSUME IInv, EnqueueDue
  PROVE  Rows /\ \E id \in DOMAIN queue' : /\ queue'[id].key = ClockKey(NextDue.profile, NextDue.slot)
                                           /\ queue'[id].status # "deleted"
<1>1. PICK id \in Ids :
        Inserted(ClockKey(NextDue.profile, NextDue.slot), NextDue.profile, loop.at, id)
  BY DEF EnqueueDue
<1>2. NextDue \in loop.due /\ NextDue.profile \in Profiles /\ NextDue.slot \in Int
  BY NextIsDue DEF IInv, EnqueueDue
<1>3. ClockKey(NextDue.profile, NextDue.slot) \in [by : {"clock", "client"}, of : Nat, n : Int]
  BY <1>2, SubmissionAssumption DEF ClockKey
<1>4. loop.pc = "enqueue" /\ loop.at \in Instants
  BY DEF EnqueueDue, IInv, LocalsInv, Passes
<1> QED BY <1>1, <1>2, <1>3, <1>4, InsertedRows DEF IInv

LEMMA RequestedRows ==
  ASSUME IInv, NEW r \in Requests, EnqueueManual(r)
  PROVE  Rows /\ (request'[r].pc = "answered" =>
                    request'[r].row \in DOMAIN queue' /\ queue'[request'[r].row].key = request'[r].key)
<1>1. request[r] \in Calls /\ request[r].profile \in Profiles /\ request[r].key.by = "client"
      /\ request[r].key \in [by : {"clock", "client"}, of : Nat, n : Int]
  BY DEF IInv, LocalsInv, EnqueueManual, Calls
<1>2. now \in Instants /\ TypeOK
  BY DEF IInv, TypeOK
<1>3. ASSUME NEW id \in Ids, Inserted(request[r].key, request[r].profile, now, id), Answers(r, id)
      PROVE  Rows /\ id \in DOMAIN queue' /\ queue'[id].key = request[r].key /\ request'[r].row = id
             /\ request'[r].key = request[r].key
  <2>1. Rows /\ id \in DOMAIN queue' /\ queue'[id].key = request[r].key
    BY <1>1, <1>2, <1>3, InsertedRows
  <2> QED BY <2>1, <1>1, <1>3 DEF Answers, IInv, LocalsInv, Calls
<1>4. CASE Fails(r) /\ UNCHANGED queue
  BY <1>4, <1>2, SameRows DEF Fails, Unasked, IInv, LocalsInv
<1> QED BY <1>3, <1>4 DEF EnqueueManual

LEMMA RewrittenRows ==
  ASSUME IInv,
         \/ \E p \in Profiles : DeleteProfile(p)
         \/ Boot \/ ClaimNext \/ FinishRun
  PROVE  Rows /\ DOMAIN queue' = DOMAIN queue
<1> USE DEF IInv
<1>1. ASSUME NEW p \in Profiles, DeleteProfile(p) PROVE Rows /\ DOMAIN queue' = DOMAIN queue
  <2> DEFINE f == [i \in DOMAIN queue |->
                 IF queue[i].profile = p THEN [queue[i] EXCEPT !.status = "deleted"] ELSE queue[i]]
  <2>1. \A i \in DOMAIN queue : f[i] \in RowType
    BY Marked, RowTyped DEF Statuses
  <2>2. queue' \in Seq(RowType) /\ Len(queue') = Len(queue) /\ DOMAIN queue' = DOMAIN queue
    BY <1>1, <2>1, Rewriting DEF DeleteProfile
  <2>3. profile' = [profile EXCEPT ![p] = "gone"] /\ p \in DOMAIN profile
    BY <1>1 DEF DeleteProfile, TypeOK
  <2>4. OldRows
    BY <1>1, <2>2, <2>3, RowTyped DEF OldRows, DeleteProfile, Live
  <2> QED BY <2>2, <2>4 DEF Rows, NewRows, TypeOK
<1>2. CASE Boot
  <2> DEFINE f == [i \in DOMAIN queue |->
                 IF queue[i].status = "running" THEN [queue[i] EXCEPT !.status = "queued"]
                 ELSE queue[i]]
  <2>1. \A i \in DOMAIN queue : f[i] \in RowType
    BY Marked, RowTyped DEF Statuses
  <2>2. queue' \in Seq(RowType) /\ Len(queue') = Len(queue) /\ DOMAIN queue' = DOMAIN queue
    BY <1>2, <2>1, Rewriting DEF Boot
  <2>3. OldRows
    <3>1. Boot /\ \A i \in DOMAIN queue : queue'[i] = f[i]
      BY <1>2 DEF Boot
    <3> QED BY <3>1, <2>2, RowTyped DEF OldRows
  <2> QED BY <2>2, <2>3 DEF Rows, NewRows, TypeOK
<1>3. CASE ClaimNext
  <2>1. CASE UNCHANGED queue
    BY <2>1, SameRows
  <2>2. ASSUME NEW i \in Queued, queue' = [queue EXCEPT ![i].status = "running"]
        PROVE  Rows /\ DOMAIN queue' = DOMAIN queue
    <3>1. i \in DOMAIN queue /\ queue[i].status = "queued"
      BY <2>2 DEF Queued, Live
    <3>2. [queue[i] EXCEPT !.status = "running"] \in RowType
      BY <3>1, Marked DEF Statuses
    <3>3. queue' \in [DOMAIN queue -> RowType] /\ queue'[i] = [queue[i] EXCEPT !.status = "running"]
          /\ \A j \in DOMAIN queue \ {i} : queue'[j] = queue[j]
      BY <2>2, <3>1, <3>2, RowTyped DEF TypeOK
    <3>4. queue' \in Seq(RowType) /\ Len(queue') = Len(queue) /\ DOMAIN queue' = DOMAIN queue
      BY <3>3, Rewriting
    <3>5. OldRows
      BY <1>3, <3>1, <3>3, <3>4, RowTyped DEF OldRows
    <3> QED BY <3>4, <3>5 DEF Rows, NewRows, TypeOK
  <2> QED BY <1>3, <2>1, <2>2 DEF ClaimNext
<1>4. CASE FinishRun
  <2>1. PICK s \in {"failed", "covered"} :
          queue' = [queue EXCEPT ![loop.row].status = s, ![loop.row].finished = now]
    BY <1>4 DEF FinishRun
  <2> DEFINE i == loop.row  done == [queue[i] EXCEPT !.status = s, !.finished = now]
  <2>2. i \in DOMAIN queue /\ queue[i].status = "running" /\ now \in Instants
    BY <1>4 DEF FinishRun, TypeOK, Live
  <2>3. done \in RowType
    BY <2>2, Marked DEF Statuses
  <2>4. queue' \in [DOMAIN queue -> RowType] /\ queue'[i] = done
        /\ \A j \in DOMAIN queue \ {i} : queue'[j] = queue[j]
    BY <2>1, <2>2, <2>3, RowTyped DEF TypeOK
  <2>5. queue' \in Seq(RowType) /\ Len(queue') = Len(queue) /\ DOMAIN queue' = DOMAIN queue
    BY <2>4, Rewriting
  <2>6. /\ done.key = queue[i].key /\ done.profile = queue[i].profile /\ done.at = queue[i].at
        /\ done.finished = now /\ done.status = s /\ loop.pc = "run"
    <3>1. loop.pc = "run"
      BY <1>4 DEF FinishRun
    <3>2. queue[i] \in RowType
      BY <2>2, RowTyped
    <3>3. /\ done.key = queue[i].key /\ done.profile = queue[i].profile /\ done.at = queue[i].at
          /\ done.finished = now /\ done.status = s
      <4> HIDE DEF i, IInv
      <4> QED BY <3>2 DEF RowType, done
    <3> QED BY <3>1, <3>3
  <2>7. OldRows
    <3> HIDE DEF i, done
    <3>1. ASSUME NEW j \in DOMAIN queue \ {i}
          PROVE  queue'[j] = queue[j]
      BY <2>4
    <3> QED BY <1>4, <2>2, <2>4, <2>5, <2>6, <3>1 DEF OldRows
  <2> QED BY <2>5, <2>7 DEF Rows, NewRows, TypeOK
<1> QED BY <1>1, <1>2, <1>3, <1>4

\* The rows after any step.
LEMMA StepRows ==
  ASSUME IInv, [Next]_vars
  PROVE  Rows
<1>1. CASE EnqueueDue
  BY <1>1, ScheduledRows
<1>2. CASE \E r \in Requests : EnqueueManual(r)
  BY <1>2, RequestedRows
<1>3. CASE (\E p \in Profiles : DeleteProfile(p)) \/ Boot \/ ClaimNext \/ FinishRun
  BY <1>3, RewrittenRows
<1>4. CASE UNCHANGED queue
  BY <1>4, SameRows DEF IInv
<1> QED BY <1>1, <1>2, <1>3, <1>4
        DEF Next, vars, Tick, Crash, SetEnabled, ListProfiles, ReadCoverage, ScheduleRaises, Scheduled, Ask, LookUpKey

-----------------------------------------------------------------------------
(* The types *)

LEMMA WorldStep ==
  ASSUME IInv, [Next]_vars
  PROVE  /\ now' \in Instants /\ now <= now' /\ now \in Int /\ now' \in Int
         /\ zone' = zone /\ zone \in Zones
         /\ profile' \in [Profiles -> {"enabled", "paused", "gone"}]
         /\ upsets' \in 0..MaxUpsets
         /\ \A p \in Profiles : profile[p] = "gone" => profile'[p] = "gone"
<1>1. now \in Instants /\ zone \in Zones /\ upsets \in 0..MaxUpsets /\ Horizon \in Nat
      /\ profile \in [Profiles -> {"enabled", "paused", "gone"}] /\ MaxUpsets \in Nat
  BY SubmissionAssumption DEF IInv, TypeOK
<1>2. now' = now \/ Tick
  BY DEF Next, vars, Tick, Crash, Boot, SetEnabled, DeleteProfile, ListProfiles, ReadCoverage,
     EnqueueDue, ScheduleRaises, Scheduled, ClaimNext, FinishRun, Ask, LookUpKey, EnqueueManual
<1>3. zone' = zone
  BY DEF Next, vars, Tick, Crash, Boot, SetEnabled, DeleteProfile, ListProfiles, ReadCoverage,
     EnqueueDue, ScheduleRaises, Scheduled, ClaimNext, FinishRun, Ask, LookUpKey, EnqueueManual
<1>4. upsets' = upsets \/ (upsets < MaxUpsets /\ upsets' = upsets + 1)
  BY DEF Next, vars, Tick, Crash, Boot, SetEnabled, DeleteProfile, ListProfiles, ReadCoverage,
     EnqueueDue, ScheduleRaises, Scheduled, ClaimNext, FinishRun, Ask, LookUpKey, EnqueueManual
<1>5. \/ UNCHANGED profile
      \/ \E p \in Profiles : profile[p] # "gone"
           /\ \E to \in {"enabled", "paused", "gone"} : profile' = [profile EXCEPT ![p] = to]
  BY DEF Next, vars, Tick, Crash, Boot, SetEnabled, DeleteProfile, ListProfiles, ReadCoverage,
     EnqueueDue, ScheduleRaises, Scheduled, ClaimNext, FinishRun, Ask, LookUpKey, EnqueueManual
<1>6. now' \in Instants /\ now <= now' /\ now \in Int /\ now' \in Int
  BY <1>1, <1>2 DEF Tick, Instants
<1>7. upsets' \in 0..MaxUpsets
  BY <1>1, <1>4
<1> QED BY <1>1, <1>3, <1>5, <1>6, <1>7

LEMMA Claims ==
  ASSUME ClaimNext
  PROVE  loop' = Idle \/ \E i : loop' = [pc |-> "run", at |-> 0, listed |-> {}, due |-> {}, row |-> i]
<1>1. ASSUME NEW i \in Queued, loop' = [Idle EXCEPT !.pc = "run", !.row = i]
      PROVE  loop' = [pc |-> "run", at |-> 0, listed |-> {}, due |-> {}, row |-> i]
  BY <1>1 DEF Idle
<1> QED BY <1>1 DEF ClaimNext

LEMMA ThreadStep ==
  ASSUME IInv, [Next]_vars
  PROVE  loop' \in Passes
<1> USE DEF IInv
<1>0. loop \in Passes /\ now \in Instants /\ zone \in Zones
  BY DEF LocalsInv, TypeOK
<1>1. Idle \in Passes /\ Down \in Passes
  BY SubmissionAssumption DEF Idle, Down, Passes, NoRow, Instants
<1>2. CASE ListProfiles \/ ReadCoverage
  <2>1. CASE ListProfiles
    <3>1. {p \in Profiles : profile[p] = "enabled"} \in SUBSET Profiles
      OBVIOUS
    <3> QED BY <1>0, <2>1, <3>1 DEF ListProfiles, Passes
  <2>2. CASE ReadCoverage
    <3>1. loop.listed \in SUBSET Profiles /\ loop.at \in Instants
      BY <1>0 DEF Passes
    <3>2. \A p \in loop.listed : Due(p, loop.at) => SlotStamp(p, loop.at) \in Int
      BY <1>0, <3>1, SlotTyped DEF Due
    <3>3. {[profile |-> p, slot |-> SlotStamp(p, loop.at)] :
              p \in {q \in loop.listed : Due(q, loop.at)}} \in SUBSET [profile : Profiles, slot : Int]
      BY <3>1, <3>2
    <3> QED BY <1>0, <2>2, <3>3 DEF ReadCoverage, Passes
  <2> QED BY <1>2, <2>1, <2>2
<1>3. CASE EnqueueDue
  BY <1>0, <1>3 DEF EnqueueDue, Passes
<1>4. CASE ScheduleRaises
  BY <1>0, <1>4 DEF ScheduleRaises, Passes
<1>5. CASE Scheduled
  BY <1>0, <1>5 DEF Scheduled, Passes
<1>6. CASE ClaimNext
  <2>1. ASSUME NEW i \in Queued, loop' = [Idle EXCEPT !.pc = "run", !.row = i]
        PROVE  loop' \in Passes
    <3>1. i \in Nat
      BY DEF Queued, Live, TypeOK
    <3>2. 0 \in Instants
      BY SubmissionAssumption DEF Instants
    <3>3. loop' = [pc |-> "run", at |-> 0, listed |-> {}, due |-> {}, row |-> i]
      BY <2>1 DEF Idle
    <3> HIDE DEF IInv
    <3> QED BY <3>1, <3>2, <3>3 DEF Passes
  <2> QED BY <1>1, <1>6, <2>1 DEF ClaimNext
<1>7. CASE FinishRun \/ Boot \/ Crash
  BY <1>1, <1>7 DEF FinishRun, Boot, Crash
<1>8. CASE UNCHANGED loop
  BY <1>0, <1>8
<1> QED BY <1>2, <1>3, <1>4, <1>5, <1>6, <1>7, <1>8
        DEF Next, vars, Tick, SetEnabled, DeleteProfile, Ask, LookUpKey, EnqueueManual

\* A request keeps its shape, and an answer names a row that has its key.
LEMMA CallStep ==
  ASSUME IInv, [Next]_vars
  PROVE  /\ request' \in [Requests -> Calls]
         /\ \A r \in Requests :
              /\ request'[r].pc \in {"key", "enqueue"} => request'[r].profile \in Profiles
              /\ request'[r].row \in DOMAIN queue' \union {NoRow}
         /\ AnswerInv'
<1> DEFINE Good(c) == /\ c \in Calls
                      /\ c.pc \in {"key", "enqueue"} => c.profile \in Profiles
                      /\ c.row \in DOMAIN queue' \union {NoRow}
                      /\ c.pc = "answered" => c.row \in DOMAIN queue' /\ queue'[c.row].key = c.key
<1>1. /\ TypeOK /\ LocalsInv /\ AnswerInv /\ RowInv /\ OldRows /\ request \in [Requests -> Calls]
      /\ DOMAIN queue \subseteq Nat
  BY StepRows DEF IInv, Rows, LocalsInv, TypeOK
<1>2. ASSUME NEW r \in Requests PROVE Good(request[r])
  BY <1>1 DEF TypeOK, LocalsInv, AnswerInv, OldRows
<1>3. Good(Unasked)
  BY DEF Unasked, Calls, ClientKey, NoRow
<1>4. ASSUME NEW r \in Requests, NEW c, Good(c), request' = [request EXCEPT ![r] = c]
      PROVE  request' \in [Requests -> Calls] /\ \A q \in Requests : Good(request'[q])
  <2>1. \A q \in Requests : request'[q] = IF q = r THEN c ELSE request[q]
    BY <1>1, <1>4
  <2>2. c \in Calls
    BY <1>4
  <2> HIDE DEF Good
  <2> QED BY <1>1, <1>2, <1>4, <2>1, <2>2
<1>5. CASE UNCHANGED request
  <2>1. request' \in [Requests -> Calls] /\ \A q \in Requests : Good(request'[q])
    BY <1>1, <1>2, <1>5
  <2> QED BY <2>1 DEF AnswerInv
<1>6. CASE Crash
  <2>1. request' \in [Requests -> Calls] /\ \A q \in Requests : Good(request'[q])
    <3>1. Unasked \in Calls
      BY <1>3
    <3>2. request' = [r \in Requests |->
                        IF request[r].pc \in {"key", "enqueue"} THEN Unasked ELSE request[r]]
      BY <1>6 DEF Crash
    <3> HIDE DEF Good
    <3> QED BY <1>1, <1>2, <1>3, <3>1, <3>2
  <2> QED BY <2>1 DEF AnswerInv
<1>7. ASSUME NEW r \in Requests, Ask(r) \/ LookUpKey(r) \/ EnqueueManual(r)
      PROVE  request' \in [Requests -> Calls] /\ \A q \in Requests : Good(request'[q])
  <2>1. CASE Ask(r)
    <3>1. PICK p \in Profiles, k \in ClientKeys :
            request' = [request EXCEPT ![r] =
                          [pc |-> "key", profile |-> p, key |-> ClientKey(k), row |-> NoRow]]
      BY <2>1 DEF Ask
    <3>2. Good([pc |-> "key", profile |-> p, key |-> ClientKey(k), row |-> NoRow])
      BY SubmissionAssumption DEF Calls, ClientKey, NoRow
    <3> QED BY <3>1, <3>2, <1>4
  <2>2. CASE LookUpKey(r)
    <3>1. request[r] \in Calls /\ request[r].profile \in Profiles /\ queue' = queue
          /\ request[r].row \in DOMAIN queue' \union {NoRow}
      BY <1>1, <1>2, <2>2 DEF LookUpKey, LocalsInv
    <3>2. CASE Goes(r, "enqueue")
      <4>1. Good([request[r] EXCEPT !.pc = "enqueue"])
        BY <3>1 DEF Calls
      <4> QED BY <1>4, <3>2, <4>1 DEF Goes
    <3>3. CASE Fails(r)
      BY <1>3, <1>4, <3>3 DEF Fails
    <3>4. ASSUME NEW i \in ByKey(request[r].key), Answers(r, i)
          PROVE  request' \in [Requests -> Calls] /\ \A q \in Requests : Good(request'[q])
      <4>1. i \in DOMAIN queue' /\ i \in Nat /\ queue'[i].key = request[r].key
        BY <1>1, <3>1, <3>4 DEF ByKey, Live
      <4>2. Good([request[r] EXCEPT !.pc = "answered", !.row = i])
        BY <3>1, <4>1 DEF Calls
      <4>3. request' = [request EXCEPT ![r] = [request[r] EXCEPT !.pc = "answered", !.row = i]]
        BY <1>1, <3>4 DEF Answers
      <4> QED BY <1>4, <4>2, <4>3
    <3> QED BY <2>2, <3>2, <3>3, <3>4 DEF LookUpKey
  <2>3. CASE EnqueueManual(r)
    <3>1. request[r] \in Calls /\ request[r].profile \in Profiles
      BY <1>1, <1>2, <2>3 DEF EnqueueManual, LocalsInv
    <3>2. request'[r].pc = "answered" =>
            request'[r].row \in DOMAIN queue' /\ queue'[request'[r].row].key = request'[r].key
      BY <2>3, RequestedRows
    <3>3. CASE Fails(r)
      BY <1>3, <1>4, <3>3 DEF Fails
    <3>4. ASSUME NEW id \in Ids, Answers(r, id)
          PROVE  request' \in [Requests -> Calls] /\ \A q \in Requests : Good(request'[q])
      <4> DEFINE c == [request[r] EXCEPT !.pc = "answered", !.row = id]
      <4>1. request' = [request EXCEPT ![r] = c]
        BY <1>1, <3>4 DEF Answers
      <4>2. request'[r] = c
        BY <1>1, <4>1
      <4>3. c \in Calls /\ c.pc = "answered"
        <5>1. id \in Nat
          BY DEF Ids
        <5> HIDE DEF IInv
        <5> QED BY <3>1, <5>1 DEF Calls
      <4>4. Good(c)
        <5> HIDE DEF c
        <5> QED BY <3>2, <4>2, <4>3
      <4> HIDE DEF c
      <4> QED BY <1>4, <4>1, <4>4
    <3> QED BY <2>3, <3>3, <3>4 DEF EnqueueManual
  <2> QED BY <1>7, <2>1, <2>2, <2>3
<1>8. CASE \E r \in Requests : Ask(r) \/ LookUpKey(r) \/ EnqueueManual(r)
  <2>1. request' \in [Requests -> Calls] /\ \A q \in Requests : Good(request'[q])
    BY <1>7, <1>8
  <2> QED BY <2>1 DEF AnswerInv
<1> QED BY <1>5, <1>6, <1>8
        DEF Next, vars, Tick, Boot, SetEnabled, DeleteProfile, ListProfiles, ReadCoverage, EnqueueDue,
            ScheduleRaises, Scheduled, ClaimNext, FinishRun

\* uq_run_queue_idempotency_key: a row is added only under a key that no other has.
LEMMA KeysStep ==
  ASSUME IInv, Rows
  PROVE  \A i, j \in Live' : queue'[i].key = queue'[j].key => i = j
<1>1. \A i, j \in Live : queue[i].key = queue[j].key => i = j
  BY DEF IInv, TypeOK
<1>2. ASSUME NEW i \in Live', i \in DOMAIN queue
      PROVE  i \in Live /\ queue'[i].key = queue[i].key
  BY <1>2 DEF Rows, OldRows, Live
<1>3. ASSUME NEW i \in Live', i \notin DOMAIN queue
      PROVE  i = Len(queue) + 1 /\ \A j \in Live : queue[j].key # queue'[i].key
  BY <1>3 DEF Rows, NewRows, Live
<1> QED BY <1>1, <1>2, <1>3

\* But for the steps that are about the running row, the same rows read running.
LEMMA SameRunning ==
  ASSUME IInv, Rows, ~ Boot, ~ ClaimNext, ~ FinishRun
  PROVE  {i \in Live' : queue'[i].status = "running"} = {i \in Live : queue[i].status = "running"}
<1>1. ASSUME NEW i \in Live', queue'[i].status = "running"
      PROVE  i \in Live /\ queue[i].status = "running"
  BY <1>1 DEF Rows, OldRows, NewRows, Live
<1>2. ASSUME NEW i \in Live, queue[i].status = "running"
      PROVE  i \in Live' /\ queue'[i].status = "running"
  BY <1>2 DEF Rows, OldRows, Live
<1> QED BY <1>1, <1>2

LEMMA RunningStep ==
  ASSUME IInv, [Next]_vars
  PROVE  /\ loop'.pc = "run" => {i \in Live' : queue'[i].status = "running"} = {loop'.row}
         /\ RunningInv'
<1>1. /\ TypeOK /\ LocalsInv /\ RunningInv /\ Rows /\ loop \in Passes
      /\ loop.pc = "run" => {i \in Live : queue[i].status = "running"} = {loop.row}
  BY StepRows DEF IInv, LocalsInv, TypeOK
<1>2. CASE Boot
  BY <1>1, <1>2 DEF Boot, Idle, RunningInv, Live, TypeOK
<1>3. CASE ClaimNext
  <2>1. \A i \in Live : queue[i].status # "running"
    BY <1>1, <1>3 DEF RunningInv, ClaimNext
  <2>2. CASE loop' = Idle /\ UNCHANGED queue
    BY <2>1, <2>2 DEF Idle, RunningInv, Live
  <2>3. ASSUME NEW i \in Queued, queue' = [queue EXCEPT ![i].status = "running"],
               loop' = [Idle EXCEPT !.pc = "run", !.row = i]
        PROVE  /\ loop'.pc = "run" /\ loop'.row = i
               /\ {j \in Live' : queue'[j].status = "running"} = {i}
    <3>1. loop'.pc = "run" /\ loop'.row = i
      BY <2>3 DEF Idle
    <3>2. i \in DOMAIN queue /\ queue[i] \in RowType /\ DOMAIN queue' = DOMAIN queue
      BY <1>1, <2>3, RowTyped DEF Queued, Live
    <3>3. queue'[i].status = "running" /\ \A j \in DOMAIN queue \ {i} : queue'[j] = queue[j]
      BY <2>3, <3>2 DEF RowType
    <3> QED BY <2>1, <3>1, <3>2, <3>3 DEF Live
  <2> QED BY <1>3, <2>2, <2>3 DEF ClaimNext, RunningInv
<1>4. CASE FinishRun
  <2>1. PICK s \in {"failed", "covered"} :
          queue' = [queue EXCEPT ![loop.row].status = s, ![loop.row].finished = now]
    BY <1>4 DEF FinishRun
  <2> DEFINE i == loop.row
  <2>2. i \in DOMAIN queue /\ \A j \in Live \ {i} : queue[j].status # "running"
    BY <1>1, <1>4 DEF FinishRun, Live
  <2>3. queue[i] \in RowType /\ DOMAIN queue' = DOMAIN queue
    BY <1>1, <2>1, <2>2, RowTyped
  <2>4. queue'[i].status = s /\ \A j \in DOMAIN queue \ {i} : queue'[j] = queue[j]
    <3> HIDE DEF i
    <3> QED BY <2>1, <2>2, <2>3 DEF RowType, i
  <2>5. loop' = Idle
    BY <1>4 DEF FinishRun
  <2> HIDE DEF i
  <2> QED BY <2>2, <2>3, <2>4, <2>5 DEF Live, RunningInv, Idle
<1>5. CASE ~ Boot /\ ~ ClaimNext /\ ~ FinishRun
  <2>1. {i \in Live' : queue'[i].status = "running"} = {i \in Live : queue[i].status = "running"}
    BY <1>1, <1>5, SameRunning
  <2>2. \/ loop' = loop
        \/ /\ loop.pc \in {"idle", "coverage", "enqueue"}
           /\ loop'.pc \in {"coverage", "enqueue", "claim"}
        \/ loop'.pc = "down"
    BY <1>1, <1>5 DEF Next, vars, Tick, Crash, SetEnabled, DeleteProfile, ListProfiles, ReadCoverage, EnqueueDue,
       ScheduleRaises, Scheduled, Ask, LookUpKey, EnqueueManual, Passes, Idle, Down
  <2> QED BY <1>1, <2>1, <2>2 DEF RunningInv
<1> QED BY <1>2, <1>3, <1>4, <1>5

\* The types, and the uniqueness of keys and of the running row, are kept by every step.
LEMMA TypeStep ==
  ASSUME IInv, [Next]_vars
  PROVE  TypeOK' /\ LocalsInv' /\ RunningInv' /\ AnswerInv'
<1>1. Rows
  BY StepRows
<1>2. queue' \in Seq(RowType) /\ Len(queue') <= MaxRows
  BY <1>1 DEF Rows
<1>3. loop' \in Passes /\ loop'.pc \in {"down", "idle", "coverage", "enqueue", "claim", "run"}
  BY ThreadStep DEF Passes
<1>4. \A r \in Requests : request'[r].pc \in {"unasked", "key", "enqueue", "answered"}
  BY CallStep DEF Calls
<1> QED BY <1>1, <1>2, <1>3, <1>4, WorldStep, CallStep, KeysStep, RunningStep DEF TypeOK, LocalsInv

-----------------------------------------------------------------------------
(* Slots and coverage *)

\* Nothing moves the change of the clock.
LEMMA SameClock ==
  ASSUME zone' = zone, NEW p, NEW t
  PROVE  /\ Elapsed(p, t)' = Elapsed(p, t)
         /\ SlotStamp(p, t)' = SlotStamp(p, t) /\ LatestSlot(p, t)' = LatestSlot(p, t)
         /\ PlainDay(t)' = PlainDay(t) /\ Date(t)' = Date(t)
         /\ Shown(p, t)' = Shown(p, t) /\ LastShown(p, t)' = LastShown(p, t)
         /\ InGrace(p, t)' = InGrace(p, t)
  BY DEF Elapsed, SlotStamp, LatestSlot, PlainDay, Date, Shown, LastShown, InGrace, Wall, Utc, Fold

LEMMA RowsStep ==
  ASSUME IInv, [Next]_vars
  PROVE  RowInv'
<1>1. Rows /\ TypeOK /\ LocalsInv /\ RowInv /\ now <= now' /\ now \in Int /\ now' \in Int /\ now \in Nat
  BY StepRows, WorldStep, SubmissionAssumption DEF IInv, TypeOK, Instants
<1>2. loop.at \in Int /\ loop.at <= now
  BY <1>1 DEF LocalsInv, Passes, RowInv, Instants
<1>3. loop'.at \in {loop.at, now, 0}
  <2>1. loop \in Passes
    BY <1>1 DEF LocalsInv
  <2>2. CASE ListProfiles
    BY <2>1, <2>2 DEF ListProfiles, Passes
  <2>3. CASE ReadCoverage \/ EnqueueDue \/ ScheduleRaises \/ Scheduled
    BY <2>1, <2>3 DEF ReadCoverage, EnqueueDue, ScheduleRaises, Scheduled, Passes
  <2>4. CASE FinishRun \/ Boot \/ Crash
    BY <2>4 DEF FinishRun, Boot, Crash, Idle, Down
  <2>5. CASE ClaimNext
    <3>1. loop' = Idle \/ \E i : loop' = [pc |-> "run", at |-> 0, listed |-> {}, due |-> {}, row |-> i]
      BY <2>5, Claims
    <3> QED BY <3>1 DEF Idle
  <2>6. CASE UNCHANGED loop
    BY <2>6
  <2> QED BY <2>2, <2>3, <2>4, <2>5, <2>6
          DEF Next, vars, Tick, SetEnabled, DeleteProfile, Ask, LookUpKey, EnqueueManual
<1>4. ASSUME NEW i \in DOMAIN queue', i \in DOMAIN queue
      PROVE  /\ queue'[i].at <= now' /\ queue'[i].finished <= now'
             /\ queue'[i].key.by = "clock" => queue'[i].key.of = queue'[i].profile
  <2>1. /\ queue[i].at <= now /\ queue[i].finished <= now
        /\ queue[i].at \in Int /\ queue[i].finished \in Int
        /\ queue[i].key.by = "clock" => queue[i].key.of = queue[i].profile
    BY <1>1, <1>4, RowTyped DEF RowInv
  <2>2. /\ queue'[i].key = queue[i].key /\ queue'[i].profile = queue[i].profile
        /\ queue'[i].at = queue[i].at /\ queue'[i].finished \in {queue[i].finished, now}
    BY <1>1, <1>4 DEF Rows, OldRows
  <2> QED BY <1>1, <2>1, <2>2
<1>5. ASSUME NEW i \in DOMAIN queue', i \notin DOMAIN queue
      PROVE  /\ queue'[i].at <= now' /\ queue'[i].finished <= now'
             /\ queue'[i].key.by = "clock" => queue'[i].key.of = queue'[i].profile
  <2>1. /\ queue'[i].at \in {loop.at, now} /\ queue'[i].finished = -1
        /\ \/ queue'[i].key.by = "client"
           \/ \E d \in loop.due : /\ queue'[i].key = ClockKey(d.profile, d.slot)
                                  /\ queue'[i].profile = d.profile
    BY <1>1, <1>5 DEF Rows, NewRows, Never
  <2>2. CASE queue'[i].key.by = "client"
    BY <1>1, <1>2, <2>1, <2>2
  <2>3. ASSUME NEW d \in loop.due, queue'[i].key = ClockKey(d.profile, d.slot),
               queue'[i].profile = d.profile
        PROVE  queue'[i].key.of = queue'[i].profile
    BY <2>3 DEF ClockKey
  <2> QED BY <1>1, <1>2, <2>1, <2>2, <2>3
<1>6. loop'.at <= now'
  BY <1>1, <1>2, <1>3
<1> QED BY <1>4, <1>5, <1>6 DEF RowInv

\* Only the end of a run covers a profile.
LEMMA NoNewCover ==
  ASSUME IInv, Rows, loop.pc # "run", NEW p \in Profiles, NEW i \in Covers(p)'
  PROVE  i \in Covers(p) /\ queue'[i].finished = queue[i].finished
  BY DEF Covers, Live, Rows, OldRows, NewRows

\* Only a deletion takes a cover or a key away.
LEMMA NoLostCover ==
  ASSUME IInv, Rows, loop.pc # "run", NEW p \in Profiles, profile'[p] # "gone"
  PROVE  /\ \A i \in Covers(p) : i \in Covers(p)' /\ queue'[i].finished = queue[i].finished
         /\ \A n : \A i \in ByKey(ClockKey(p, n)) : i \in ByKey(ClockKey(p, n))'
<1>1. ASSUME NEW i \in Covers(p)
      PROVE  i \in Covers(p)' /\ queue'[i].finished = queue[i].finished
  BY <1>1 DEF Covers, Live, Rows, OldRows
<1>2. ASSUME NEW n, NEW i \in ByKey(ClockKey(p, n))
      PROVE  i \in ByKey(ClockKey(p, n))'
  <2>1. i \in DOMAIN queue /\ queue[i].status # "deleted" /\ queue[i].key = ClockKey(p, n)
    BY DEF ByKey, Live
  <2>2. queue[i].profile = p
    BY <2>1 DEF IInv, RowInv, ClockKey
  <2>3. i \in DOMAIN queue' /\ queue'[i].status # "deleted" /\ queue'[i].key = ClockKey(p, n)
    BY <2>1, <2>2 DEF Rows, OldRows
  <2> QED BY <2>3 DEF ByKey, Live, ClockKey
<1> QED BY <1>1, <1>2

LEMMA CoverTyped ==
  ASSUME IInv, NEW p \in Profiles
  PROVE  /\ LastCovered(p) \in Int
         /\ \A i \in Covers(p) : queue[i].finished \in Int /\ queue[i].finished <= LastCovered(p)
<1> DEFINE S == {queue[i].finished : i \in Covers(p)} \union {Never}
<1>1. \A i \in Covers(p) : queue[i].finished \in Int /\ queue[i].finished <= now
  BY RowTyped DEF Covers, Live, IInv, RowInv
<1>2. now \in Int /\ 0 <= now
  BY DEF IInv, TypeOK, Instants
<1>3. S \in SUBSET Int /\ S # {} /\ \A x \in S : x <= now
  BY <1>1, <1>2 DEF Never
<1>4. Max(S) \in S /\ \A x \in S : x <= Max(S)
  <2> HIDE DEF S
  <2> QED BY <1>2, <1>3, MaxIsTop
<1>5. LastCovered(p) = Max(S)
  BY DEF LastCovered
<1>6. \A i \in Covers(p) : queue[i].finished \in S
  OBVIOUS
<1> HIDE DEF S
<1> QED BY <1>1, <1>3, <1>4, <1>5, <1>6

\* What is attended to stays so, as long as its profile is there.
LEMMA AttendedStays ==
  ASSUME IInv, Rows, zone' = zone, loop.pc # "run", NEW p \in Profiles, profile'[p] # "gone",
         NEW t, Attended(p, t)
  PROVE  Attended(p, t)'
<1>1. LastShown(p, t)' = LastShown(p, t)
  BY SameClock
<1>2. ASSUME ByKey(ClockKey(p, LastShown(p, t))) # {}
      PROVE  ByKey(ClockKey(p, LastShown(p, t)))' # {}
  <2> DEFINE n == LastShown(p, t)
  <2>1. n' = n
    BY <1>1
  <2>2. \A m : \A i \in ByKey(ClockKey(p, m)) : i \in ByKey(ClockKey(p, m))'
    BY NoLostCover
  <2> QED BY <1>2, <2>1, <2>2 DEF ByKey, ClockKey, Live
<1>3. LastCovered(p)' = LastCovered(p)
  <2>1. /\ \A i \in Covers(p)' : i \in Covers(p) /\ queue'[i].finished = queue[i].finished
        /\ \A i \in Covers(p) : i \in Covers(p)' /\ queue'[i].finished = queue[i].finished
    BY NoNewCover, NoLostCover
  <2>2. {queue'[i].finished : i \in Covers(p)'} = {queue[i].finished : i \in Covers(p)}
    BY <2>1
  <2> QED BY <2>2 DEF LastCovered
<1> QED BY <1>1, <1>2, <1>3 DEF Attended

\* What the pass found due is due until it is over.
LEMMA DueStep ==
  ASSUME IInv, [Next]_vars
  PROVE  DueInv'
<1>1. Rows /\ TypeOK /\ LocalsInv /\ DueInv /\ zone' = zone /\ loop \in Passes
  BY StepRows, WorldStep DEF IInv, LocalsInv
<1>2. ASSUME NEW t, NEW p \in Profiles, NEW n, loop.pc # "run",
             /\ Elapsed(p, t) # {} /\ n = SlotStamp(p, t)
             /\ \A i \in Covers(p) : queue[i].finished < LatestSlot(p, t) - Grace
      PROVE  /\ Elapsed(p, t)' # {} /\ n = SlotStamp(p, t)'
             /\ \A i \in Covers(p)' : queue'[i].finished < LatestSlot(p, t)' - Grace
  BY <1>1, <1>2, SameClock, NoNewCover
<1>3. CASE ReadCoverage
  <2>0. loop.at \in Instants /\ loop.listed \subseteq Profiles
    BY <1>1 DEF Passes
  <2>1. loop'.due = {[profile |-> p, slot |-> SlotStamp(p, loop.at)] :
                       p \in {q \in loop.listed : Due(q, loop.at)}}
        /\ loop'.at = loop.at /\ loop.pc # "run"
    BY <1>1, <1>3 DEF ReadCoverage, Passes
  <2>2. ASSUME NEW p \in Profiles, Due(p, loop.at), NEW i \in Covers(p)
        PROVE  queue[i].finished < LatestSlot(p, loop.at) - Grace
    <3>1. Elapsed(p, loop.at) # {} /\ LastCovered(p) < LatestSlot(p, loop.at) - Grace
      BY <2>2 DEF Due
    <3>2. LatestSlot(p, loop.at) \in Int /\ Grace \in Int
      BY <1>1, <2>0, <3>1, SlotTyped, SubmissionAssumption DEF TypeOK
    <3>3. LastCovered(p) \in Int /\ queue[i].finished \in Int /\ queue[i].finished <= LastCovered(p)
      BY CoverTyped
    <3> QED BY <3>1, <3>2, <3>3
  <2>3. ASSUME NEW t, t = loop'.at, NEW p \in Profiles, Due(p, loop.at)
        PROVE  /\ Elapsed(p, t)' # {} /\ SlotStamp(p, loop.at) = SlotStamp(p, t)'
               /\ \A i \in Covers(p)' : queue'[i].finished < LatestSlot(p, t)' - Grace
    <3>1. t = loop.at /\ Elapsed(p, loop.at) # {}
      BY <2>1, <2>3 DEF Due
    <3> QED BY <3>1, <2>1, <2>2, <2>3, <1>2
  <2>4. ASSUME NEW t, t = loop'.at, NEW d \in loop'.due
        PROVE  /\ Elapsed(d.profile, t)' # {} /\ d.slot = SlotStamp(d.profile, t)'
               /\ \A i \in Covers(d.profile)' : queue'[i].finished < LatestSlot(d.profile, t)' - Grace
    <3>1. PICK p \in loop.listed : /\ Due(p, loop.at)
                                   /\ d = [profile |-> p, slot |-> SlotStamp(p, loop.at)]
      BY <2>1, <2>4
    <3>2. d.profile = p /\ d.slot = SlotStamp(p, loop.at) /\ p \in Profiles
      BY <2>0, <3>1
    <3> QED BY <2>3, <2>4, <3>1, <3>2
  <2> QED BY <2>4 DEF DueInv
<1>4. CASE loop.pc = "enqueue" /\ loop'.due \subseteq loop.due /\ loop'.at = loop.at
  <2>1. ASSUME NEW t, t = loop'.at, NEW d \in loop'.due
        PROVE  /\ Elapsed(d.profile, t)' # {} /\ d.slot = SlotStamp(d.profile, t)'
               /\ \A i \in Covers(d.profile)' : queue'[i].finished < LatestSlot(d.profile, t)' - Grace
    <3>1. d.profile \in Profiles /\ d \in loop.due /\ t = loop.at /\ loop.pc # "run"
      BY <1>1, <1>4, <2>1 DEF Passes
    <3>2. /\ Elapsed(d.profile, t) # {} /\ d.slot = SlotStamp(d.profile, t)
          /\ \A i \in Covers(d.profile) : queue[i].finished < LatestSlot(d.profile, t) - Grace
      BY <1>1, <1>4, <3>1 DEF DueInv
    <3> QED BY <1>2, <3>1, <3>2
  <2> QED BY <2>1 DEF DueInv
<1>5. CASE loop'.pc # "enqueue"
  BY <1>5 DEF DueInv
<1>6. ReadCoverage \/ loop'.pc # "enqueue"
        \/ (loop.pc = "enqueue" /\ loop'.due \subseteq loop.due /\ loop'.at = loop.at)
  <2>1. CASE EnqueueDue
    BY <1>1, <2>1 DEF EnqueueDue, Passes
  <2>2. CASE Scheduled
    BY <1>1, <2>2 DEF Scheduled, Passes
  <2>3. CASE ListProfiles \/ ScheduleRaises \/ FinishRun \/ Boot \/ Crash
    <3>1. CASE ListProfiles \/ ScheduleRaises
      BY <1>1, <3>1 DEF ListProfiles, ScheduleRaises, Passes
    <3>2. CASE FinishRun \/ Boot \/ Crash
      BY <3>2 DEF FinishRun, Boot, Crash, Idle, Down
    <3> QED BY <2>3, <3>1, <3>2
  <2>4. CASE ClaimNext
    <3>1. loop' = Idle \/ \E i : loop' = [pc |-> "run", at |-> 0, listed |-> {}, due |-> {}, row |-> i]
      BY <2>4, Claims
    <3> QED BY <3>1 DEF Idle
  <2>5. CASE UNCHANGED loop
    BY <2>5
  <2> QED BY <2>1, <2>2, <2>3, <2>4, <2>5
          DEF Next, vars, Tick, SetEnabled, DeleteProfile, Ask, LookUpKey, EnqueueManual
<1> QED BY <1>3, <1>4, <1>5, <1>6

\* A profile that the pass lists is found covered, or due and then given a row.
LEMMA PassStep ==
  ASSUME IInv, [Next]_vars
  PROVE  PassInv'
<1>1. /\ Rows /\ TypeOK /\ LocalsInv /\ DueInv /\ PassInv /\ zone' = zone /\ zone \in Zones
      /\ loop \in Passes /\ now \in Instants /\ loop.at \in Instants
      /\ \A p \in Profiles : profile[p] = "gone" => profile'[p] = "gone"
  BY StepRows, WorldStep DEF IInv, LocalsInv, TypeOK, Passes
<1> DEFINE Must(p, t) == InGrace(p, t) /\ PlainDay(t) /\ Date(LastShown(p, t)) = Date(t)
<1>2. ASSUME NEW p, NEW t
      PROVE  Must(p, t)' <=> Must(p, t)
  <2>1. LastShown(p, t)' = LastShown(p, t) /\ InGrace(p, t)' = InGrace(p, t)
        /\ PlainDay(t)' = PlainDay(t) /\ Date(t)' = Date(t)
    BY <1>1, SameClock
  <2>2. Date(LastShown(p, t))' = Date(LastShown(p, t))
    <3>1. ASSUME NEW u PROVE Date(u)' = Date(u)
      BY <1>1, SameClock
    <3> QED BY <2>1, <1>1 DEF Date, Wall
  <2> QED BY <2>1, <2>2
<1>3. ASSUME NEW p \in Profiles, NEW t \in Instants, Must(p, t)
      PROVE  /\ Elapsed(p, t) # {} /\ LastShown(p, t) = SlotStamp(p, t)
             /\ LatestSlot(p, t) = SlotStamp(p, t) /\ SlotStamp(p, t) \in Int
             /\ t < LastShown(p, t) + Grace
  <2>1. Elapsed(p, t) # {} /\ LastShown(p, t) = SlotStamp(p, t)
    BY <1>1, <1>3, SlotWasShown DEF InGrace
  <2>2. LatestSlot(p, t) = SlotStamp(p, t) /\ SlotStamp(p, t) \in Int
    BY <1>1, <1>3, <2>1, SlotIsLatest, SlotTyped
  <2> QED BY <1>3, <2>1, <2>2 DEF InGrace
<1>4. CASE ReadCoverage
  <2>1. /\ loop' = [loop EXCEPT !.pc = "enqueue",
                      !.due = {[profile |-> p, slot |-> SlotStamp(p, loop.at)] :
                                 p \in {q \in loop.listed : Due(q, loop.at)}}]
        /\ queue' = queue /\ loop.pc # "run" /\ profile' = profile
    BY <1>4 DEF ReadCoverage
  <2>2. /\ loop'.pc = "enqueue" /\ loop'.at = loop.at /\ loop'.listed = loop.listed
        /\ loop'.due = {[profile |-> p, slot |-> SlotStamp(p, loop.at)] :
                           p \in {q \in loop.listed : Due(q, loop.at)}}
    BY <1>1, <2>1 DEF Passes
  <2>3. ASSUME NEW p \in Profiles, ~ Due(p, loop.at), Must(p, loop.at)
        PROVE  Attended(p, loop.at)
    <3>1. /\ Elapsed(p, loop.at) # {} /\ LastShown(p, loop.at) = LatestSlot(p, loop.at)
          /\ LatestSlot(p, loop.at) \in Int /\ loop.at < LatestSlot(p, loop.at) + Grace
      BY <1>1, <1>3, <2>3
    <3>2. ~ (LastCovered(p) < LatestSlot(p, loop.at) - Grace)
      BY <2>3, <3>1 DEF Due
    <3>3. LastCovered(p) \in Int /\ Grace \in Int
      BY CoverTyped, SubmissionAssumption
    <3> QED BY <3>1, <3>2, <3>3 DEF Attended
  <2>4. ASSUME NEW t, t = loop'.at, NEW p \in loop'.listed, Must(p, t)', profile'[p] # "gone"
        PROVE  Attended(p, t)' \/ \E d \in loop'.due : d.profile = p
    <3>1. p \in Profiles /\ p \in loop.listed /\ Must(p, loop.at) /\ t = loop.at
      BY <1>1, <1>2, <2>2, <2>4 DEF Passes
    <3>2. CASE Due(p, loop.at)
      <4> DEFINE d == [profile |-> p, slot |-> SlotStamp(p, loop.at)]
      <4>1. d \in loop'.due /\ d.profile = p
        BY <2>2, <3>1, <3>2
      <4> QED BY <4>1
    <3>3. CASE ~ Due(p, loop.at)
      BY <1>1, <2>1, <2>3, <2>4, <3>1, <3>3, AttendedStays
    <3> QED BY <3>2, <3>3
  <2> QED BY <2>2, <2>4 DEF PassInv, MustAttend
<1>5. CASE EnqueueDue
  <2>1. /\ loop.pc = "enqueue" /\ loop'.pc = "enqueue" /\ loop'.at = loop.at /\ loop'.listed = loop.listed
        /\ loop'.due = loop.due \ {NextDue} /\ loop.due # {} /\ profile' = profile
    BY <1>1, <1>5 DEF EnqueueDue, Passes
  <2>2. NextDue \in loop.due /\ NextDue.profile \in Profiles
    BY <1>1, <2>1, NextIsDue
  <2>3. ASSUME NEW t, t = loop'.at, NEW p \in loop'.listed, Must(p, t)', profile'[p] # "gone"
        PROVE  Attended(p, t)' \/ \E d \in loop'.due : d.profile = p
    <3>1. p \in Profiles /\ Must(p, t) /\ t \in Instants /\ t = loop.at /\ p \in loop.listed
          /\ profile[p] # "gone"
      BY <1>1, <1>2, <2>1, <2>3 DEF Passes
    <3>2. CASE Attended(p, t)
      BY <1>1, <2>1, <2>3, <3>1, <3>2, AttendedStays
    <3>3. CASE \E d \in loop.due : d.profile = p /\ d # NextDue
      BY <2>1, <3>3
    <3>4. CASE NextDue.profile = p
      <4>1. NextDue.slot = LastShown(p, t)
        BY <1>1, <1>3, <2>1, <2>2, <3>1, <3>4 DEF DueInv
      <4>2. PICK i \in DOMAIN queue' : queue'[i].key = ClockKey(p, LastShown(p, t)) /\ queue'[i].status # "deleted"
        BY <1>5, <3>4, <4>1, ScheduledRows
      <4>3. LastShown(p, t)' = LastShown(p, t)
        BY <1>1, SameClock
      <4>4. i \in ByKey(ClockKey(p, LastShown(p, t)))'
        BY <4>2, <4>3 DEF ByKey, Live, ClockKey
      <4> QED BY <4>4 DEF Attended
    <3>5. Attended(p, t) \/ \E d \in loop.due : d.profile = p
      BY <1>1, <2>1, <3>1 DEF PassInv, MustAttend
    <3> QED BY <3>2, <3>3, <3>4, <3>5
  <2> QED BY <2>1, <2>3 DEF PassInv, MustAttend
<1>6. CASE loop.pc \in {"enqueue", "claim"} /\ loop'.pc \in {"enqueue", "claim"} /\ loop'.at = loop.at
           /\ loop'.listed = loop.listed /\ loop'.due = loop.due
           /\ (loop'.pc = "claim" /\ loop'.due # {} => profile[NextDue.profile] = "gone")
  <2>0. NextDue' = NextDue /\ (loop.due # {} => NextDue.profile \in Profiles)
    BY <1>1, <1>6, NextIsDue DEF NextDue
  <2>1. ASSUME NEW t, t = loop'.at, NEW p \in loop'.listed, Must(p, t)', profile'[p] # "gone"
        PROVE  Attended(p, t)' \/ \E d \in loop'.due : d.profile = p
    <3>1. p \in Profiles /\ Must(p, t) /\ t = loop.at /\ p \in loop.listed /\ profile[p] # "gone"
          /\ loop.pc # "run"
      BY <1>1, <1>2, <1>6, <2>1 DEF Passes
    <3>2. Attended(p, t) \/ \E d \in loop.due : d.profile = p
      BY <1>1, <1>6, <3>1 DEF PassInv, MustAttend
    <3>3. CASE Attended(p, t)
      BY <1>1, <2>1, <3>1, <3>3, AttendedStays
    <3> QED BY <1>6, <3>2, <3>3
  <2> QED BY <1>1, <1>6, <2>0, <2>1 DEF PassInv, MustAttend
<1>7. CASE loop'.pc \notin {"enqueue", "claim"}
  BY <1>7 DEF PassInv
<1>8. CASE Scheduled \/ ScheduleRaises
  BY <1>1, <1>6, <1>8 DEF Scheduled, ScheduleRaises, InsertRaises, Passes
<1>9. CASE ListProfiles \/ FinishRun \/ Boot \/ Crash
  <2>1. CASE ListProfiles
    BY <1>1, <1>7, <2>1 DEF ListProfiles, Passes
  <2>2. CASE FinishRun \/ Boot \/ Crash
    BY <1>7, <2>2 DEF FinishRun, Boot, Crash, Idle, Down
  <2> QED BY <1>9, <2>1, <2>2
<1>10. CASE ClaimNext
  <2>1. loop' = Idle \/ \E i : loop' = [pc |-> "run", at |-> 0, listed |-> {}, due |-> {}, row |-> i]
    BY <1>10, Claims
  <2>2. loop'.pc \in {"idle", "run"}
    BY <2>1 DEF Idle
  <2> QED BY <2>2, <1>7
<1>11. CASE UNCHANGED loop
  BY <1>1, <1>6, <1>7, <1>11 DEF PassInv
<1> QED BY <1>4, <1>5, <1>8, <1>9, <1>10, <1>11
        DEF Next, vars, Tick, SetEnabled, DeleteProfile, Ask, LookUpKey, EnqueueManual

\* A row is added for a slot only when no run of the profile covers it from its grace on.
LEMMA CoverStep ==
  ASSUME IInv, [Next]_vars
  PROVE  CoveredNotRepeated'
<1>1. /\ Rows /\ TypeOK /\ LocalsInv /\ RowInv /\ DueInv /\ CoveredNotRepeated
      /\ zone' = zone /\ zone \in Zones /\ loop \in Passes /\ now \in Int
  BY StepRows, WorldStep DEF IInv, LocalsInv
<1> SUFFICES ASSUME NEW i \in Live', NEW j \in Live', NEW at, at = queue'[i].at,
                    queue'[i].key.by = "clock", PlainDay(at)',
                    queue'[j].profile = queue'[i].profile,
                    queue'[j].status = "covered", queue'[j].finished < queue'[i].at
             PROVE  queue'[j].finished < queue'[i].key.n - Grace
  BY DEF CoveredNotRepeated
<1>3. PlainDay(at)
  BY <1>1, SameClock
<1>4. j \in DOMAIN queue /\ queue'[j].profile = queue[j].profile
  BY <1>1 DEF Live, Rows, OldRows, NewRows
<1>5. CASE queue[j].status = "covered" /\ queue'[j].finished = queue[j].finished
  <2>1. j \in Live
    BY <1>4, <1>5 DEF Live
  <2>2. CASE i \in DOMAIN queue
    <3>1. i \in Live /\ queue'[i].key = queue[i].key /\ queue'[i].at = queue[i].at
          /\ queue'[i].profile = queue[i].profile
      BY <1>1, <2>2 DEF Live, Rows, OldRows
    <3> QED BY <1>1, <1>3, <1>4, <1>5, <2>1, <3>1 DEF CoveredNotRepeated
  <2>3. CASE i \notin DOMAIN queue
    <3>1. loop.pc = "enqueue" /\ queue'[i].at = loop.at
      BY <1>1, <2>3 DEF Live, Rows, NewRows
    <3>2. PICK d \in loop.due :
            queue'[i].key = ClockKey(d.profile, d.slot) /\ queue'[i].profile = d.profile
      BY <1>1, <2>3 DEF Live, Rows, NewRows
    <3>3. d.profile \in Profiles /\ loop.at \in Instants /\ queue'[i].key.n = d.slot
      BY <1>1, <3>2 DEF Passes, ClockKey
    <3>4. j \in Covers(d.profile)
      BY <1>4, <1>5, <2>1, <3>2 DEF Covers
    <3>5. /\ Elapsed(d.profile, loop.at) # {} /\ d.slot = SlotStamp(d.profile, loop.at)
          /\ queue[j].finished < LatestSlot(d.profile, loop.at) - Grace
      BY <1>1, <3>1, <3>4 DEF DueInv
    <3>6. LatestSlot(d.profile, loop.at) = SlotStamp(d.profile, loop.at)
      BY <1>1, <1>3, <3>1, <3>3, <3>5, SlotIsLatest
    <3> QED BY <1>5, <3>3, <3>5, <3>6
  <2> QED BY <2>2, <2>3
<1>6. CASE loop.pc = "run" /\ queue'[j].finished = now
  <2>1. i \in DOMAIN queue
    BY <1>1, <1>6 DEF Live, Rows, NewRows
  <2>2. queue'[i].at = queue[i].at /\ queue[i].at <= now /\ queue[i].at \in Int
    BY <1>1, <2>1, RowTyped DEF Rows, OldRows, RowInv
  <2> QED BY <1>1, <1>6, <2>2
<1> QED BY <1>1, <1>4, <1>5, <1>6 DEF Rows, OldRows

-----------------------------------------------------------------------------
(* The theorems *)

LEMMA InitIInv == Init => IInv
<1> SUFFICES ASSUME Init PROVE IInv
  OBVIOUS
<1>1. /\ now = 0 /\ zone \in Zones /\ profile = [p \in Profiles |-> "enabled"] /\ queue = <<>>
      /\ loop = Down /\ request = [r \in Requests |-> Unasked] /\ upsets = 0
  BY DEF Init
<1>2. Unasked \in Calls /\ Unasked.pc = "unasked" /\ Unasked.row = NoRow
  BY DEF Unasked, Calls, ClientKey, NoRow
<1>3. DOMAIN queue = {} /\ Live = {} /\ queue \in Seq(RowType) /\ Len(queue) = 0
  BY <1>1 DEF Live
<1>4. 0 \in Instants /\ 0 \in 0..MaxUpsets /\ 0 <= MaxRows
  BY SubmissionAssumption DEF Instants
<1>5. loop \in Passes /\ loop.pc = "down" /\ loop.at = 0
  BY <1>1, <1>4 DEF Down, Idle, Passes, NoRow
<1>6. TypeOK
  BY <1>1, <1>2, <1>3, <1>4, <1>5 DEF TypeOK
<1>7. LocalsInv /\ AnswerInv
  BY <1>1, <1>2, <1>5 DEF LocalsInv, AnswerInv
<1>8. RowInv /\ RunningInv /\ DueInv /\ PassInv /\ CoveredNotRepeated
  BY <1>1, <1>3, <1>5 DEF RowInv, RunningInv, DueInv, PassInv, CoveredNotRepeated
<1> QED BY <1>6, <1>7, <1>8 DEF IInv

LEMMA NextIInv == IInv /\ [Next]_vars => IInv'
  BY TypeStep, RowsStep, DueStep, PassStep, CoverStep DEF IInv

LEMMA Invariance == Spec => []IInv
  BY InitIInv, NextIInv, PTL DEF Spec

\* The tables and the locals of the threads keep their types; no two rows in the queue have
\* one key (uq_run_queue_idempotency_key), and the row that the worker thread runs is the
\* only one that reads running.
THEOREM TypeCorrect == Spec => []TypeOK
<1>1. IInv => TypeOK
  BY DEF IInv
<1> QED BY <1>1, Invariance, PTL

\* enqueue_due_profiles: a pass leaves no slot of a listed profile unattended, for any
\* schedules and changes of clock, on a plain day, but for those that a deletion under it
\* makes it leave over.
THEOREM SlotsAttended == Spec => []SlotAttended
<1>1. IInv => SlotAttended
  <2> SUFFICES ASSUME IInv, loop.pc = "claim"
               PROVE  /\ \A p \in loop.listed \ LeftOver :
                           MustAttend(p) => Attended(p, loop.at)
                      /\ LeftOver # {} => profile[NextDue.profile] = "gone"
    BY DEF SlotAttended, MustAttend
  <2>1. ASSUME NEW p \in loop.listed \ LeftOver, MustAttend(p) PROVE Attended(p, loop.at)
    BY <2>1 DEF IInv, PassInv, LeftOver
  <2>2. LeftOver # {} => profile[NextDue.profile] = "gone"
    BY DEF IInv, PassInv, LeftOver
  <2> QED BY <2>1, <2>2
<1> QED BY <1>1, Invariance, PTL

\* due_profiles and last_covered_by_profile: a covered slot is not run again on the clock's
\* account, whatever the requests, the pauses, the crashes and the deletions do meanwhile.
THEOREM CoveredStays == Spec => []CoveredNotRepeated
<1>1. IInv => CoveredNotRepeated
  BY DEF IInv
<1> QED BY <1>1, Invariance, PTL

\* get_by_key and enqueue: one Idempotency-Key of a client is answered with one job.
THEOREM KeysHonoured == Spec => []KeyHonoured
<1>1. IInv => KeyHonoured
  <2> SUFFICES ASSUME IInv, NEW r \in Requests, NEW s \in Requests,
                      request[r].pc = "answered", request[s].pc = "answered",
                      request[r].key = request[s].key, request[r].row # request[s].row
               PROVE  \E q \in {r, s} : queue[request[q].row].status = "deleted"
    BY DEF KeyHonoured
  <2>1. /\ request[r].row \in DOMAIN queue /\ request[s].row \in DOMAIN queue
        /\ queue[request[r].row].key = queue[request[s].row].key
    BY DEF IInv, AnswerInv
  <2>2. \A i, j \in Live : queue[i].key = queue[j].key => i = j
    BY DEF IInv, TypeOK
  <2> QED BY <2>1, <2>2 DEF Live
<1> QED BY <1>1, Invariance, PTL
=============================================================================
