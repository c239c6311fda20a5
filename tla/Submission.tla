------------------------------ MODULE Submission ------------------------------
(***************************************************************************)
(* How runs get into the queue: the scheduler (scheduler.py,               *)
(* runner.due_profiles), which shares one thread with the runs             *)
(* (worker.AuctionWatchWorker), and POST /runs (server.profiles.create_run), *)
(* whose requests run beside it.  Each action is one transaction or one    *)
(* step of a thread.  Instants are UTC, in units the grace is a multiple   *)
(* of; the zone of the profiles may put its clock forward or back once.    *)
(* What a run does is RunWorker's: here it takes time and ends.            *)
(***************************************************************************)
EXTENDS Integers, Sequences, FiniteSets, FiniteSetsExt

CONSTANTS
  Profiles,    \* profile ids, numbered as their names sort
  Times,       \* Schedule.times of each profile, as times of day
  Zones,       \* the zones considered: [change, shift], see Wall
  Day,         \* the length of a day
  Grace,       \* runner.SCHEDULE_GRACE
  Horizon,     \* bound: the last instant
  Requests,    \* bound: requests of POST /runs under way or answered
  ClientKeys,  \* bound: the keys of its own a client uses
  MaxRows,     \* bound: rows ever put into run_queue
  MaxUpsets    \* bound: pauses, resumes, deletions and deaths of the process

ASSUME SubmissionAssumption ==
  /\ Profiles \subseteq Nat /\ IsFiniteSet(Profiles)
  /\ Day \in Nat \ {0} /\ Grace \in Nat \ {0} /\ Horizon \in Nat
  /\ Times \in [Profiles -> SUBSET (0..(Day - 1))]
  /\ Zones \subseteq [change : Nat, shift : Int]
  /\ ClientKeys \subseteq Nat
  /\ MaxRows \in Nat /\ MaxUpsets \in Nat

Instants == 0..Horizon
NoRow == 0
Never == -1
Ids == 1..MaxRows

VARIABLES
  now,       \* the clock, UTC
  zone,      \* the zone of all schedules
  profile,   \* each profile: "enabled", "paused" or "gone"
  queue,     \* run_queue by id, deleted rows left in place
  loop,      \* the worker thread: where it stands and its locals
  request,   \* each request of POST /runs
  upsets

vars == <<now, zone, profile, queue, loop, request, upsets>>

-----------------------------------------------------------------------------
(* Clocks.  A definition that stands before the one it is named after is a    *)
(* seeded fault, as in RunWorker.                                             *)

\* astimezone: what the clock shows at an instant, and whether it shows it again.
Wall(t) == IF t < zone.change THEN t ELSE t + zone.shift
Fold(t) == IF zone.change <= t /\ t < zone.change - zone.shift THEN 1 ELSE 0
Date(t) == Wall(t) \div Day

\* astimezone(UTC) of a wall time, by the rule of zoneinfo for times shown twice or never.
Utc(wall, fold) ==
  LET first == IF fold = 0 THEN Max({0, zone.shift}) ELSE Min({0, zone.shift})
  IN  IF wall < zone.change + first THEN wall ELSE wall - zone.shift

\* local_now with hour and minute replaced, those that have passed: comparing two
\* times of one zone compares what the clock shows.
Elapsed(p, t) == {w \in {Date(t) * Day + time : time \in Times[p]} : w <= Wall(t)}

\* latest_slot of due_profiles, and the slot in the key that _slot_stamp makes.
LatestSlot(p, t) == Max({Utc(w, Fold(t)) : w \in Elapsed(p, t)})
SlotStamp(p, t) == Utc(Max(Elapsed(p, t)), Fold(t))

-----------------------------------------------------------------------------
(* The queue *)

\* An Idempotency-Key: the scheduler's (a profile and a slot) or a client's own.
ClockKey(p, slot) == [by |-> "clock", of |-> p, n |-> slot]
ClientKey(k) == [by |-> "client", of |-> 0, n |-> k]

Live == {i \in DOMAIN queue : queue[i].status # "deleted"}
ByKey(key) == {i \in Live : queue[i].key = key}

\* last_covered_by_profile.
Covers(p) == {i \in Live : queue[i].profile = p /\ queue[i].status = "covered"}
LastCovered(p) == Max({queue[i].finished : i \in Covers(p)} \union {Never})

\* due_profiles at t, for one profile that was listed as enabled.
DueManualRepeated(p, t) ==
  /\ Elapsed(p, t) # {} /\ t < LatestSlot(p, t) + Grace
  /\ \A i \in Covers(p) : queue[i].key.by = "clock" => queue[i].finished < LatestSlot(p, t) - Grace
DueNotAtSlot(p, t) ==
  /\ Elapsed(p, t) # {} /\ t < LatestSlot(p, t) + Grace
  /\ \A i \in Covers(p) : queue[i].finished < LatestSlot(p, t) - 2 * Grace
Due(p, t) ==
  /\ Elapsed(p, t) # {} /\ t < LatestSlot(p, t) + Grace
  /\ Covers(p) = {} \/ LastCovered(p) < LatestSlot(p, t) - Grace

Row(key, p, at) ==
  [key |-> key, profile |-> p, status |-> "queued", at |-> at, finished |-> Never]

\* enqueue: the row that has the key, else a new one, else the error of a missing
\* profile.  The job it answers with is `id'.
InsertedLastRow(key, p, at, id) ==
  \/ ByKey(key) # {} /\ id = Len(queue) /\ UNCHANGED queue
  \/ /\ ByKey(key) = {} /\ profile[p] # "gone" /\ Len(queue) < MaxRows
     /\ queue' = Append(queue, Row(key, p, at)) /\ id = Len(queue) + 1
InsertedUnseen(key, p, at, id) ==
  /\ profile[p] # "gone" /\ Len(queue) < MaxRows
  /\ queue' = Append(queue, Row(key, p, at)) /\ id = Len(queue) + 1
Inserted(key, p, at, id) ==
  \/ ByKey(key) # {} /\ id \in ByKey(key) /\ UNCHANGED queue
  \/ /\ ByKey(key) = {} /\ profile[p] # "gone" /\ Len(queue) < MaxRows
     /\ queue' = Append(queue, Row(key, p, at)) /\ id = Len(queue) + 1
InsertRaises(key, p) == ByKey(key) = {} /\ profile[p] = "gone"

Idle == [pc |-> "idle", at |-> 0, listed |-> {}, due |-> {}, row |-> NoRow]
Down == [Idle EXCEPT !.pc = "down"]
Unasked == [pc |-> "unasked", profile |-> Min(Profiles), key |-> ClientKey(0), row |-> NoRow]

Init ==
  /\ now = 0 /\ zone \in Zones
  /\ profile = [p \in Profiles |-> "enabled"]
  /\ queue = <<>> /\ loop = Down
  /\ request = [r \in Requests |-> Unasked]
  /\ upsets = 0

-----------------------------------------------------------------------------
(* The world *)

Tick == /\ now < Horizon /\ now' = now + 1
        /\ UNCHANGED <<zone, profile, queue, loop, request, upsets>>

\* _set_enabled: pause_profile and resume_profile.
SetEnabled(p) ==
  /\ upsets < MaxUpsets /\ profile[p] # "gone"
  /\ \E to \in {"enabled", "paused"} \ {profile[p]} : profile' = [profile EXCEPT ![p] = to]
  /\ upsets' = upsets + 1
  /\ UNCHANGED <<now, zone, queue, loop, request>>

\* ProfileRepository.delete takes the profile's queue rows along, unless one is active.
DeleteProfile(p) ==
  /\ upsets < MaxUpsets /\ profile[p] # "gone"
  /\ \A i \in Live : queue[i].profile = p => queue[i].status \notin {"queued", "running"}
  /\ profile' = [profile EXCEPT ![p] = "gone"]
  /\ queue' = [i \in DOMAIN queue |->
                 IF queue[i].profile = p THEN [queue[i] EXCEPT !.status = "deleted"] ELSE queue[i]]
  /\ upsets' = upsets + 1
  /\ UNCHANGED <<now, zone, loop, request>>

\* The process dies with what its threads had in hand.
Crash ==
  /\ loop.pc # "down" /\ upsets < MaxUpsets /\ upsets' = upsets + 1
  /\ loop' = Down
  /\ request' = [r \in Requests |->
                   IF request[r].pc \in {"key", "enqueue"}
                   THEN Unasked ELSE request[r]]
  /\ UNCHANGED <<now, zone, profile, queue>>

\* RunWorker.__init__ takes back the run that was interrupted.
Boot ==
  /\ loop.pc = "down" /\ loop' = Idle
  /\ queue' = [i \in DOMAIN queue |->
                 IF queue[i].status = "running" THEN [queue[i] EXCEPT !.status = "queued"]
                 ELSE queue[i]]
  /\ UNCHANGED <<now, zone, profile, request, upsets>>

-----------------------------------------------------------------------------
(* The worker thread: AuctionWatchWorker.run_once *)

\* enqueue_due_profiles, at the time run_once gives it: profiles.list ...
ListProfiles ==
  /\ loop.pc = "idle"
  /\ loop' = [loop EXCEPT !.pc = "coverage", !.at = now,
                         !.listed = {p \in Profiles : profile[p] = "enabled"}]
  /\ UNCHANGED <<now, zone, profile, queue, request, upsets>>

\* ... and then last_covered_by_profile, of which the profile's rows may be gone by now.
ReadCoverage ==
  /\ loop.pc = "coverage"
  /\ loop' = [loop EXCEPT !.pc = "enqueue",
                 !.due = {[profile |-> p, slot |-> SlotStamp(p, loop.at)] :
                            p \in {q \in loop.listed : Due(q, loop.at)}}]
  /\ UNCHANGED <<now, zone, profile, queue, request, upsets>>

\* The due profile whose turn it is.
NextDue == CHOOSE d \in loop.due : \A e \in loop.due : d.profile <= e.profile

EnqueueDue ==
  /\ loop.pc = "enqueue" /\ loop.due # {}
  /\ \E id \in Ids : Inserted(ClockKey(NextDue.profile, NextDue.slot), NextDue.profile, loop.at, id)
  /\ loop' = [loop EXCEPT !.due = @ \ {NextDue}]
  /\ UNCHANGED <<now, zone, profile, request, upsets>>

\* A listed profile was deleted: enqueue raises, and run_once gives the pass up with the
\* due profiles that are left, this one and those after it.
ScheduleRaises ==
  /\ loop.pc = "enqueue" /\ loop.due # {}
  /\ InsertRaises(ClockKey(NextDue.profile, NextDue.slot), NextDue.profile)
  /\ loop' = [loop EXCEPT !.pc = "claim"]
  /\ UNCHANGED <<now, zone, profile, queue, request, upsets>>

Scheduled ==
  /\ loop.pc = "enqueue" /\ loop.due = {}
  /\ loop' = [loop EXCEPT !.pc = "claim"]
  /\ UNCHANGED <<now, zone, profile, queue, request, upsets>>

\* claim_next: ORDER BY enqueued_at, id.
Queued == {i \in Live : queue[i].status = "queued"}
First(i) == \A j \in Queued : queue[i].at < queue[j].at \/ (queue[i].at = queue[j].at /\ i <= j)
ClaimNext ==
  /\ loop.pc = "claim"
  /\ IF Queued = {}
     THEN loop' = Idle /\ UNCHANGED queue
     ELSE \E i \in Queued :
            /\ First(i) /\ queue' = [queue EXCEPT ![i].status = "running"]
            /\ loop' = [Idle EXCEPT !.pc = "run", !.row = i]
  /\ UNCHANGED <<now, zone, profile, request, upsets>>

\* The run of an enabled profile may cover it; any run may fail.
FinishRun ==
  /\ loop.pc = "run"
  /\ \E status \in {"failed"} \union
                   (IF profile[queue[loop.row].profile] = "enabled" THEN {"covered"} ELSE {}) :
       queue' = [queue EXCEPT ![loop.row].status = status, ![loop.row].finished = now]
  /\ loop' = Idle
  /\ UNCHANGED <<now, zone, profile, request, upsets>>

-----------------------------------------------------------------------------
(* POST /runs: create_run *)

\* The request arrives and finds its profile there and enabled, else 404 or 409.
Ask(r) ==
  /\ loop.pc # "down" /\ request[r].pc = "unasked"
  /\ \E p \in {q \in Profiles : profile[q] = "enabled"}, k \in ClientKeys :
       request' = [request EXCEPT ![r] =
                     [pc |-> "key", profile |-> p, key |-> ClientKey(k), row |-> NoRow]]
  /\ UNCHANGED <<now, zone, profile, queue, loop, upsets>>

Goes(r, pc) == request' = [request EXCEPT ![r].pc = pc]
Fails(r) == request' = [request EXCEPT ![r] = Unasked]
Answers(r, row) == request' = [request EXCEPT ![r].pc = "answered", ![r].row = row]

\* get_by_key; 409 for the key of another profile.  get_run finds nothing under a key
\* that is not the id of a run, and for one that is it only reads.
LookUpKey(r) ==
  /\ request[r].pc = "key"
  /\ IF ByKey(request[r].key) = {} THEN Goes(r, "enqueue")
     ELSE \E i \in ByKey(request[r].key) :
            IF queue[i].profile = request[r].profile THEN Answers(r, i) ELSE Fails(r)
  /\ UNCHANGED <<now, zone, profile, queue, loop, upsets>>

EnqueueManual(r) ==
  /\ request[r].pc = "enqueue"
  /\ \/ \E id \in Ids : Inserted(request[r].key, request[r].profile, now, id) /\ Answers(r, id)
     \/ InsertRaises(request[r].key, request[r].profile) /\ Fails(r) /\ UNCHANGED queue
  /\ UNCHANGED <<now, zone, profile, loop, upsets>>

Next ==
  \/ Tick \/ Crash \/ Boot
  \/ \E p \in Profiles : SetEnabled(p) \/ DeleteProfile(p)
  \/ ListProfiles \/ ReadCoverage \/ EnqueueDue \/ ScheduleRaises \/ Scheduled \/ ClaimNext \/ FinishRun
  \/ \E r \in Requests :
       Ask(r) \/ LookUpKey(r) \/ EnqueueManual(r)

Spec == Init /\ [][Next]_vars

-----------------------------------------------------------------------------
(* Properties *)

Statuses == {"queued", "running", "covered", "failed", "deleted"}
RowType == [key : [by : {"clock", "client"}, of : Nat, n : Int], profile : Profiles,
            status : Statuses, at : Instants, finished : Instants \union {Never}]

\* The state is well typed, no two rows have one key (uq_run_queue_idempotency_key)
\* and the row the thread runs is the one that reads running.
TypeOK ==
  /\ now \in Instants /\ zone \in Zones
  /\ profile \in [Profiles -> {"enabled", "paused", "gone"}]
  /\ queue \in Seq(RowType) /\ Len(queue) <= MaxRows
  /\ \A i, j \in Live : queue[i].key = queue[j].key => i = j
  /\ loop.pc \in {"down", "idle", "coverage", "enqueue", "claim", "run"}
  /\ loop.pc = "run" => {i \in Live : queue[i].status = "running"} = {loop.row}
  /\ \A r \in Requests :
       /\ request[r].pc \in {"unasked", "key", "enqueue", "answered"}
       /\ request[r].row \in DOMAIN queue \union {NoRow}
  /\ upsets \in 0..MaxUpsets

\* The clock shows every time of the day of t exactly once: the readings it skips or
\* repeats lie on another day.
PlainDay(t) ==
  \/ zone.shift = 0
  \/ (Date(t) + 1) * Day <= zone.change + Min({0, zone.shift})
  \/ zone.change + Max({0, zone.shift}) <= Date(t) * Day

\* The last instant not after t at which the clock showed a time of the schedule.
Shown(p, t) == {u \in Instants : u <= t /\ Wall(u) % Day \in Times[p]}
LastShown(p, t) == Max(Shown(p, t))

\* A row for the slot of p that the clock last showed, or a run that covers it.
Attended(p, t) ==
  \/ ByKey(ClockKey(p, LastShown(p, t))) # {}
  \/ LastCovered(p) >= LastShown(p, t) - Grace

\* Did a pass at t come within the grace of a slot it must attend to?
InGrace(p, t) == Shown(p, t) # {} /\ t < LastShown(p, t) + Grace

\* When a pass of the scheduler is over, every profile it listed has its slot in the queue
\* or covered, if the slot is of the same day, a day without a change of clock, and the
\* profile is still there: the manual runs, the pauses and the deletions go on meanwhile.
\* Excepted are the due profiles that a pass leaves over, and it leaves none over unless
\* the first of them was deleted under it (enqueue_due_profiles, scheduler.py:43).
LeftOver == {d.profile : d \in loop.due}
SlotAttended ==
  loop.pc = "claim" =>
    /\ \A p \in loop.listed \ LeftOver :
         (profile[p] # "gone" /\ InGrace(p, loop.at) /\ PlainDay(loop.at)
            /\ Date(LastShown(p, loop.at)) = Date(loop.at)) => Attended(p, loop.at)
    /\ LeftOver # {} => profile[NextDue.profile] = "gone"

\* A slot that a run covered, from the grace before it on, is not run again, whoever
\* asked for that run (docs/SEARCH_GUIDE.md:84-86).
CoveredNotRepeated ==
  \A i, j \in Live :
    LET slot == queue[i].key.n IN
    (/\ queue[i].key.by = "clock" /\ PlainDay(queue[i].at)
     /\ queue[j].profile = queue[i].profile
     /\ queue[j].status = "covered" /\ queue[j].finished < queue[i].at)
      => queue[j].finished < slot - Grace

\* Two requests that are answered under one key of the client's are answered with one
\* job, however they interleave, unless that job was deleted with its profile.
KeyHonoured ==
  \A r, s \in Requests :
    (/\ request[r].pc = "answered" /\ request[s].pc = "answered"
     /\ request[r].key = request[s].key /\ request[r].row # request[s].row)
      => \E q \in {r, s} : queue[request[q].row].status = "deleted"
=============================================================================
