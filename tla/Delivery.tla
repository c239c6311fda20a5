------------------------------ MODULE Delivery ------------------------------
(***************************************************************************)
(* The notification outbox (async_ops.NotificationRepository) and the      *)
(* worker that drains it (worker.NotificationDeliveryWorker), one process, *)
(* one thread.  The mail server is external: a call of sender.send puts    *)
(* the mail on the wire or raises, and it can also raise after the mail    *)
(* is gone.  Every other action is one SQLite transaction.                 *)
(***************************************************************************)
EXTENDS Integers, FiniteSets

CONSTANTS
  NumItems,     \* notifications ever planned, numbered by created_at
  Profiles,     \* profile ids
  System,       \* the profiles that cannot be deleted
  OwnerOf,      \* the profile each notification belongs to
  MaxAttempts,  \* NotificationDeliveryWorker.max_attempts
  MaxCrashes,   \* bound: how often the process dies
  MaxErrors     \* bound: repository calls that raise, and mails whose answer is lost

Items == 1..NumItems
NoItem == 0

ASSUME DeliveryAssumption ==
  /\ NumItems \in Nat /\ MaxCrashes \in Nat /\ MaxErrors \in Nat
  /\ MaxAttempts \in Nat \ {0}
  /\ OwnerOf \in [Items -> Profiles] /\ System \subseteq Profiles

VARIABLES
  status,    \* notification_outbox.status; "none" before the row, "deleted" after it
  attempts,  \* notification_outbox.attempts
  due,       \* next_attempt_at is NULL or past
  gone,      \* the deleted profiles
  mails,     \* the mails on the wire for each notification
  pc,        \* where the worker thread stands
  item,      \* the claimed notification
  crashes,
  errors

rowVars == <<status, attempts, due>>
vars == <<rowVars, gone, mails, pc, item, crashes, errors>>

-----------------------------------------------------------------------------
(* A definition that stands before the one it is named after is a seeded fault, *)
(* as in RunWorker.                                                            *)

\* The rows claim_due selects from.
ClaimableAnyAttempts ==
  {n \in Items : status[n] \in {"pending", "failed"} /\ due[n]}
ClaimablePendingOnly ==
  {n \in Items : status[n] = "pending" /\ attempts[n] < MaxAttempts /\ due[n]}
ClaimableAlsoSent ==
  {n \in Items : status[n] \in {"pending", "failed", "sent"} /\ attempts[n] < MaxAttempts /\ due[n]}
Claimable ==
  {n \in Items : status[n] \in {"pending", "failed"} /\ attempts[n] < MaxAttempts /\ due[n]}

\* What mark_sent leaves of a row: an UPDATE that finds no row is no error.
MarkedUnchecked(n) == "sent"
Marked(n) == IF status[n] = "deleted" THEN "deleted" ELSE "sent"

\* What recover_inflight makes of a row.
RecoveredAsSent(n) == IF status[n] = "sending" THEN "sent" ELSE status[n]
RecoveredNot(n) == status[n]
Recovered(n) == IF status[n] = "sending" THEN "pending" ELSE status[n]

Init ==
  /\ status = [n \in Items |-> "none"]
  /\ attempts = [n \in Items |-> 0]
  /\ due = [n \in Items |-> TRUE]
  /\ gone = {}
  /\ mails = [n \in Items |-> 0]
  /\ pc = "down" /\ item = NoItem
  /\ crashes = 0 /\ errors = 0

Rest(next) == pc' = next /\ item' = NoItem

-----------------------------------------------------------------------------
(* The planner, the API and the clock *)

\* NotificationRepository.enqueue under a new dedupe key.
Enqueue(n) ==
  /\ status[n] = "none"
  /\ \A m \in Items : m < n => status[m] # "none"
  /\ OwnerOf[n] \notin gone
  /\ status' = [status EXCEPT ![n] = "pending"]
  /\ UNCHANGED <<attempts, due, gone, mails, pc, item, crashes, errors>>

\* ProfileRepository.delete takes the rows of the profile in every status.
DeleteProfile(p) ==
  /\ p \notin gone \union System
  /\ gone' = gone \union {p}
  /\ status' = [n \in Items |->
                  IF OwnerOf[n] = p /\ status[n] # "none" THEN "deleted" ELSE status[n]]
  /\ UNCHANGED <<attempts, due, mails, pc, item, crashes, errors>>

\* next_attempt_at is reached.
DelayElapses(n) ==
  /\ ~due[n]
  /\ due' = [due EXCEPT ![n] = TRUE]
  /\ UNCHANGED <<status, attempts, gone, mails, pc, item, crashes, errors>>

Crash ==
  /\ pc # "down"
  /\ crashes < MaxCrashes
  /\ crashes' = crashes + 1
  /\ Rest("down")
  /\ UNCHANGED <<rowVars, gone, mails, errors>>

\* NotificationDeliveryWorker.__init__ calls recover_inflight.
Boot ==
  /\ pc = "down"
  /\ Rest("idle")
  /\ status' = [n \in Items |-> Recovered(n)]
  /\ UNCHANGED <<attempts, due, gone, mails, crashes, errors>>

-----------------------------------------------------------------------------
(* NotificationDeliveryWorker.run_once *)

\* claim_due: the oldest row that is due and has an attempt left.
Claim ==
  /\ pc = "idle"
  /\ \E n \in Claimable :
       /\ \A m \in Claimable : n <= m
       /\ status' = [status EXCEPT ![n] = "sending"]
       /\ attempts' = [attempts EXCEPT ![n] = @ + 1]
       /\ item' = n
  /\ pc' = "send"
  /\ UNCHANGED <<due, gone, mails, crashes, errors>>

\* sender.send returns.
Send ==
  /\ pc = "send"
  /\ mails' = [mails EXCEPT ![item] = @ + 1]
  /\ pc' = "sent"
  /\ UNCHANGED <<rowVars, gone, item, crashes, errors>>

\* sender.send raises before anything left.
SendFails ==
  /\ pc = "send"
  /\ pc' = "failed"
  /\ UNCHANGED <<rowVars, gone, mails, item, crashes, errors>>

\* sender.send raises after the server took the mail: the reply was lost, or QUIT
\* was answered with an error.
SendFailsLate ==
  /\ pc = "send"
  /\ errors < MaxErrors
  /\ errors' = errors + 1
  /\ mails' = [mails EXCEPT ![item] = @ + 1]
  /\ pc' = "failed"
  /\ UNCHANGED <<rowVars, gone, item, crashes>>

MarkSent ==
  /\ pc = "sent"
  /\ status' = [status EXCEPT ![item] = Marked(item)]
  /\ due' = [due EXCEPT ![item] = TRUE]
  /\ Rest("idle")
  /\ UNCHANGED <<attempts, gone, mails, crashes, errors>>

\* mark_failed: with an attempt left the next one waits for the backoff, without
\* one next_attempt_at is cleared.
MarkFailed ==
  /\ pc = "failed"
  /\ status[item] # "deleted"
  /\ status' = [status EXCEPT ![item] = "failed"]
  /\ due' = [due EXCEPT ![item] = attempts[item] >= MaxAttempts]
  /\ Rest("idle")
  /\ UNCHANGED <<attempts, gone, mails, crashes, errors>>

\* mark_failed raises ValueError for a deleted row, inside the except clause: the
\* thread ends.
MarkMissing ==
  /\ pc = "failed"
  /\ status[item] = "deleted"
  /\ Rest("dead")
  /\ UNCHANGED <<rowVars, gone, mails, crashes, errors>>

\* A call of the repository raises; none of the three is guarded.
CallRaises ==
  /\ pc \in {"idle", "sent", "failed"}
  /\ errors < MaxErrors
  /\ errors' = errors + 1
  /\ Rest("dead")
  /\ UNCHANGED <<rowVars, gone, mails, crashes>>

-----------------------------------------------------------------------------
Worker ==
  Claim \/ Send \/ SendFails \/ SendFailsLate \/ MarkSent \/ MarkFailed \/ MarkMissing

Environment ==
  \/ \E n \in Items : Enqueue(n) \/ DelayElapses(n)
  \/ \E p \in Profiles : DeleteProfile(p)

Next == Worker \/ Boot \/ Environment \/ Crash \/ CallRaises

Spec == Init /\ [][Next]_vars

\* The thread loops for ever, the supervisor restarts the process, the clock
\* goes on.
Fairness ==
  /\ WF_vars(Worker)
  /\ WF_vars(Boot)
  /\ \A n \in Items : WF_vars(DelayElapses(n))

FairSpec == Spec /\ Fairness

-----------------------------------------------------------------------------
(* Properties *)

TypeOK ==
  /\ status \in [Items -> {"none", "pending", "sending", "sent", "failed", "deleted"}]
  /\ attempts \in [Items -> Nat]
  /\ due \in [Items -> BOOLEAN]
  /\ gone \subseteq Profiles
  /\ mails \in [Items -> Nat]
  /\ pc \in {"down", "idle", "send", "sent", "failed", "dead"}
  /\ item \in (IF pc \in {"send", "sent", "failed"} THEN Items ELSE {NoItem})
  /\ crashes \in 0..MaxCrashes /\ errors \in 0..MaxErrors

\* However the process dies and whatever the mail server answers, a notification
\* costs at most one mail for each attempt, and max_attempts attempts: the
\* attempt is counted before the mail goes out, never after.
MailsBounded ==
  \A n \in Items : mails[n] <= attempts[n] /\ attempts[n] <= MaxAttempts

\* A notification that reads sent was mailed, in this attempt or in one whose
\* outcome was lost.
SentWasMailed ==
  \A n \in Items : status[n] = "sent" => mails[n] > 0

\* Only the row in the worker's hands reads sending while the process runs; after
\* a crash or an error one row is left behind, until the restart.
OneInFlight ==
  pc \in {"idle", "send", "sent", "failed"} =>
    \A n \in Items : status[n] = "sending" => n = item

\* Without a crash, an error and a lost answer nobody is mailed twice about the
\* same run, whatever the mail server refuses.
SecondMailNeedsFault ==
  crashes + errors = 0 => \A n \in Items : mails[n] <= 1

\* As long as the process stays up, no call raises and nobody deletes a profile,
\* every notification comes to an end whatever the mail server answers: sent, or
\* failed with no attempt left.
EveryNotificationEnds ==
  \A n \in Items :
    status[n] = "pending" ~> \/ status[n] = "sent"
                             \/ status[n] = "failed" /\ attempts[n] = MaxAttempts
                             \/ crashes + errors > 0 \/ gone # {}

\* Where each notification stands for BoundedDelivery.
Phase ==
  [n \in Items |->
     CASE status[n] = "none"                  -> "new"
       [] status[n] \in {"pending", "failed"} -> "open"
       [] status[n] = "sending"               -> "trying"
       [] status[n] = "sent"                  -> "done"
       [] status[n] = "deleted"               -> "withdrawn"]

Abstract == INSTANCE BoundedDelivery WITH
  MaxTries <- MaxAttempts, phase <- Phase, tries <- attempts

\* The outbox keeps the promise of BoundedDelivery through every fault.
ImplementsBoundedDelivery == Abstract!Spec

-----------------------------------------------------------------------------
(* What the documentation promises and the program does not keep *)

\* docs/ARCHITECTURE.md: "Delivery is retried with bounded backoff": whatever
\* happens to the other profiles, a pending notification is attended to.
PendingIsServed ==
  \A n \in Items : status[n] = "pending" ~> status[n] # "pending"
=============================================================================
