--------------------------- MODULE BoundedDelivery ---------------------------
(***************************************************************************)
(* What the outbox promises about a notification: it is tried a bounded    *)
(* number of times, each try puts at most one mail on the wire, and it is  *)
(* done only after a mail.  A withdrawn notification is not tried again,   *)
(* but the try that is under way may still put its mail on the wire.       *)
(***************************************************************************)
EXTENDS Integers

CONSTANTS Items, MaxTries

VARIABLES phase, tries, mails

Init ==
  /\ phase = [n \in Items |-> "new"]
  /\ tries = [n \in Items |-> 0]
  /\ mails = [n \in Items |-> 0]

Submit(n) ==
  /\ phase[n] = "new"
  /\ phase' = [phase EXCEPT ![n] = "open"]
  /\ UNCHANGED <<tries, mails>>

Try(n) ==
  /\ phase[n] = "open" /\ tries[n] < MaxTries
  /\ phase' = [phase EXCEPT ![n] = "trying"]
  /\ tries' = [tries EXCEPT ![n] = @ + 1]
  /\ UNCHANGED mails

Mail(n) ==
  /\ phase[n] \in {"trying", "withdrawn"} /\ mails[n] < tries[n]
  /\ mails' = [mails EXCEPT ![n] = @ + 1]
  /\ UNCHANGED <<phase, tries>>

Deliver(n) ==
  /\ phase[n] = "trying" /\ mails[n] > 0
  /\ phase' = [phase EXCEPT ![n] = "done"]
  /\ UNCHANGED <<tries, mails>>

\* The outcome of a try is a failure, or is not known: the notification is open
\* again, for as long as there are tries left.
Reopen(S) ==
  /\ \A n \in S : phase[n] = "trying"
  /\ phase' = [n \in Items |-> IF n \in S THEN "open" ELSE phase[n]]
  /\ UNCHANGED <<tries, mails>>

Withdraw(S) ==
  /\ \A n \in S : phase[n] # "new"
  /\ phase' = [n \in Items |-> IF n \in S THEN "withdrawn" ELSE phase[n]]
  /\ UNCHANGED <<tries, mails>>

Next ==
  \/ \E n \in Items : Submit(n) \/ Try(n) \/ Mail(n) \/ Deliver(n)
  \/ \E S \in SUBSET Items : Reopen(S) \/ Withdraw(S)

Spec == Init /\ [][Next]_<<phase, tries, mails>>
=============================================================================
