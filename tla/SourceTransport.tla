--------------------------- MODULE SourceTransport ---------------------------
(***************************************************************************)
(* sources.transport.HttpxTransport.get: at most two attempts.  The second *)
(* comes after an answer that asks for patience or a connection that was   *)
(* lost, and only when the pause before it ends within the deadline.       *)
(***************************************************************************)

\* What becomes of one attempt: an answer, a status of RETRY_STATUS or a lost
\* connection, or a status that is final.
Attempt == {"answered", "retryable", "refused"}

\* What becomes of a request, the attempt that is not made left out.
Tries ==
  {t \in [first : Attempt, inTime : BOOLEAN, second : Attempt] :
     (t.first # "retryable" \/ ~t.inTime) => (t.inTime /\ t.second = "answered") \/
                                             (t.first = "retryable" /\ t.second = "refused")}

\* Does `get' return the answer?  Otherwise it raises.
GetsOnFirstOnly(t) == t.first = "answered"
Gets(t) == t.first = "answered" \/ (t.first = "retryable" /\ t.inTime /\ t.second = "answered")

\* The server let the caller down twice, for good, or for too long: the judgement of
\* the properties, apart from what the code makes of it.
LetDown(t) == t.first = "refused" \/ (t.first = "retryable" /\ ~(t.inTime /\ t.second = "answered"))
=============================================================================
