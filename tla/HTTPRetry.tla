----------------------------- MODULE HTTPRetry -----------------------------
(***************************************************************************)
(* One call of doHTTPWithRetry (utils.go): a request is sent until a       *)
(* response is final, the attempts are used up or it is too late to try    *)
(* again, with a backoff in between that a server may prolong.  The        *)
(* catalog, the bootstrap registry, DoH and the notifier are asked so.     *)
(*                                                                         *)
(* Times are whole units since the call began.  A delay is a signed        *)
(* integer of bounded width, as time.Duration is.  A reply has a kind:     *)
(*   final, temporary  a response; one that retryableHTTPStatus retries    *)
(*   timeout, broken   an error that is transient, or is not (the request  *)
(*                     could not be made, the answer was empty)            *)
(***************************************************************************)
EXTENDS Integers

CONSTANTS
  Policies,            \* whether errors are retried: "transient", "status only"
  Deadlines,           \* when the context ends; NoDeadline if it does not
  NoDeadline,
  RetryAfters,         \* Retry-After headers: "seconds", or how far a "date" lies
  RequestTimes,        \* how long a request may take
  RequestTimeout,      \* of the client
  Lateness,            \* bound: how late a timer is noticed
  Second,              \* in units of the clock
  DurationLimit,       \* durations and integers are below it, and at least its negative
  MaxNetworkAttempts, HTTPRetryBaseDelay, RetryJitterDivisor, MaxRetryDelay

ASSUME HTTPRetryAssumption ==
  /\ NoDeadline \notin Int /\ Deadlines \subseteq Nat \cup {NoDeadline}
  /\ \A h \in RetryAfters : h.form \in {"none", "seconds", "date"} /\ h.value \in Int
  /\ RequestTimeout \in Nat /\ RequestTimes \subseteq 0 .. RequestTimeout
  /\ Lateness \in Nat
  /\ Second \in Nat \ {0} /\ DurationLimit \in Nat \ {0}
  /\ MaxNetworkAttempts \in Nat \ {0}
  /\ HTTPRetryBaseDelay \in Nat /\ RetryJitterDivisor \in Nat \ {0}
  /\ MaxRetryDelay \in Nat

VARIABLES
  policy,      \* policy of the caller
  deadline,    \* of the caller's context
  cancelled,   \* the context was cancelled
  now,         \* the clock
  attempt,     \* the loop's counter
  stage,       \* "send", "answered", "waiting" or "ended"
  reply,       \* what came of the attempt
  wakeAt,      \* when the timer fires
  open,        \* response bodies that nobody has closed
  result,      \* "response", "error", or "context" for the error of the context
  asked        \* history: the header of the response that is being retried, and when
               \* it arrived

retryVars == <<policy, deadline, cancelled, now, attempt, stage, reply, wakeAt, open,
               result, asked>>

-----------------------------------------------------------------------------
(* How long to wait.                                                       *)

\* A product of integers of bounded width.
Wrapped(n) == ((n + DurationLimit) % (2 * DurationLimit)) - DurationLimit

\* strconv.Atoi refuses what is no integer, and the difference of two times saturates.
responseRetryAfter(header) ==
  CASE header.form = "seconds" /\ header.value > 0 /\ header.value < DurationLimit ->
         Wrapped(header.value * Second)
    [] header.form = "date" /\ header.value > 0 ->
         IF header.value < DurationLimit THEN header.value ELSE DurationLimit - 1
    [] OTHER -> 0

\* The delays with which retryBackoff may answer.
retryBackoff ==
  LET delay == HTTPRetryBaseDelay * 2 ^ (attempt - 1) IN
  delay .. (delay + delay \div RetryJitterDivisor)

\* What 2 ^ n is, for the proofs, to which it is opaque.
ASSUME PowerAssumption == \A n \in 0 .. MaxNetworkAttempts - 1 : 2 ^ n \in Nat

Prolonged(own, server) == IF server > own THEN server ELSE own

\* Mutant: the server is not listened to.
Delays_Own == retryBackoff

Delays ==
  {Prolonged(own, IF reply.kind = "temporary" THEN responseRetryAfter(reply.header) ELSE 0) :
     own \in retryBackoff}

ContextDone == cancelled \/ (deadline # NoDeadline /\ now >= deadline)

\* Mutant: a delay is compared with its bound before the server prolongs it.
InTime_OwnDelay(delay) ==
  /\ \E own \in retryBackoff : own <= MaxRetryDelay
  /\ deadline # NoDeadline => now + delay < deadline

\* Not too long, and over before the deadline.
InTime(delay) ==
  /\ delay <= MaxRetryDelay
  /\ deadline # NoDeadline => now + delay < deadline

-----------------------------------------------------------------------------
(* An attempt.                                                             *)

NoHeader == [form |-> "none", value |-> 0]
Reply(kind, body, header) == [kind |-> kind, body |-> body, header |-> header]
NoReply == Reply("none", FALSE, NoHeader)

\* An error may come with a response, whose body has to be closed too.
Replies ==
  {Reply("final", TRUE, NoHeader)} \cup
  {Reply("temporary", TRUE, header) : header \in RetryAfters} \cup
  {Reply(kind, body, NoHeader) : kind \in {"timeout", "broken"}, body \in BOOLEAN}

BeforeDeadline(time) == IF deadline # NoDeadline /\ time > deadline THEN deadline ELSE time

\* doHTTPRequest: once the context is done nothing is sent, and a request ends with the
\* context at the latest.
Send ==
  /\ stage = "send"
  /\ IF ContextDone
     THEN reply' = Reply("broken", FALSE, NoHeader) /\ UNCHANGED now
     ELSE /\ reply' \in Replies
          /\ \E time \in RequestTimes : now' = BeforeDeadline(now + time)
  /\ open' = open + IF reply'.body THEN 1 ELSE 0
  /\ stage' = "answered"
  /\ UNCHANGED <<policy, deadline, cancelled, attempt, wakeAt, result, asked>>

\* The response of the last attempt is the caller's, whatever its status.
IsResult ==
  \/ reply.kind = "final"
  \/ reply.kind = "temporary" /\ attempt = MaxNetworkAttempts

\* A temporary status, or transientNetworkError.
Temporary ==
  \/ reply.kind = "temporary"
  \/ reply.kind = "timeout" /\ policy = "transient" /\ ~ContextDone

\* DrainAndClose.
Drain == open' = open - IF reply.body THEN 1 ELSE 0

Answered == stage = "answered"
End(what) == stage' = "ended" /\ result' = what

Succeed ==
  /\ Answered
  /\ IsResult
  /\ End("response")
  /\ UNCHANGED <<policy, deadline, cancelled, now, attempt, reply, wakeAt, open, asked>>

\* Mutant: a response that accompanies an error is forgotten.
Fail_KeepsBody ==
  /\ Answered
  /\ ~IsResult
  /\ ~Temporary \/ attempt = MaxNetworkAttempts
  /\ End("error")
  /\ UNCHANGED <<policy, deadline, cancelled, now, attempt, reply, wakeAt, open, asked>>

Fail ==
  /\ Answered
  /\ ~IsResult
  /\ ~Temporary \/ attempt = MaxNetworkAttempts
  /\ Drain
  /\ End("error")
  /\ UNCHANGED <<policy, deadline, cancelled, now, attempt, reply, wakeAt, asked>>

Retryable == Answered /\ ~IsResult /\ Temporary /\ attempt # MaxNetworkAttempts

\* What was asked for is left to a later call.
GiveUp ==
  /\ Retryable
  /\ Drain
  /\ \/ ContextDone /\ End("context")
     \/ /\ ~ContextDone
        /\ \E delay \in Delays : ~InTime(delay)
        /\ End("error")
  /\ UNCHANGED <<policy, deadline, cancelled, now, attempt, reply, wakeAt, asked>>

Wait ==
  /\ Retryable
  /\ ~ContextDone
  /\ Drain
  /\ \E delay \in Delays : InTime(delay) /\ wakeAt' = now + delay
  /\ stage' = "waiting"
  /\ asked' = [header |-> reply.header, at |-> now]
  /\ UNCHANGED <<policy, deadline, cancelled, now, attempt, reply, result>>

\* The timer, which may be noticed late; if the context is done by then, select takes
\* either.
Retry ==
  /\ stage = "waiting"
  /\ now' \in wakeAt .. (wakeAt + Lateness)
  /\ attempt' = attempt + 1
  /\ stage' = "send"
  /\ UNCHANGED <<policy, deadline, cancelled, reply, wakeAt, open, result, asked>>

Interrupt ==
  /\ stage = "waiting"
  /\ now' \in now .. (wakeAt + Lateness)
  /\ cancelled \/ (deadline # NoDeadline /\ now' >= deadline)
  /\ End("context")
  /\ UNCHANGED <<policy, deadline, cancelled, attempt, reply, wakeAt, open, asked>>

Cancel ==
  /\ stage # "ended"
  /\ ~cancelled
  /\ cancelled' = TRUE
  /\ UNCHANGED <<policy, deadline, now, attempt, stage, reply, wakeAt, open, result, asked>>

RetryInit ==
  /\ policy \in Policies
  /\ deadline \in Deadlines
  /\ cancelled = FALSE
  /\ now = 0
  /\ attempt = 1
  /\ stage = "send"
  /\ reply = NoReply
  /\ wakeAt = 0
  /\ open = 0
  /\ result = "none"
  /\ asked = [header |-> NoHeader, at |-> 0]

RetryNext ==
  \/ Send \/ Succeed \/ Fail \/ GiveUp \/ Wait \/ Retry \/ Interrupt \/ Cancel

RetrySpec == RetryInit /\ [][RetryNext]_retryVars

-----------------------------------------------------------------------------
(* Properties.                                                             *)

\* A caller is given either an open response, which it closes, or an error; no other
\* response stays open, whatever came of the earlier attempts and of the waits between
\* them (doHTTPWithRetry drops the value of an attempt that is interrupted).
NoBodyIsLeaked == stage = "ended" => open = IF result = "response" THEN 1 ELSE 0

\* Whoever makes the call, holding a mutex or a worker, is free again in bounded time, even
\* if its context has no deadline and the server asks for any delay; and no wait outlasts
\* the deadline.
ReturnsInTime ==
  /\ now <= MaxNetworkAttempts * RequestTimeout
              + (MaxNetworkAttempts - 1) * (MaxRetryDelay + Lateness)
  /\ deadline # NoDeadline => now <= deadline + Lateness

Requested(header) ==
  IF header.value <= 0 THEN 0
  ELSE CASE header.form = "seconds" -> header.value * Second
         [] header.form = "date" -> header.value
         [] OTHER -> 0

\* A server is not asked again before the time it named, by the header's seconds or by its
\* date, after whatever attempts: as long as the delay is one that a time.Duration can
\* express (utils_test.go:76, "a long Retry-After must defer work to a later cycle").
ShortRetryAfterIsHonoured ==
  /\ stage = "send"
  /\ Requested(asked.header) < DurationLimit
  => now >= asked.at + Requested(asked.header)
=============================================================================
