------------------------------- MODULE Notify -------------------------------
(***************************************************************************)
(* The notifier (notify.go): alerts are queued in report order under a     *)
(* mutex, at most Capacity of them; the notification worker detaches the   *)
(* queue, builds one report and posts it with the retry loop of utils.go   *)
(* while the engine goes on queueing.                                      *)
(*                                                                         *)
(* The queue is kept as a set: report order is strict, because alerts that *)
(* compare equal stay in the order of their arrival (a stable sort).       *)
(***************************************************************************)
EXTENDS Integers, FiniteSets, FiniteSetsExt

CONSTANTS
  Priorities,          \* severities, the higher the more urgent
  Targets,             \* ranks of (domain, name) in report order
  Capacity,            \* MaxCycleReportItems
  MaxNetworkAttempts,  \* posts of one report
  MaxAlerts            \* bound: alerts raised

ASSUME NotifyAssumption ==
  /\ Priorities \subseteq Int
  /\ Targets \subseteq Int
  /\ Capacity \in Nat \ {0}
  /\ MaxNetworkAttempts \in Nat \ {0}
  /\ MaxAlerts \in Nat

VARIABLES
  alertBatch,    \* the queue
  omitted,       \* alerts dropped from it since it was last taken
  arrivals,      \* alerts raised so far
  stopped,       \* the worker's context is done
  report,        \* what FlushContext is working on
  offered,       \* history: raised since the queue was last taken
  reported,      \* history: the last report taken
  finished       \* history: finished deliveries and what became of them

queueVars == <<alertBatch, omitted, arrivals, offered>>
notifyVars == <<queueVars, stopped, report, reported, finished>>

Alert == [priority : Priorities, target : Targets, arrival : 1..MaxAlerts]

\* sortAlerts.  Queued alerts carry no check name, so severity comes first,
\* then domain and name.
Before(a, b) ==
  \/ a.priority > b.priority
  \/ a.priority = b.priority /\ a.target < b.target
  \/ a.priority = b.priority /\ a.target = b.target /\ a.arrival < b.arrival

Last(batch) == CHOOSE a \in batch : \A b \in batch \ {a} : Before(b, a)

NoReport == [phase |-> "none", items |-> {}, omitted |-> 0, attempt |-> 0,
             copies |-> 0]

NotifyInit ==
  /\ alertBatch = {}
  /\ omitted = 0
  /\ arrivals = 0
  /\ stopped = FALSE
  /\ report = NoReport
  /\ offered = {}
  /\ reported = [items |-> {}, omitted |-> 0]
  /\ finished = {}

-----------------------------------------------------------------------------
\* Mutant: at capacity the newcomer is turned away.
Enqueue_RefusesNewest(alert) ==
  IF Cardinality(alertBatch) >= Capacity
  THEN /\ alertBatch' = alertBatch
       /\ omitted' = omitted + 1
  ELSE /\ alertBatch' = alertBatch \cup {alert}
       /\ UNCHANGED omitted

\* Mutant: what is cut off is not counted.
Enqueue_Uncounted(alert) ==
  LET all == alertBatch \cup {alert} IN
  /\ alertBatch' = IF Cardinality(all) > Capacity THEN all \ {Last(all)} ELSE all
  /\ UNCHANGED omitted

\* Append, sort, truncate.
Enqueue(alert) ==
  LET all == alertBatch \cup {alert} IN
  IF Cardinality(all) > Capacity
  THEN /\ alertBatch' = all \ {Last(all)}
       /\ omitted' = omitted + 1
  ELSE /\ alertBatch' = all
       /\ UNCHANGED omitted

Dispatch(priority, target) ==
  /\ arrivals < MaxAlerts
  /\ LET alert == [priority |-> priority, target |-> target,
                   arrival |-> arrivals + 1]
     IN /\ Enqueue(alert)
        /\ offered' = offered \cup {alert}
  /\ arrivals' = arrivals + 1
  /\ UNCHANGED <<stopped, report, reported, finished>>

\* Mutant: the count of omitted alerts survives into the next report.
Detach_KeepsOmitted ==
  /\ alertBatch' = {}
  /\ UNCHANGED omitted

\* takeAlertBatch: queue and count start over.
Detach ==
  /\ alertBatch' = {}
  /\ omitted' = 0

\* FlushContext up to the report; an empty batch ends it.
TakeBatch ==
  /\ report.phase = "none"
  /\ Detach
  /\ offered' = {}
  /\ IF alertBatch = {}
     THEN UNCHANGED <<report, reported>>
     ELSE /\ report' = [NoReport EXCEPT !.phase = "built", !.items = alertBatch,
                                        !.omitted = omitted]
          /\ reported' = [items |-> alertBatch, omitted |-> omitted]
  /\ UNCHANGED <<arrivals, stopped, finished>>

\* The delivery of the current report ends; nothing is queued again.
Finish(accepted, copies) ==
  /\ finished' = finished \cup
       {[items |-> report.items, omitted |-> report.omitted,
         copies |-> copies, accepted |-> accepted]}
  /\ report' = NoReport

\* The context is checked before the first post only; a retry checks it while
\* it waits.
Discard ==
  /\ report.phase = "built"
  /\ stopped
  /\ Finish(FALSE, 0)
  /\ UNCHANGED <<queueVars, stopped, reported>>

FirstPost ==
  /\ report.phase = "built"
  /\ ~stopped
  /\ report' = [report EXCEPT !.phase = "posting", !.attempt = 1]
  /\ UNCHANGED <<queueVars, stopped, reported, finished>>

\* A temporary status, or a network error that is not the context's own.
MayRetry == report.attempt < MaxNetworkAttempts /\ ~stopped

\* What the worker may learn of a post.  It can only be told that a report was
\* accepted by a server that has it, but a post whose answer is lost or
\* temporary may have been received all the same.
Verdicts(received) ==
  {"refused", "temporary"} \cup IF received THEN {"accepted"} ELSE {}

Answer ==
  /\ report.phase = "posting"
  /\ \E received \in BOOLEAN : \E verdict \in Verdicts(received) :
       LET copies == report.copies + IF received THEN 1 ELSE 0 IN
       IF verdict = "temporary" /\ MayRetry
       THEN /\ report' = [report EXCEPT !.phase = "waiting", !.copies = copies]
            /\ UNCHANGED finished
       ELSE Finish(verdict = "accepted", copies)
  /\ UNCHANGED <<queueVars, stopped, reported>>

\* Mutant: a retry does not count as an attempt.
Retry_Uncounted ==
  /\ report.phase = "waiting"
  /\ ~stopped
  /\ report' = [report EXCEPT !.phase = "posting"]
  /\ UNCHANGED <<queueVars, stopped, reported, finished>>

\* The backoff elapses.  A retry that starts with the context done fails
\* before it reaches the server, which is GiveUpRetry.
Retry ==
  /\ report.phase = "waiting"
  /\ ~stopped
  /\ report' = [report EXCEPT !.phase = "posting", !.attempt = @ + 1]
  /\ UNCHANGED <<queueVars, stopped, reported, finished>>

\* The delay is too long, the deadline too close, or the context done.
GiveUpRetry ==
  /\ report.phase = "waiting"
  /\ Finish(FALSE, report.copies)
  /\ UNCHANGED <<queueVars, stopped, reported>>

\* notificationCancel.
StopNotifier ==
  /\ stopped' = TRUE
  /\ UNCHANGED <<queueVars, report, reported, finished>>

Deliver == Discard \/ FirstPost \/ Answer \/ Retry \/ GiveUpRetry

NotifyNext ==
  \/ \E priority \in Priorities, target \in Targets : Dispatch(priority, target)
  \/ TakeBatch
  \/ Deliver
  \/ StopNotifier

NotifySpec == NotifyInit /\ [][NotifyNext]_notifyVars

\* Every delivery step ends by itself: a request has a timeout, a backoff a
\* bound, and the deadline of the flush covers both.
NotifyFairSpec == NotifySpec /\ WF_notifyVars(Deliver)
-----------------------------------------------------------------------------
\* A report is posted at most MaxNetworkAttempts times and received at most once
\* for each post.
NotifyTypeOK ==
  /\ alertBatch \subseteq Alert
  /\ omitted \in 0..MaxAlerts
  /\ arrivals \in 0..MaxAlerts
  /\ stopped \in BOOLEAN
  /\ report.phase \in {"none", "built", "posting", "waiting"}
  /\ report.items \subseteq Alert
  /\ report.omitted \in 0..MaxAlerts
  /\ report.attempt \in 0..MaxNetworkAttempts
  /\ report.copies \in 0..report.attempt
  /\ offered \subseteq Alert

\* How many alerts a report accounts for.
Weight(r) == Cardinality(r.items) + r.omitted

\* Every alert ever raised is in exactly one place: queued, carried by the
\* report in flight or by a finished one, or counted as omitted by one of them.
EveryAlertAccountedFor ==
  arrivals = Cardinality(alertBatch) + omitted + Weight(report)
               + MapThenSumSet(Weight, finished)

\* A flush ends whatever the server answers, so the worker is free for the
\* next wake.
DeliveryEnds == report.phase # "none" ~> report.phase = "none"

\* Queue and reports implement the abstract alert queue.
Queue == INSTANCE AlertQueue WITH Alerts <- Alert
ImplementsAlertQueue == Queue!Spec
=============================================================================
