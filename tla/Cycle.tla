------------------------------- MODULE Cycle -------------------------------
(***************************************************************************)
(* The monitoring cycle of the daemon (runtime.go): the engine goroutine   *)
(* gathers RDAP evidence, holds confirmed-expired domains back, gathers    *)
(* the remaining checks, evaluates them, stages condition history and      *)
(* alerts, publishes one snapshot, and only then commits the history and   *)
(* hands the alerts to the notifier.  A timeout, a cancellation or a       *)
(* failed encoding may end a cycle at the points where the code looks.     *)
(*                                                                         *)
(* Time is abstracted: the instant a condition was first seen is the       *)
(* number of the cycle that staged it, and a domain's expiration may pass  *)
(* while a cycle is between its two RDAP evaluations.                      *)
(***************************************************************************)
EXTENDS Integers, Sequences, FiniteSets

CONSTANTS
  Domains,         \* configured domains, each the sequence of its labels
  AllowExpiry,     \* domains configured with allow_expiry
  Delegated,       \* domains that are delegated zones: checked by DNS, not RDAP
  SuppressAlerts,  \* domains configured with suppress_alerts
  DomainChecks,    \* [Domains -> SUBSET {"email", "dnssec", "nsHealth"}]
  CAADomains,      \* domains whose caa policy generates an internal DNS task
  Records,         \* configured DNS tasks
  HostOf,          \* [Records -> hostname, as a sequence of labels]
  NoDomain,        \* the owner of a record that no configured domain covers
  MaxCycles        \* bound: cycles the engine runs

ASSUME CycleAssumption ==
  /\ Domains \subseteq Seq(STRING)
  /\ AllowExpiry \subseteq Domains
  /\ Delegated \subseteq Domains
  /\ SuppressAlerts \subseteq Domains
  /\ DomainChecks \in [Domains -> SUBSET {"email", "dnssec", "nsHealth"}]
  /\ CAADomains \subseteq Domains
  /\ HostOf \in [Records -> Seq(STRING)]
  /\ Records \cap Domains = {}
  /\ NoDomain \notin Domains
  /\ MaxCycles \in Nat

VARIABLES
  pc,             \* where the engine is in the cycle
  cycleID,        \* app.cycleSequence
  cancelled,      \* the parent context is done
  deadline,       \* the cycle's own timeout has fired
  rdapEvidence,   \* evidence.rdap: what the registry answered
  fastEvidence,   \* evidence.dns and evidence.domains, as their evaluation
  nextExpired,    \* evidence.expiredDomains
  loopState,      \* the results the cycle has built so far
  staged,         \* nextConditions and cycleAlerts, not committed yet
  published,      \* the snapshot readers see (PublishedStore)
  conditions,     \* prevConditions: committed history, by check and target
  prevStatus,     \* prevRDAPStatus, prevDNSStatus and prevEmailStatus
  expired,        \* app.Runtime.ExpiredDomains
  dispatched      \* alerts handed to the notifier since the last publication

evidenceVars == <<rdapEvidence, fastEvidence, nextExpired, loopState, staged>>
committedVars == <<conditions, prevStatus, expired>>
vars == <<pc, cycleID, cancelled, deadline, evidenceVars, published,
          committedVars, dispatched>>

-----------------------------------------------------------------------------
(* Checks, their keys and their results.                                   *)

Tasks == Records \cup CAADomains
TaskKey(t) == IF t \in Records THEN <<"dns", t>> ELSE <<"caa", t>>
Keys == ({"rdap", "email", "dnssec", "nsHealth", "caa"} \X Domains)
          \cup ({"dns"} \X Tasks)

Statuses == {"pending", "ok", "failed", "warning", "skipped"}
NoCode == "none"
Codes == {NoCode, "verified", "httpError", "expired", "expiringSoon",
          "mismatch", "lookupFailed", "policy"}

Result(status, code, findings) ==
  [status |-> status, code |-> code, findings |-> findings, since |-> 0]
Results == [status : Statuses, code : Codes, findings : SUBSET Codes,
            since : 0..MaxCycles]

\* A map after some of its entries have been assigned.
Assign(entries, results) ==
  [k \in DOMAIN entries \cup DOMAIN results |->
     IF k \in DOMAIN entries THEN entries[k] ELSE results[k]]

Pending == Result("pending", NoCode, {})
Healthy == Result("ok", "verified", {"verified"})
Finding(status, code) == Result(status, code, {code})

\* What a fast check can evaluate to.  Only the email check reports more than
\* the finding that decided its status.
Outcomes(check) ==
  {Healthy, Finding("failed", "lookupFailed"), Finding("warning", "policy")}
    \cup IF check = "email"
         THEN {Result("failed", "lookupFailed", {"lookupFailed", "policy"})}
         ELSE {}

\* The result a panicked worker leaves for a check it had not stored.
PanicResult(check) ==
  Result("failed", IF check = "rdap" THEN "httpError" ELSE "lookupFailed", {})

\* A hostname is a configured domain, or ends with a dot and that domain.
Covers(d, host) ==
  /\ Len(d) <= Len(host)
  /\ \A i \in 1..Len(d) : d[i] = host[i + Len(host) - Len(d)]

\* Mutant: the first suffix wins, without comparing lengths.
configuredDomainOwner_Shortest(host) ==
  LET owners == {d \in Domains : Covers(d, host)}
  IN IF owners = {} THEN NoDomain
     ELSE CHOOSE d \in owners : \A e \in owners : Len(d) <= Len(e)

\* The domain named by the longest configured suffix of a hostname.
configuredDomainOwner(host) ==
  LET owners == {d \in Domains : Covers(d, host)}
  IN IF owners = {} THEN NoDomain
     ELSE CHOOSE d \in owners : \A e \in owners : Len(e) <= Len(d)
TaskOwner(t) == configuredDomainOwner(IF t \in Records THEN HostOf[t] ELSE t)

\* The checks that stop when a domain is confirmed expired.
Dependents(d) ==
  ({"email", "dnssec", "nsHealth", "caa"} \X {d})
    \cup {<<"dns", t>> : t \in {r \in Records : TaskOwner(r) = d}}

-----------------------------------------------------------------------------
(* Evaluation.                                                             *)

\* What a registry may have answered.  "lapsing" is a registration whose
\* expiration instant passes during the cycle; "expired" also stands for a
\* domain that does not exist any more.
RDAPAnswers == {"registered", "lapsing", "expired", "mismatch", "unreachable"}

EvaluateRDAP(d, answer, lapsed) ==
  CASE answer = "unreachable" -> Finding("warning", "httpError")
    [] answer = "mismatch" -> Finding("failed", "mismatch")
    [] answer = "expired" \/ (answer = "lapsing" /\ lapsed) ->
         IF d \in AllowExpiry THEN Result("skipped", NoCode, {})
         ELSE Finding("failed", "expired")
    [] answer = "lapsing" /\ ~lapsed /\ d \notin AllowExpiry ->
         Finding("failed", "expiringSoon")
    [] OTHER -> Healthy

ExpiryConfirmed(results, d) ==
  d \in AllowExpiry \ Delegated /\ results[<<"rdap", d>>].status = "skipped"

newCycleState == [k \in {"rdap"} \X Domains |-> Pending]

\* Registrable domains take the evaluation of their RDAP answer.
evaluateRateLimitedEvidence(answers, lapsed) ==
  [k \in {"rdap"} \X (Domains \ Delegated) |->
     EvaluateRDAP(k[2], answers[k[2]], k[2] \in lapsed)]

\* Mutant: a registry failure releases the hold.
nextExpiredDomains_NoHold(current, results) ==
  {d \in AllowExpiry : ExpiryConfirmed(results, d)}

\* Mutant: once held, a domain is held for good.
nextExpiredDomains_NeverReleased(current, results) ==
  {d \in AllowExpiry : ExpiryConfirmed(results, d) \/ d \in current}

nextExpiredDomains(current, results) ==
  {d \in AllowExpiry :
     \/ ExpiryConfirmed(results, d)
     \/ d \in current /\ results[<<"rdap", d>>].code = "httpError"}

activeDomains == Domains \ nextExpired
activeTasks == {t \in Tasks : TaskOwner(t) \notin nextExpired}

\* A domain worker runs its checks in this order and stops where it panics.
FastChecks(d) == DomainChecks[d] \cup IF d \in Delegated THEN {"rdap"} ELSE {}
Position == [email |-> 1, rdap |-> 2, dnssec |-> 3, nsHealth |-> 4]
AllCompleted == 4
\* How far a worker may get: it panics in one of its checks, or in none.
Completions(d) == {Position[c] - 1 : c \in FastChecks(d)} \cup {AllCompleted}

ActiveFastKeys ==
  {TaskKey(t) : t \in activeTasks}
    \cup {k \in Keys : k[1] \in DOMAIN Position /\ k[2] \in activeDomains
                        /\ k[1] \in FastChecks(k[2])}

Completed(k) ==
  k[1] \in DOMAIN Position => Position[k[1]] <= fastEvidence.completed[k[2]]

\* Stores what was evaluated; after a panic every check of the domain that the
\* state does not hold yet is recorded as failed.  A check is held as soon as
\* the state has a result for it, whatever its status.
storePanicDomainResults(results) ==
  Assign([k \in {k \in ActiveFastKeys : ~Completed(k) /\ k \notin DOMAIN results} |->
            PanicResult(k[1])], results)

evaluateFastEvidence ==
  storePanicDomainResults(
    Assign([k \in {k \in ActiveFastKeys : Completed(k)} |-> fastEvidence.outcome[k]],
           newCycleState))

\* Mutant: the generated CAA check is forgotten.
suppressExpiredDomainChecks_KeepsCAA(results) ==
  LET expiredNow == {d \in Domains : ExpiryConfirmed(results, d)}
  IN [k \in {k \in DOMAIN results :
              k[1] = "caa" \/ \A d \in expiredNow : k \notin Dependents(d)}
        |-> results[k]]

suppressExpiredDomainChecks(results) ==
  LET gone == UNION {Dependents(d) : d \in {e \in Domains : ExpiryConfirmed(results, e)}}
  IN [k \in DOMAIN results \ gone |-> results[k]]

-----------------------------------------------------------------------------
(* Condition history and alerts.                                           *)

alertableStatus(status) == status \in {"failed", "warning"}
Alertable(result) == alertableStatus(result.status) /\ result.code # NoCode

\* The checks whose conditions prepareConditionsAndAlerts visits.
Visited(results) ==
  {k \in DOMAIN results :
     IF k[1] = "dns" THEN k[2] \in activeTasks ELSE k[2] \in activeDomains}

\* Mutant: a new code of the same check inherits the old first-seen time.
applyConditionSince_AnyCode(k, result) ==
  IF k \in DOMAIN conditions THEN conditions[k].since ELSE cycleID

applyConditionSince(k, result) ==
  IF k \in DOMAIN conditions /\ conditions[k].code = result.code
  THEN conditions[k].since ELSE cycleID

stampedResults(results) ==
  [k \in DOMAIN results |->
     IF k \in Visited(results) /\ Alertable(results[k])
     THEN [results[k] EXCEPT !.since = applyConditionSince(k, results[k])]
     ELSE results[k]]

\* The visited findings enter the history; an entry whose check was not
\* visited survives only while its result is still an alertable finding.
pruneConditionHistory(results) ==
  [k \in {k \in DOMAIN results : Alertable(results[k])
            /\ (k \in Visited(results) \/ k \in DOMAIN conditions)} |->
     IF k \in Visited(results)
     THEN [code |-> results[k].code, since |-> applyConditionSince(k, results[k])]
     ELSE conditions[k]]

\* suppress_alerts mutes a domain's own checks, never a configured DNS task.
Muted(k) == k[1] # "dns" /\ k[2] \in SuppressAlerts

\* Mutant: the additional findings of an email check raise nothing.
collectAlerts_PrimaryOnly(results) ==
  {[cycle |-> cycleID, key |-> k, code |-> results[k].code] :
     k \in {j \in Visited(results) : Alertable(results[j]) /\ ~Muted(j)}}

\* One alert per finding, and one per additional email finding.
collectAlerts(results) ==
  {[cycle |-> cycleID, key |-> a[1], code |-> a[2]] :
     a \in {b \in Visited(results) \X Codes :
              /\ Alertable(results[b[1]])
              /\ ~Muted(b[1])
              /\ \/ b[2] = results[b[1]].code
                 \/ b[1][1] = "email" /\ b[2] \in results[b[1]].findings}}

\* logStateTransitions keeps the statuses of these three checks only.
trackedStatuses(results) ==
  [k \in {k \in DOMAIN results : k[1] \in {"rdap", "dns", "email"}} |->
     results[k].status]

-----------------------------------------------------------------------------
NoEvidence == [outcome |-> <<>>, completed |-> <<>>]
NothingStaged == [conditions |-> <<>>, alerts |-> {}]

Init ==
  /\ pc = "idle"
  /\ cycleID = 0
  /\ cancelled = FALSE
  /\ deadline = FALSE
  /\ rdapEvidence = <<>>
  /\ fastEvidence = NoEvidence
  /\ nextExpired = {}
  /\ loopState = <<>>
  /\ staged = NothingStaged
  \* PublishInitialState: every domain and every DNS task is pending.
  /\ published = [id |-> 0, outcome |-> "initializing", lastSuccess |-> 0,
                  results |-> [k \in ({"rdap"} \X Domains) \cup ({"dns"} \X Tasks)
                                 |-> Pending]]
  /\ conditions = <<>>
  /\ prevStatus = <<>>
  /\ expired = {}
  /\ dispatched = {}

\* The local variables of a cycle go out of scope when it returns.
ReleaseEvidence ==
  /\ rdapEvidence' = <<>>
  /\ fastEvidence' = NoEvidence
  /\ nextExpired' = {}
  /\ loopState' = <<>>
  /\ deadline' = FALSE

StartCycle ==
  /\ pc = "idle"
  /\ cycleID < MaxCycles
  /\ cycleID' = cycleID + 1
  /\ pc' = "gatherRDAP"
  /\ UNCHANGED <<cancelled, deadline, evidenceVars, published, committedVars,
                 dispatched>>

\* Serial RDAP lookups, the first evaluation of their answers, and the
\* decision which domains are held back this cycle.
GatherRDAP ==
  /\ pc = "gatherRDAP"
  /\ \E answers \in [Domains \ Delegated -> RDAPAnswers] :
       /\ rdapEvidence' = answers
       /\ nextExpired' = nextExpiredDomains(expired,
            Assign(evaluateRateLimitedEvidence(answers, {}), newCycleState))
  /\ pc' = "gatherFast"
  /\ UNCHANGED <<cycleID, cancelled, deadline, fastEvidence, loopState, staged,
                 published, committedVars, dispatched>>

\* DNS and domain checks of the active workload.
GatherFast ==
  /\ pc = "gatherFast"
  /\ \E outcome \in [ActiveFastKeys -> UNION {Outcomes(k[1]) : k \in ActiveFastKeys}],
        completed \in [activeDomains -> 0..AllCompleted] :
       /\ \A d \in activeDomains : completed[d] \in Completions(d)
       /\ \A k \in ActiveFastKeys : outcome[k] \in Outcomes(k[1])
       /\ fastEvidence' = [outcome |-> outcome, completed |-> completed]
  /\ pc' = "gathered"
  /\ UNCHANGED <<cycleID, cancelled, deadline, rdapEvidence, nextExpired,
                 loopState, staged, published, committedVars, dispatched>>

CycleDone == cancelled \/ deadline

Evaluate ==
  /\ pc = "gathered"
  /\ ~CycleDone
  /\ \E lapsed \in SUBSET {d \in DOMAIN rdapEvidence : rdapEvidence[d] = "lapsing"} :
       loopState' = suppressExpiredDomainChecks(
         Assign(evaluateRateLimitedEvidence(rdapEvidence, lapsed), evaluateFastEvidence))
  /\ rdapEvidence' = <<>>  \* not read again: only expiredDomains is
  /\ fastEvidence' = NoEvidence
  /\ pc' = "evaluated"
  /\ UNCHANGED <<cycleID, cancelled, deadline, nextExpired, staged, published,
                 committedVars, dispatched>>

\* Mutant: the failed attempt does not carry the last success over.
GiveUp_ForgetsLastSuccess ==
  /\ pc \in {"gathered", "evaluated"}
  /\ CycleDone
  /\ published' = IF cancelled THEN published
                  ELSE [published EXCEPT !.id = cycleID, !.outcome = "failed",
                                         !.lastSuccess = 0]
  /\ pc' = "idle"
  /\ ReleaseEvidence
  /\ UNCHANGED <<cycleID, cancelled, staged, committedVars, dispatched>>

\* Mutant: the failed attempt takes a sequence number of its own.
GiveUp_NextID ==
  /\ pc \in {"gathered", "evaluated"}
  /\ CycleDone
  /\ published' = IF cancelled THEN published
                  ELSE [published EXCEPT !.id = cycleID + 1, !.outcome = "failed"]
  /\ pc' = "idle"
  /\ ReleaseEvidence
  /\ UNCHANGED <<cycleID, cancelled, staged, committedVars, dispatched>>

\* Either context check ends the cycle.  Unless the daemon is stopping, the
\* last snapshot is published again with the metadata of the failed attempt.
GiveUp ==
  /\ pc \in {"gathered", "evaluated"}
  /\ CycleDone
  /\ published' = IF cancelled THEN published
                  ELSE [published EXCEPT !.id = cycleID, !.outcome = "failed"]
  /\ pc' = "idle"
  /\ ReleaseEvidence
  /\ UNCHANGED <<cycleID, cancelled, staged, committedVars, dispatched>>

\* Stages history and alerts on a copy, then swaps the new snapshot in.
Publish ==
  /\ pc = "evaluated"
  /\ ~CycleDone
  /\ staged' = [conditions |-> pruneConditionHistory(loopState),
                alerts |-> collectAlerts(loopState)]
  /\ published' = [id |-> cycleID, outcome |-> "success", lastSuccess |-> cycleID,
                   results |-> stampedResults(loopState)]
  /\ dispatched' = {}
  /\ pc' = "published"
  /\ UNCHANGED <<cycleID, cancelled, deadline, rdapEvidence, fastEvidence,
                 nextExpired, loopState, committedVars>>

\* Mutant: the history is updated in place, not on a copy.
EncodingFails_InPlace ==
  /\ pc = "evaluated"
  /\ ~CycleDone
  /\ conditions' = pruneConditionHistory(loopState)
  /\ pc' = "idle"
  /\ ReleaseEvidence
  /\ UNCHANGED <<cycleID, cancelled, staged, published, prevStatus, expired,
                 dispatched>>

\* The snapshot cannot be encoded: the cycle returns with nothing committed.
EncodingFails ==
  /\ pc = "evaluated"
  /\ ~CycleDone
  /\ pc' = "idle"
  /\ ReleaseEvidence
  /\ UNCHANGED <<cycleID, cancelled, staged, published, committedVars, dispatched>>

Commit ==
  /\ pc = "published"
  /\ conditions' = staged.conditions
  /\ prevStatus' = trackedStatuses(published.results)
  /\ expired' = nextExpired
  /\ staged' = [staged EXCEPT !.conditions = <<>>]
  /\ pc' = "dispatching"
  /\ UNCHANGED <<cycleID, cancelled, deadline, rdapEvidence, fastEvidence,
                 nextExpired, loopState, published, dispatched>>

\* dispatchCycleAlerts: one call of the notifier per alert.
DispatchAlert ==
  /\ pc = "dispatching"
  /\ \E alert \in staged.alerts :
       /\ dispatched' = dispatched \cup {alert}
       /\ staged' = [staged EXCEPT !.alerts = @ \ {alert}]
  /\ UNCHANGED <<pc, cycleID, cancelled, deadline, rdapEvidence, fastEvidence,
                 nextExpired, loopState, published, committedVars>>

\* Mutant: a cancelled cycle drops the alerts it has not handed over yet.
EndCycle_DropsAlerts ==
  /\ pc = "dispatching"
  /\ staged.alerts = {} \/ cancelled
  /\ pc' = "idle"
  /\ ReleaseEvidence
  /\ UNCHANGED <<cycleID, cancelled, staged, published, committedVars, dispatched>>

EndCycle ==
  /\ pc = "dispatching"
  /\ staged.alerts = {}
  /\ pc' = "idle"
  /\ ReleaseEvidence
  /\ UNCHANGED <<cycleID, cancelled, staged, published, committedVars, dispatched>>

\* The engine leaves its loop between two cycles once it sees the cancellation.
ExitEngine ==
  /\ pc = "idle"
  /\ cycleID > 0
  /\ cancelled
  /\ pc' = "exited"
  /\ UNCHANGED <<cycleID, cancelled, deadline, evidenceVars, published,
                 committedVars, dispatched>>

\* The environment: a termination signal, and the cycle's timeout.
Cancel ==
  /\ ~cancelled
  /\ cancelled' = TRUE
  /\ UNCHANGED <<pc, cycleID, deadline, evidenceVars, published, committedVars,
                 dispatched>>

\* After its second check the cycle never looks at its deadline again.
TimeOut ==
  /\ pc \in {"gatherRDAP", "gatherFast", "gathered", "evaluated"}
  /\ ~deadline
  /\ deadline' = TRUE
  /\ UNCHANGED <<pc, cycleID, cancelled, evidenceVars, published, committedVars,
                 dispatched>>

\* A cycle that has started runs by itself; its next start waits for a timer.
CycleStep == GatherRDAP \/ GatherFast \/ Evaluate \/ GiveUp \/ Publish
               \/ EncodingFails \/ Commit \/ DispatchAlert \/ EndCycle

Next == StartCycle \/ CycleStep \/ ExitEngine \/ Cancel \/ TimeOut

Spec == Init /\ [][Next]_vars
FairSpec == Spec /\ WF_vars(CycleStep)
-----------------------------------------------------------------------------
(* Properties.                                                             *)

TypeOK ==
  /\ pc \in {"idle", "gatherRDAP", "gatherFast", "gathered", "evaluated",
             "published", "dispatching", "exited"}
  /\ cycleID \in 0..MaxCycles
  /\ cancelled \in BOOLEAN
  /\ deadline \in BOOLEAN
  /\ nextExpired \subseteq AllowExpiry
  /\ expired \subseteq AllowExpiry
  /\ published.id \in 0..cycleID
  /\ published.lastSuccess \in 0..published.id
  /\ published.outcome \in {"initializing", "success", "failed"}
  /\ DOMAIN published.results \subseteq Keys
  /\ \A k \in DOMAIN published.results : published.results[k] \in Results
  /\ DOMAIN conditions \subseteq Keys
  /\ \A k \in DOMAIN conditions :
        conditions[k] \in [code : Codes, since : 0..MaxCycles]

\* The RDAP result of a held domain is published but not visited: its domain
\* takes no part in the cycle's active workload.
Held(k, holding) == k[1] = "rdap" /\ k[2] \in holding

\* Committed history is exactly the findings of the last successful snapshot,
\* with the same codes and the same first-seen times, and the remembered
\* statuses are that snapshot's: failed attempts and encoding failures commit
\* nothing (runtime.go:641-664).
HistoryMatchesPublication ==
  pc # "published" =>
    /\ \A k \in DOMAIN conditions :
         /\ k \in DOMAIN published.results
         /\ Alertable(published.results[k])
         /\ conditions[k].code = published.results[k].code
         /\ conditions[k].since = published.results[k].since
    /\ published.lastSuccess > 0 =>
         /\ \A k \in DOMAIN published.results :
              Alertable(published.results[k]) /\ ~Held(k, expired)
                => k \in DOMAIN conditions
         /\ prevStatus = trackedStatuses(published.results)

\* No alert reaches the notifier for a snapshot readers cannot see: every
\* alert handed over belongs to the last published successful cycle.
AlertsFollowPublication ==
  \A alert \in dispatched : alert.cycle = published.lastSuccess

\* What the last successful snapshot must have raised.
ExpectedAlerts ==
  {[cycle |-> published.lastSuccess, key |-> a[1], code |-> a[2]] :
     a \in {b \in (DOMAIN published.results) \X Codes :
              LET result == published.results[b[1]] IN
              /\ Alertable(result)
              /\ b[1][2] \in SuppressAlerts => b[1][1] = "dns"
              /\ ~Held(b[1], expired)
              /\ b[2] \in {result.code} \cup
                   (IF b[1][1] = "email" THEN result.findings ELSE {})}}

\* Between cycles, the notifier has been given every unmuted finding of the
\* last successful snapshot and nothing else, whatever failed since.  (Which
\* alerts, not how many times: a set does not show a repeated one.)
EveryFindingAlerts ==
  pc \in {"idle", "exited"} /\ published.lastSuccess > 0
    => dispatched = ExpectedAlerts

\* A snapshot that shows a domain as confirmed expired, or that was gathered
\* while the domain was held back, shows none of its dependent checks, and
\* none of them raises an alert, even when the expiration instant passed
\* after the dependent checks had been gathered.
ExpiredDomainsStaySilent ==
  published.lastSuccess > 0 =>
    \A d \in Domains :
      ExpiryConfirmed(published.results, d) \/ (d \in expired /\ pc # "published")
        => /\ Dependents(d) \cap DOMAIN published.results = {}
           /\ \A alert \in dispatched \cup staged.alerts :
                alert.key \notin Dependents(d)

\* Only expiry silences a configured DNS task: when the last successful
\* snapshot lacks it, the closest configured domain above its hostname was
\* held back or is confirmed expired.  An expired parent never silences a
\* delegated zone below it.
OnlyExpirySilences ==
  published.lastSuccess > 0 =>
    \A r \in Records : <<"dns", r>> \notin DOMAIN published.results =>
      \E d \in Domains :
        /\ Covers(d, HostOf[r])
        /\ \A e \in Domains : Covers(e, HostOf[r]) => Len(e) <= Len(d)
        /\ \/ ExpiryConfirmed(published.results, d)
           \/ d \in IF pc = "published" THEN nextExpired ELSE expired

\* A held domain is released only by a published RDAP result that is an
\* answer, never because the registry could not be reached; and no domain is
\* held, or stays held, past a published answer that does not confirm its
\* expiry.
HoldReleasedByAnswer ==
  [][/\ \A d \in expired \ expired' :
          published.results[<<"rdap", d>>].code # "httpError"
     /\ pc = "published" /\ pc' # "published" =>
          \A d \in expired' :
            \/ ExpiryConfirmed(published.results, d)
            \/ published.results[<<"rdap", d>>].code = "httpError"]_vars

\* A finding keeps its first-seen time exactly as long as successive snapshots
\* show the same code, across failed cycles; any other finding starts now.
SinceIsFirstSeen ==
  [][published'.lastSuccess # published.lastSuccess =>
       \A k \in DOMAIN published'.results :
         LET new == published'.results[k]
             seen == /\ k \in DOMAIN published.results
                     /\ Alertable(published.results[k])
                     /\ published.results[k].code = new.code
         IN Alertable(new) /\ ~Held(k, nextExpired) =>
              new.since = IF seen THEN published.results[k].since ELSE cycleID]_vars

\* Once published, a snapshot is followed by its commit and by all its alerts,
\* even if the daemon is told to stop in between.
PublicationIsFollowedThrough ==
  pc = "published" ~> pc = "idle" /\ dispatched = ExpectedAlerts

\* The feed readers see implements the abstract one.
Feed == INSTANCE Publication WITH
          evidence <- published.results, lastSuccess <- published.lastSuccess,
          attempt <- published.id, outcome <- published.outcome
ImplementsPublication == Feed!Spec

\* A completed cycle leaves no check pending (runtime_test.go:586-591 requires
\* a panicked domain worker to leave every check of its domain failed).
CompletedCycleEvaluatesEveryCheck ==
  published.lastSuccess > 0 =>
    \A k \in DOMAIN published.results : published.results[k].status # "pending"

\* README.md:230-232: confirmed expiry suppresses the dependent checks until
\* registration reappears, so a snapshot in which the registry cannot be
\* reached, right after one that confirmed expiry, shows no dependent check.
ConfirmedExpiryHolds ==
  [][published'.lastSuccess # published.lastSuccess =>
       \A d \in Domains :
         /\ ExpiryConfirmed(published.results, d)
         /\ published'.results[<<"rdap", d>>].code = "httpError"
         => Dependents(d) \cap DOMAIN published'.results = {}]_vars
=============================================================================
