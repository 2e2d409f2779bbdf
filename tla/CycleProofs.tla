---------------------------- MODULE CycleProofs ----------------------------
(***************************************************************************)
(* Theorems about the monitoring cycle, for every portfolio and any number *)
(* of cycles: types, the order of publication and alerts, the refinement   *)
(* of the abstract feed, the agreement of the committed history with the   *)
(* published snapshot, and, with a second and a third part of the          *)
(* invariant, what expiry silences, which alerts are due, when a held      *)
(* domain is released and how long a first-seen time is kept.              *)
(***************************************************************************)
EXTENDS Cycle, SetFacts, SequenceTheorems, TLAPS

-----------------------------------------------------------------------------
(* Result maps and condition histories are closed under the operations of  *)
(* a cycle.                                                                *)

IsResultMap(f) == DOMAIN f \subseteq Keys /\ f \in [DOMAIN f -> Results]

History == [code : Codes, since : 0..MaxCycles]
IsHistory(h) == DOMAIN h \subseteq Keys /\ h \in [DOMAIN h -> History]

LEMMA ResultTyped ==
  ASSUME NEW status \in Statuses, NEW code \in Codes, NEW findings \in SUBSET Codes
  PROVE  Result(status, code, findings) \in Results
<1>1. 0 \in 0..MaxCycles
  BY CycleAssumption
<1> QED BY <1>1 DEF Result, Results

LEMMA ConstantsTyped ==
  /\ Pending \in Results
  /\ Healthy \in Results
  /\ \A status \in Statuses, code \in Codes : Finding(status, code) \in Results
  /\ \A check : PanicResult(check) \in Results
<1>1. NoCode \in Codes /\ {"verified"} \in SUBSET Codes /\ {} \in SUBSET Codes
        /\ "verified" \in Codes /\ "httpError" \in Codes /\ "lookupFailed" \in Codes
  BY DEF Codes, NoCode
<1>2. "pending" \in Statuses /\ "ok" \in Statuses /\ "failed" \in Statuses
  BY DEF Statuses
<1>3. Pending \in Results /\ Healthy \in Results
  BY <1>1, <1>2, ResultTyped DEF Pending, Healthy
<1>4. \A status \in Statuses, code \in Codes : Finding(status, code) \in Results
  BY ResultTyped DEF Finding
<1>5. \A check : PanicResult(check) \in Results
  BY <1>1, <1>2, ResultTyped DEF PanicResult
<1> QED BY <1>3, <1>4, <1>5

LEMMA OutcomesTyped ==
  ASSUME NEW check
  PROVE  Outcomes(check) \subseteq Results
<1>1. /\ "lookupFailed" \in Codes /\ "policy" \in Codes
      /\ {"lookupFailed", "policy"} \in SUBSET Codes
  BY DEF Codes
<1>2. "failed" \in Statuses /\ "warning" \in Statuses
  BY DEF Statuses
<1>3. Result("failed", "lookupFailed", {"lookupFailed", "policy"}) \in Results
  BY <1>1, <1>2, ResultTyped
<1> QED BY <1>1, <1>2, <1>3, ConstantsTyped DEF Outcomes

LEMMA EvaluateRDAPTyped ==
  ASSUME NEW d, NEW answer \in RDAPAnswers, NEW lapsed
  PROVE  EvaluateRDAP(d, answer, lapsed) \in Results
<1>1. /\ NoCode \in Codes /\ "httpError" \in Codes /\ "mismatch" \in Codes
      /\ "expired" \in Codes /\ "expiringSoon" \in Codes /\ {} \in SUBSET Codes
  BY DEF Codes, NoCode
<1>2. "failed" \in Statuses /\ "warning" \in Statuses /\ "skipped" \in Statuses
  BY DEF Statuses
<1>3. Result("skipped", NoCode, {}) \in Results
  BY <1>1, <1>2, ResultTyped
<1> QED BY <1>1, <1>2, <1>3, ConstantsTyped DEF EvaluateRDAP

LEMMA AssignTyped ==
  ASSUME NEW f, NEW g, IsResultMap(f), IsResultMap(g)
  PROVE  IsResultMap(Assign(f, g))
BY DEF IsResultMap, Assign

LEMMA RestrictTyped ==
  ASSUME NEW f, NEW K, IsResultMap(f)
  PROVE  IsResultMap([k \in DOMAIN f \ K |-> f[k]])
BY DEF IsResultMap

LEMMA NewCycleStateTyped == IsResultMap(newCycleState)
<1>1. {"rdap"} \X Domains \subseteq Keys
  BY DEF Keys
<1> QED BY <1>1, ConstantsTyped DEF IsResultMap, newCycleState

LEMMA RateLimitedTyped ==
  ASSUME NEW answers \in [Domains \ Delegated -> RDAPAnswers], NEW lapsed
  PROVE  IsResultMap(evaluateRateLimitedEvidence(answers, lapsed))
<1>1. {"rdap"} \X (Domains \ Delegated) \subseteq Keys
  BY DEF Keys
<1>2. \A k \in {"rdap"} \X (Domains \ Delegated) :
        EvaluateRDAP(k[2], answers[k[2]], k[2] \in lapsed) \in Results
  BY EvaluateRDAPTyped
<1> QED BY <1>1, <1>2 DEF IsResultMap, evaluateRateLimitedEvidence

LEMMA ActiveKeysTyped == ActiveFastKeys \subseteq Keys
<1>1. ASSUME NEW t \in Tasks PROVE TaskKey(t) \in Keys
  <2>1. CASE t \in Records
    BY <2>1 DEF TaskKey, Keys, Tasks
  <2>2. CASE t \notin Records
    <3>1. t \in Domains
      BY <2>2, CycleAssumption DEF Tasks
    <3> QED BY <2>2, <3>1 DEF TaskKey, Keys
  <2> QED BY <2>1, <2>2
<1> QED BY <1>1 DEF ActiveFastKeys, activeTasks

\* The evaluation of the fast evidence holds exactly the active checks and the
\* RDAP entries newCycleState created.
LEMMA FastTyped ==
  ASSUME fastEvidence.outcome \in [ActiveFastKeys -> Results]
  PROVE  /\ IsResultMap(evaluateFastEvidence)
         /\ DOMAIN evaluateFastEvidence \subseteq ({"rdap"} \X Domains) \cup ActiveFastKeys
<1> DEFINE done == [k \in {k \in ActiveFastKeys : Completed(k)} |-> fastEvidence.outcome[k]]
           base == Assign(done, newCycleState)
           lost == [k \in {k \in ActiveFastKeys : ~Completed(k) /\ k \notin DOMAIN base}
                      |-> PanicResult(k[1])]
<1>1. IsResultMap(done) /\ DOMAIN done \subseteq ActiveFastKeys
  BY ActiveKeysTyped DEF IsResultMap
<1>2. /\ IsResultMap(base)
      /\ DOMAIN base \subseteq ({"rdap"} \X Domains) \cup ActiveFastKeys
  <2>1. IsResultMap(base)
    BY <1>1, NewCycleStateTyped, AssignTyped
  <2>2. DOMAIN base = DOMAIN done \cup DOMAIN newCycleState
    BY DEF Assign
  <2>3. DOMAIN newCycleState = {"rdap"} \X Domains
    BY DEF newCycleState
  <2> QED BY <1>1, <2>1, <2>2, <2>3
<1>3. IsResultMap(lost) /\ DOMAIN lost \subseteq ActiveFastKeys
  BY ActiveKeysTyped, ConstantsTyped DEF IsResultMap
<1>4. evaluateFastEvidence = Assign(lost, base)
  BY DEF evaluateFastEvidence, storePanicDomainResults
<1> HIDE DEF done, base, lost
<1>5. IsResultMap(Assign(lost, base))
  BY <1>2, <1>3, AssignTyped
<1>6. DOMAIN Assign(lost, base) = DOMAIN lost \cup DOMAIN base
  BY DEF Assign
<1> QED BY <1>2, <1>3, <1>4, <1>5, <1>6

LEMMA SuppressTyped ==
  ASSUME NEW f, IsResultMap(f)
  PROVE  /\ IsResultMap(suppressExpiredDomainChecks(f))
         /\ DOMAIN suppressExpiredDomainChecks(f) \subseteq DOMAIN f
         /\ \A k \in DOMAIN suppressExpiredDomainChecks(f) :
              suppressExpiredDomainChecks(f)[k] = f[k]
BY RestrictTyped DEF suppressExpiredDomainChecks

-----------------------------------------------------------------------------
(* The inductive invariant, in four parts.                                 *)

\* Types: records keep their fields, and what a phase of the cycle leaves
\* behind has the shape the next phase expects.
Typed ==
  /\ TypeOK
  /\ DOMAIN published = {"id", "outcome", "lastSuccess", "results"}
  /\ DOMAIN staged = {"conditions", "alerts"}
  /\ IsResultMap(published.results)
  /\ IsHistory(conditions)
  /\ pc = "published" => IsHistory(staged.conditions)
  /\ pc \in {"gatherFast", "gathered"}
       => rdapEvidence \in [Domains \ Delegated -> RDAPAnswers]
  /\ pc = "gathered" => fastEvidence.outcome \in [ActiveFastKeys -> Results]
  /\ pc = "evaluated" => IsResultMap(loopState)

\* A cycle that has not reported yet is newer than every reported attempt.
Numbering ==
  /\ pc \in {"gatherRDAP", "gatherFast", "gathered", "evaluated"}
       => published.id < cycleID
  /\ pc \in {"published", "dispatching"} => published.lastSuccess = cycleID

\* Alerts waiting to be handed over belong to the published snapshot, too.
AlertsInv ==
  /\ AlertsFollowPublication
  /\ pc \in {"published", "dispatching"}
       => \A alert \in staged.alerts : alert.cycle = published.lastSuccess

Faithful(history, results) ==
  \A k \in DOMAIN history :
    /\ k \in DOMAIN results
    /\ Alertable(results[k])
    /\ history[k].code = results[k].code
    /\ history[k].since = results[k].since

Complete(history, results, holding) ==
  \A k \in DOMAIN results :
    Alertable(results[k]) /\ ~Held(k, holding) => k \in DOMAIN history

\* A held domain has no registration finding on record.
Unlisted(history, holding) == \A d \in holding : <<"rdap", d>> \notin DOMAIN history

\* The domains a cycle holds back were held before, or the registry has just
\* confirmed that they are gone.
HeldForAReason ==
  \A d \in nextExpired :
    \/ d \in expired
    \/ d \in AllowExpiry \ Delegated /\ rdapEvidence[d] = "expired"

\* What a cycle has built is visited, except for the registration result of a
\* held domain, which is no finding unless the domain was held already.
OnlyHeldAreSkipped ==
  \A k \in DOMAIN loopState :
    \/ k \in Visited(loopState)
    \/ Held(k, nextExpired) /\ (k[2] \in expired \/ ~Alertable(loopState[k]))

HistoryInv ==
  /\ Unlisted(conditions, expired)
  /\ pc # "published" =>
       /\ Faithful(conditions, published.results)
       /\ published.lastSuccess > 0 =>
            /\ Complete(conditions, published.results, expired)
            /\ prevStatus = trackedStatuses(published.results)
  /\ pc = "published" =>
       /\ Unlisted(staged.conditions, nextExpired)
       /\ Faithful(staged.conditions, published.results)
       /\ Complete(staged.conditions, published.results, nextExpired)
  /\ pc \in {"gatherFast", "gathered"} => HeldForAReason
  /\ pc = "evaluated" => OnlyHeldAreSkipped

IInv == Typed /\ Numbering /\ AlertsInv /\ HistoryInv

-----------------------------------------------------------------------------
(* What the operations of a cycle establish.                               *)

\* A configured domain is the closest configured domain above itself.
LEMMA DomainOwnsItself ==
  ASSUME NEW d \in Domains
  PROVE  configuredDomainOwner(d) = d
<1> DEFINE owners == {e \in Domains : Covers(e, d)}
           longest == CHOOSE e \in owners : \A f \in owners : Len(f) <= Len(e)
<1>1. d \in Seq(STRING) /\ \A e \in Domains : e \in Seq(STRING)
  BY CycleAssumption
<1>2. d \in owners
  BY <1>1 DEF Covers
<1>3. \A f \in owners : Len(f) <= Len(d)
  BY DEF Covers
<1>4. longest \in owners /\ Len(d) <= Len(longest)
  BY <1>2, <1>3
<1>5. longest = d
  <2>1. longest \in Seq(STRING) /\ Len(longest) = Len(d)
    BY <1>1, <1>3, <1>4
  <2>2. Covers(longest, d)
    BY <1>4
  <2> HIDE DEF longest
  <2>3. ASSUME NEW i \in 1..Len(longest)
        PROVE  longest[i] = d[i]
    <3>1. longest[i] = d[i + Len(d) - Len(longest)]
      BY <2>2 DEF Covers
    <3>2. i + Len(d) - Len(longest) = i
      BY <1>1, <2>1
    <3> QED BY <3>1, <3>2
  <2> QED BY <1>1, <2>1, <2>3, SeqEqual
<1>6. owners # {}
  BY <1>2
<1>7. configuredDomainOwner(d) = IF owners = {} THEN NoDomain ELSE longest
  BY DEF configuredDomainOwner
<1> QED BY <1>5, <1>6, <1>7

\* Every active check belongs to an active domain or task.
LEMMA ActiveIsVisited ==
  ASSUME NEW k \in ActiveFastKeys
  PROVE  IF k[1] = "dns" THEN k[2] \in activeTasks ELSE k[2] \in activeDomains
<1>1. ASSUME NEW t \in activeTasks, k = TaskKey(t)
      PROVE  IF k[1] = "dns" THEN k[2] \in activeTasks ELSE k[2] \in activeDomains
  <2>1. CASE t \in Records
    BY <1>1, <2>1 DEF TaskKey
  <2>2. CASE t \notin Records
    <3>1. t \in Domains
      BY <2>2, CycleAssumption DEF activeTasks, Tasks
    <3>2. TaskOwner(t) = t
      BY <2>2, <3>1, DomainOwnsItself DEF TaskOwner
    <3>3. t \notin nextExpired
      BY <3>2 DEF activeTasks
    <3> QED BY <1>1, <2>2, <3>1, <3>3 DEF TaskKey, activeDomains
  <2> QED BY <2>1, <2>2
<1>2. CASE k[1] \in DOMAIN Position /\ k[2] \in activeDomains
  BY <1>2 DEF Position
<1> QED BY <1>1, <1>2 DEF ActiveFastKeys

\* The first evaluation of the RDAP answers holds back only domains that were
\* held already or that the registry no longer knows.
LEMMA GatherHoldsForAReason ==
  ASSUME NEW answers \in [Domains \ Delegated -> RDAPAnswers],
         NEW d \in nextExpiredDomains(expired,
                     Assign(evaluateRateLimitedEvidence(answers, {}), newCycleState))
  PROVE  /\ d \in AllowExpiry
         /\ d \in expired \/ (d \in AllowExpiry \ Delegated /\ answers[d] = "expired")
<1> DEFINE first == evaluateRateLimitedEvidence(answers, {})
           results == Assign(first, newCycleState)
<1>1. d \in AllowExpiry
  BY DEF nextExpiredDomains
<1>2. CASE d \in expired
  BY <1>1, <1>2
<1>3. CASE d \notin expired
  <2>1. d \in AllowExpiry \ Delegated /\ results[<<"rdap", d>>].status = "skipped"
    BY <1>3 DEF nextExpiredDomains, ExpiryConfirmed
  <2>2. d \in Domains \ Delegated
    BY <2>1, CycleAssumption
  <2>3. results[<<"rdap", d>>] = EvaluateRDAP(d, answers[d], FALSE)
    <3>1. <<"rdap", d>> \in DOMAIN first
      BY <2>2 DEF evaluateRateLimitedEvidence
    <3>2. results[<<"rdap", d>>] = first[<<"rdap", d>>]
      BY <3>1 DEF Assign
    <3>3. first[<<"rdap", d>>] = EvaluateRDAP(d, answers[d], d \in {})
      BY <2>2 DEF evaluateRateLimitedEvidence
    <3>4. (d \in {}) = FALSE
      OBVIOUS
    <3> QED BY <3>2, <3>3, <3>4
  <2>4. EvaluateRDAP(d, answers[d], FALSE).status = "skipped" => answers[d] = "expired"
    <3>1. answers[d] \in RDAPAnswers
      BY <2>2
    <3> QED BY <3>1, <2>1 DEF EvaluateRDAP, RDAPAnswers, Finding, Healthy, Result
  <2> HIDE DEF results
  <2>5. answers[d] = "expired"
    BY <2>1, <2>3, <2>4
  <2> QED BY <1>1, <2>1, <2>5
<1> QED BY <1>2, <1>3

\* The second evaluation, suppression included, builds only visited checks and
\* the registration results of held domains.
LEMMA EvaluateSkipsHeldOnly ==
  ASSUME NEW lapsed,
         rdapEvidence \in [Domains \ Delegated -> RDAPAnswers],
         fastEvidence.outcome \in [ActiveFastKeys -> Results],
         HeldForAReason,
         loopState' = suppressExpiredDomainChecks(
           Assign(evaluateRateLimitedEvidence(rdapEvidence, lapsed), evaluateFastEvidence)),
         UNCHANGED <<nextExpired, expired>>
  PROVE  IsResultMap(loopState') /\ OnlyHeldAreSkipped'
<1> DEFINE again == evaluateRateLimitedEvidence(rdapEvidence, lapsed)
           fast == evaluateFastEvidence
           all == Assign(again, fast)
<1>1. IsResultMap(again) /\ IsResultMap(fast)
  BY RateLimitedTyped, FastTyped
<1>2. IsResultMap(all)
  BY <1>1, AssignTyped
<1>3. DOMAIN all \subseteq ({"rdap"} \X Domains) \cup ActiveFastKeys
  <2>1. DOMAIN again \subseteq {"rdap"} \X Domains
    BY DEF evaluateRateLimitedEvidence
  <2>2. DOMAIN fast \subseteq ({"rdap"} \X Domains) \cup ActiveFastKeys
    BY FastTyped
  <2>3. DOMAIN all = DOMAIN again \cup DOMAIN fast
    BY DEF Assign
  <2> QED BY <2>1, <2>2, <2>3
<1>4. \A d \in Domains \ Delegated :
        rdapEvidence[d] = "expired" /\ d \in AllowExpiry => ~Alertable(all[<<"rdap", d>>])
  <2>1. ASSUME NEW d \in Domains \ Delegated, rdapEvidence[d] = "expired", d \in AllowExpiry
        PROVE  ~Alertable(all[<<"rdap", d>>])
    <3>1. <<"rdap", d>> \in DOMAIN again
      BY DEF evaluateRateLimitedEvidence
    <3>2. all[<<"rdap", d>>] = again[<<"rdap", d>>]
      BY <3>1 DEF Assign
    <3>3. again[<<"rdap", d>>] = EvaluateRDAP(d, "expired", d \in lapsed)
      BY <2>1 DEF evaluateRateLimitedEvidence
    <3>4. EvaluateRDAP(d, "expired", d \in lapsed) = Result("skipped", NoCode, {})
      BY <2>1 DEF EvaluateRDAP
    <3>5. Result("skipped", NoCode, {}).status = "skipped"
      BY DEF Result
    <3> QED BY <3>2, <3>3, <3>4, <3>5 DEF Alertable, alertableStatus
  <2> QED BY <2>1
<1>5. loopState' = suppressExpiredDomainChecks(all)
  OBVIOUS
<1> HIDE DEF all
<1>6. /\ IsResultMap(loopState')
      /\ DOMAIN loopState' \subseteq DOMAIN all
      /\ \A k \in DOMAIN loopState' : loopState'[k] = all[k]
  BY <1>2, <1>5, SuppressTyped
<1>7. ASSUME NEW k \in DOMAIN loopState'
      PROVE  \/ k \in Visited(loopState)'
             \/ Held(k, nextExpired) /\ (k[2] \in expired \/ ~Alertable(loopState'[k]))
  <2>1. /\ Visited(loopState)' = {j \in DOMAIN loopState' :
             IF j[1] = "dns" THEN j[2] \in activeTasks ELSE j[2] \in activeDomains}
    BY DEF Visited, activeTasks, activeDomains
  <2>2. CASE k \in ActiveFastKeys
    BY <2>1, <2>2, ActiveIsVisited
  <2>3. CASE k \in {"rdap"} \X Domains
    <3>1. k[1] = "rdap" /\ k[2] \in Domains /\ k = <<"rdap", k[2]>>
      BY <2>3
    <3>2. CASE k[2] \notin nextExpired
      BY <2>1, <3>1, <3>2 DEF activeDomains
    <3>3. CASE k[2] \in nextExpired
      <4>1. \/ k[2] \in expired
            \/ k[2] \in AllowExpiry \ Delegated /\ rdapEvidence[k[2]] = "expired"
        BY <3>3 DEF HeldForAReason
      <4>2. k[2] \in expired \/ ~Alertable(all[k])
        BY <1>4, <3>1, <4>1
      <4> QED BY <1>6, <3>1, <3>3, <4>2 DEF Held
    <3> QED BY <3>2, <3>3
  <2> QED BY <1>3, <1>6, <2>2, <2>3
<1>8. OnlyHeldAreSkipped'
  BY <1>7 DEF OnlyHeldAreSkipped, Held, Alertable, alertableStatus
<1> QED BY <1>6, <1>8

\* What Publish stages agrees with what it publishes.
LEMMA StagedMatchesPublished ==
  ASSUME IsResultMap(loopState), IsHistory(conditions), cycleID \in 0..MaxCycles,
         OnlyHeldAreSkipped, Unlisted(conditions, expired)
  PROVE  /\ IsResultMap(stampedResults(loopState))
         /\ IsHistory(pruneConditionHistory(loopState))
         /\ Unlisted(pruneConditionHistory(loopState), nextExpired)
         /\ Faithful(pruneConditionHistory(loopState), stampedResults(loopState))
         /\ Complete(pruneConditionHistory(loopState), stampedResults(loopState), nextExpired)
<1> DEFINE history == pruneConditionHistory(loopState)
           stamped == stampedResults(loopState)
<1>1. \A k \in DOMAIN loopState :
        k \notin Visited(loopState) /\ Alertable(loopState[k]) => k \notin DOMAIN conditions
  BY DEF OnlyHeldAreSkipped, Unlisted, Held, IsResultMap, Keys
<1>2. ASSUME NEW k \in Keys PROVE applyConditionSince(k, loopState[k]) \in 0..MaxCycles
  BY DEF applyConditionSince, IsHistory, History
<1>3. DOMAIN stamped = DOMAIN loopState
  BY DEF stampedResults
<1>4. ASSUME NEW k \in DOMAIN loopState
      PROVE  /\ stamped[k] \in Results
             /\ stamped[k].code = loopState[k].code
             /\ Alertable(stamped[k]) <=> Alertable(loopState[k])
             /\ k \in Visited(loopState) /\ Alertable(loopState[k])
                  => stamped[k].since = applyConditionSince(k, loopState[k])
  <2>1. loopState[k] \in Results /\ k \in Keys
    BY DEF IsResultMap
  <2>2. stamped[k] = IF k \in Visited(loopState) /\ Alertable(loopState[k])
                     THEN [loopState[k] EXCEPT !.since = applyConditionSince(k, loopState[k])]
                     ELSE loopState[k]
    BY DEF stampedResults
  <2>3. applyConditionSince(k, loopState[k]) \in 0..MaxCycles
    BY <1>2, <2>1
  <2> HIDE DEF stamped
  <2> QED BY <2>1, <2>2, <2>3 DEF Results, Alertable, alertableStatus
<1>5. /\ DOMAIN history = {k \in DOMAIN loopState : Alertable(loopState[k])
                             /\ k \in Visited(loopState)}
      /\ \A k \in DOMAIN history :
           history[k] = [code |-> loopState[k].code,
                         since |-> applyConditionSince(k, loopState[k])]
  BY <1>1 DEF pruneConditionHistory
<1> HIDE DEF history, stamped
<1>6. IsResultMap(stamped)
  BY <1>3, <1>4 DEF IsResultMap, stamped, stampedResults
<1>7. IsHistory(history)
  <2>1. ASSUME NEW k \in DOMAIN history PROVE k \in Keys /\ history[k] \in History
    BY <1>2, <1>5 DEF IsResultMap, History, Results
  <2> QED BY <2>1 DEF IsHistory, history, pruneConditionHistory
<1>8. Unlisted(history, nextExpired)
  BY <1>5 DEF Unlisted, Visited, activeDomains
<1>9. Faithful(history, stamped)
  BY <1>3, <1>4, <1>5 DEF Faithful
<1>10. Complete(history, stamped, nextExpired)
  BY <1>3, <1>4, <1>5 DEF Complete, OnlyHeldAreSkipped, Held
<1> QED BY <1>6, <1>7, <1>8, <1>9, <1>10 DEF history, stamped

-----------------------------------------------------------------------------
(* The invariant holds initially and every step preserves it.              *)

LEMMA InitIInv == Init => IInv
<1> SUFFICES ASSUME Init PROVE IInv
  OBVIOUS
<1> DEFINE keys == ({"rdap"} \X Domains) \cup ({"dns"} \X Tasks)
           waiting == [k \in keys |-> Pending]
<1>1. keys \subseteq Keys /\ published.results = waiting
  BY DEF Init, Keys
<1>2. IsResultMap(published.results)
  BY <1>1, ConstantsTyped DEF IsResultMap
<1>3. IsHistory(conditions)
  BY DEF Init, IsHistory
<1>4. TypeOK
  <2>1. /\ published.id = 0 /\ published.lastSuccess = 0
        /\ published.outcome = "initializing"
    BY DEF Init
  <2>2. 0 \in 0..MaxCycles
    BY CycleAssumption
  <2>3. \A k \in DOMAIN published.results : published.results[k] \in Results
    BY <1>2 DEF IsResultMap
  <2>4. DOMAIN conditions = {}
    BY DEF Init
  <2>5. /\ pc = "idle" /\ cycleID = 0 /\ nextExpired = {} /\ expired = {}
        /\ cancelled \in BOOLEAN /\ deadline \in BOOLEAN
    BY DEF Init
  <2>6. DOMAIN published.results \subseteq Keys
    BY <1>2 DEF IsResultMap
  <2> QED BY <2>1, <2>2, <2>3, <2>4, <2>5, <2>6 DEF TypeOK
<1>5. Typed
  BY <1>2, <1>3, <1>4 DEF Init, Typed, NothingStaged
<1>6. Numbering /\ AlertsInv
  BY DEF Init, Numbering, AlertsInv, AlertsFollowPublication
<1>7. HistoryInv
  BY DEF Init, HistoryInv, Unlisted, Faithful
<1> QED BY <1>5, <1>6, <1>7 DEF IInv

LEMMA TypedStep == IInv /\ [Next]_vars => Typed'
<1> SUFFICES ASSUME IInv, [Next]_vars PROVE Typed'
  OBVIOUS
<1> USE DEF IInv, Typed
<1>f. nextExpired' = nextExpired => ActiveFastKeys' = ActiveFastKeys
  BY DEF ActiveFastKeys, activeTasks, activeDomains, Tasks, TaskKey, TaskOwner, Keys,
         FastChecks, Position, configuredDomainOwner, Covers
<1>n. MaxCycles \in Nat
  BY CycleAssumption
<1>1. CASE StartCycle
  BY <1>1, <1>n DEF StartCycle, TypeOK, evidenceVars, committedVars, IsResultMap, IsHistory
<1>2. CASE GatherRDAP
  <2>1. nextExpired' \subseteq AllowExpiry
    BY <1>2, GatherHoldsForAReason DEF GatherRDAP
  <2> QED BY <1>2, <2>1 DEF GatherRDAP, TypeOK, committedVars
<1>3. CASE GatherFast
  <2>1. fastEvidence'.outcome \in [ActiveFastKeys -> Results]
    <3>1. PICK outcome \in [ActiveFastKeys -> UNION {Outcomes(k[1]) : k \in ActiveFastKeys}],
               completed \in [activeDomains -> 0..AllCompleted] :
            /\ \A k \in ActiveFastKeys : outcome[k] \in Outcomes(k[1])
            /\ fastEvidence' = [outcome |-> outcome, completed |-> completed]
      BY <1>3 DEF GatherFast
    <3>2. \A k \in ActiveFastKeys : outcome[k] \in Results
      BY <3>1, OutcomesTyped
    <3> QED BY <3>1, <3>2
  <2> QED BY <1>3, <1>f, <2>1 DEF GatherFast, TypeOK, committedVars
<1>4. CASE Evaluate
  <2>1. IsResultMap(loopState')
    BY <1>4, EvaluateSkipsHeldOnly DEF Evaluate, HistoryInv, committedVars
  <2> QED BY <1>4, <2>1 DEF Evaluate, TypeOK, committedVars
<1>5. CASE GiveUp
  <2>1. CASE cancelled
    BY <1>5, <2>1 DEF GiveUp, TypeOK, ReleaseEvidence, committedVars
  <2>2. CASE ~cancelled
    <3>1. /\ published' = [published EXCEPT !.id = cycleID, !.outcome = "failed"]
          /\ cycleID' = cycleID /\ pc' = "idle"
      BY <1>5, <2>2 DEF GiveUp
    <3>2. /\ published'.id \in 0..cycleID' /\ published'.lastSuccess \in 0..published'.id
          /\ published'.outcome = "failed" /\ published'.results = published.results
          /\ DOMAIN published' = {"id", "outcome", "lastSuccess", "results"}
      BY <1>n, <3>1 DEF TypeOK
    <3>3. /\ deadline' = FALSE /\ nextExpired' = {}
          /\ UNCHANGED <<cancelled, staged, conditions, expired>>
      BY <1>5 DEF GiveUp, ReleaseEvidence, committedVars
    <3>4. TypeOK'
      BY <3>1, <3>2, <3>3 DEF TypeOK
    <3> QED BY <3>1, <3>2, <3>3, <3>4
  <2> QED BY <2>1, <2>2
<1>6. CASE Publish
  <2>1. /\ IsResultMap(published'.results)
        /\ IsHistory(staged'.conditions)
    BY <1>6, StagedMatchesPublished DEF Publish, TypeOK, HistoryInv
  <2>2. /\ published'.id = cycleID
        /\ published'.lastSuccess = cycleID
        /\ published'.outcome = "success"
        /\ DOMAIN published' = {"id", "outcome", "lastSuccess", "results"}
        /\ DOMAIN staged' = {"conditions", "alerts"}
    BY <1>6 DEF Publish
  <2>3. UNCHANGED <<cycleID, cancelled, deadline, nextExpired, conditions, expired>>
    BY <1>6 DEF Publish, committedVars
  <2>4. pc' = "published"
    BY <1>6 DEF Publish
  <2> HIDE DEF IInv, Typed
  <2>5. TypeOK /\ IsHistory(conditions)
    BY DEF IInv, Typed
  <2>6. TypeOK'
    BY <1>n, <2>1, <2>2, <2>3, <2>4, <2>5 DEF TypeOK, IsResultMap
  <2> QED BY <2>1, <2>2, <2>3, <2>4, <2>5, <2>6 DEF Typed
<1>7. CASE EncodingFails
  BY <1>7 DEF EncodingFails, TypeOK, ReleaseEvidence, committedVars
<1>8. CASE Commit
  BY <1>8 DEF Commit, TypeOK, IsHistory, History
<1>9. CASE DispatchAlert
  BY <1>9 DEF DispatchAlert, TypeOK, committedVars
<1>10. CASE EndCycle
  BY <1>10 DEF EndCycle, TypeOK, ReleaseEvidence, committedVars
<1>11. CASE ExitEngine
  BY <1>11 DEF ExitEngine, TypeOK, evidenceVars, committedVars
<1>12. CASE Cancel
  BY <1>12, <1>f DEF Cancel, TypeOK, evidenceVars, committedVars
<1>13. CASE TimeOut
  BY <1>13, <1>f DEF TimeOut, TypeOK, evidenceVars, committedVars
<1>14. CASE UNCHANGED vars
  BY <1>14, <1>f DEF vars, TypeOK, evidenceVars, committedVars
<1> QED BY <1>1, <1>2, <1>3, <1>4, <1>5, <1>6, <1>7, <1>8, <1>9, <1>10, <1>11, <1>12,
           <1>13, <1>14 DEF Next, CycleStep

LEMMA NumberingStep == IInv /\ [Next]_vars => Numbering'
<1> SUFFICES ASSUME IInv, [Next]_vars PROVE Numbering'
  OBVIOUS
<1>1. /\ cycleID \in Int /\ published.id \in Int /\ published.lastSuccess \in Int
      /\ published.id <= cycleID
      /\ DOMAIN published = {"id", "outcome", "lastSuccess", "results"}
      /\ Numbering
  BY CycleAssumption DEF IInv, Typed, TypeOK
<1>2. CASE StartCycle
  BY <1>1, <1>2 DEF StartCycle, Numbering
<1>3. CASE GiveUp \/ EncodingFails \/ EndCycle
  BY <1>1, <1>3 DEF GiveUp, EncodingFails, EndCycle, Numbering
<1>4. CASE Publish
  BY <1>1, <1>4 DEF Publish, Numbering
<1>5. CASE GatherRDAP \/ GatherFast \/ Evaluate \/ Commit \/ DispatchAlert
  BY <1>1, <1>5 DEF GatherRDAP, GatherFast, Evaluate, Commit, DispatchAlert, Numbering
<1>6. CASE ExitEngine \/ Cancel \/ TimeOut \/ UNCHANGED vars
  BY <1>1, <1>6 DEF ExitEngine, Cancel, TimeOut, vars, Numbering
<1> QED BY <1>2, <1>3, <1>4, <1>5, <1>6 DEF Next, CycleStep

LEMMA AlertsStep == IInv /\ [Next]_vars => AlertsInv'
<1> SUFFICES ASSUME IInv, [Next]_vars PROVE AlertsInv'
  OBVIOUS
<1>1. /\ DOMAIN published = {"id", "outcome", "lastSuccess", "results"}
      /\ DOMAIN staged = {"conditions", "alerts"}
      /\ AlertsInv
  BY DEF IInv, Typed
<1> USE DEF AlertsInv, AlertsFollowPublication
<1>2. CASE GiveUp
  BY <1>1, <1>2 DEF GiveUp
<1>3. CASE Publish
  <2>1. \A alert \in staged'.alerts : alert.cycle = cycleID
    BY <1>3 DEF Publish, collectAlerts
  <2> QED BY <1>3, <2>1 DEF Publish
<1>4. CASE DispatchAlert
  <2>1. PICK alert \in staged.alerts :
          /\ dispatched' = dispatched \cup {alert}
          /\ staged' = [staged EXCEPT !.alerts = @ \ {alert}]
    BY <1>4 DEF DispatchAlert
  <2> QED BY <1>1, <1>4, <2>1 DEF DispatchAlert
<1>5. CASE Commit
  BY <1>1, <1>5 DEF Commit
<1>6. CASE StartCycle \/ GatherRDAP \/ GatherFast \/ Evaluate \/ EncodingFails \/ EndCycle
  BY <1>1, <1>6 DEF StartCycle, GatherRDAP, GatherFast, Evaluate, EncodingFails, EndCycle,
                    evidenceVars
<1>7. CASE ExitEngine \/ Cancel \/ TimeOut \/ UNCHANGED vars
  BY <1>1, <1>7 DEF ExitEngine, Cancel, TimeOut, vars, evidenceVars
<1> QED BY <1>2, <1>3, <1>4, <1>5, <1>6, <1>7 DEF Next, CycleStep

LEMMA HistoryStep == IInv /\ [Next]_vars => HistoryInv'
<1> SUFFICES ASSUME IInv, [Next]_vars PROVE HistoryInv'
  OBVIOUS
<1>1. /\ DOMAIN published = {"id", "outcome", "lastSuccess", "results"}
      /\ DOMAIN staged = {"conditions", "alerts"}
      /\ HistoryInv
  BY DEF IInv, Typed
\* The committed part of the invariant survives a step that leaves the history,
\* the statuses, the held domains and the published results alone.
<1>2. ASSUME UNCHANGED <<conditions, prevStatus, expired>>,
             published'.results = published.results,
             published'.lastSuccess = published.lastSuccess,
             pc # "published", pc' \notin {"published", "gatherFast", "gathered", "evaluated"}
      PROVE  HistoryInv'
  BY <1>1, <1>2 DEF HistoryInv, Unlisted, Faithful, Complete, Held, trackedStatuses,
                    Alertable, alertableStatus
<1>3. CASE GiveUp
  BY <1>1, <1>2, <1>3 DEF GiveUp, committedVars
<1>4. CASE StartCycle \/ EncodingFails \/ DispatchAlert \/ EndCycle \/ ExitEngine
  BY <1>2, <1>4 DEF StartCycle, EncodingFails, DispatchAlert, EndCycle, ExitEngine, committedVars
<1>5. CASE GatherRDAP
  <2>1. HeldForAReason'
    <3>1. PICK answers \in [Domains \ Delegated -> RDAPAnswers] :
            /\ rdapEvidence' = answers
            /\ nextExpired' = nextExpiredDomains(expired,
                 Assign(evaluateRateLimitedEvidence(answers, {}), newCycleState))
      BY <1>5 DEF GatherRDAP
    <3>2. expired' = expired
      BY <1>5 DEF GatherRDAP, committedVars
    <3> QED BY <3>1, <3>2, GatherHoldsForAReason DEF HeldForAReason
  <2> QED BY <1>1, <1>5, <2>1
          DEF GatherRDAP, committedVars, HistoryInv, Unlisted, Faithful, Complete, Held,
              trackedStatuses, Alertable, alertableStatus
<1>6. CASE GatherFast
  BY <1>1, <1>6
     DEF GatherFast, committedVars, HistoryInv, HeldForAReason, Unlisted, Faithful, Complete,
         Held, trackedStatuses, Alertable, alertableStatus
<1>7. CASE Evaluate
  <2>1. OnlyHeldAreSkipped'
    BY <1>1, <1>7, EvaluateSkipsHeldOnly
       DEF Evaluate, IInv, Typed, HistoryInv, committedVars
  <2> QED BY <1>1, <1>7, <2>1
          DEF Evaluate, committedVars, HistoryInv, Unlisted, Faithful, Complete, Held,
              trackedStatuses, Alertable, alertableStatus
<1>8. CASE Publish
  <2> DEFINE history == pruneConditionHistory(loopState)
             stamped == stampedResults(loopState)
  <2>1. /\ Unlisted(history, nextExpired)
        /\ Faithful(history, stamped)
        /\ Complete(history, stamped, nextExpired)
    BY <1>1, <1>8, StagedMatchesPublished DEF Publish, IInv, Typed, TypeOK, HistoryInv
  <2>2. /\ staged'.conditions = history
        /\ published'.results = stamped
        /\ nextExpired' = nextExpired
        /\ UNCHANGED <<conditions, expired>>
        /\ pc' = "published"
    BY <1>8 DEF Publish, committedVars
  <2> HIDE DEF history, stamped
  <2> QED BY <1>1, <2>1, <2>2
          DEF HistoryInv, Unlisted, Faithful, Complete, Held, Alertable, alertableStatus
<1>9. CASE Commit
  BY <1>1, <1>9
     DEF Commit, HistoryInv, Unlisted, Faithful, Complete, Held, trackedStatuses,
         Alertable, alertableStatus
<1>10. CASE Cancel \/ TimeOut \/ UNCHANGED vars
  <2>1. UNCHANGED <<pc, rdapEvidence, nextExpired, loopState, staged, published,
                    conditions, prevStatus, expired>>
    BY <1>10 DEF Cancel, TimeOut, vars, evidenceVars, committedVars
  <2> QED BY <1>1, <2>1
          DEF HistoryInv, HeldForAReason, OnlyHeldAreSkipped, Visited, activeTasks,
              activeDomains, Unlisted, Faithful, Complete, Held, trackedStatuses,
              Alertable, alertableStatus
<1> QED BY <1>3, <1>4, <1>5, <1>6, <1>7, <1>8, <1>9, <1>10 DEF Next, CycleStep

THEOREM CycleInvariant == Spec => []IInv
<1>1. IInv /\ [Next]_vars => IInv'
  BY TypedStep, NumberingStep, AlertsStep, HistoryStep DEF IInv
<1> QED BY InitIInv, <1>1, PTL DEF Spec

-----------------------------------------------------------------------------
(* The theorems.                                                           *)

\* The state keeps its types whatever the portfolio and however many cycles
\* run (runtime.go:568-675).
THEOREM CycleTypes == Spec => []TypeOK
<1>1. IInv => TypeOK
  BY DEF IInv, Typed
<1> QED BY CycleInvariant, <1>1, PTL

\* Alerts follow the publication of the snapshot they belong to
\* (runtime.go:656-665).
THEOREM AlertsAreNeverEarly == Spec => []AlertsFollowPublication
<1>1. IInv => AlertsFollowPublication
  BY DEF IInv, AlertsInv
<1> QED BY CycleInvariant, <1>1, PTL

\* The committed condition history and the remembered statuses are those of
\* the last successful snapshot, across timeouts, cancellations, encoding
\* failures and held domains (runtime.go:641-664, 940-975).
THEOREM HistoryIsThePublishedOne == Spec => []HistoryMatchesPublication
<1>1. IInv => HistoryMatchesPublication
  BY DEF IInv, HistoryInv, Faithful, Complete, HistoryMatchesPublication
<1> QED BY CycleInvariant, <1>1, PTL

\* The cycle implements the abstract feed: attempts are numbered upwards, and
\* a failed attempt keeps the evidence and the last success
\* (runtime.go:710-768).
THEOREM CycleImplementsPublication == Spec => ImplementsPublication
<1>1. Init => Feed!Init
  BY DEF Init, Feed!Init
<1>2. IInv /\ [Next]_vars => [Feed!Next]_(Feed!vars)
  <2> SUFFICES ASSUME IInv, [Next]_vars PROVE [Feed!Next]_(Feed!vars)
    OBVIOUS
  <2>1. /\ cycleID \in Int /\ published.id \in Int
        /\ DOMAIN published = {"id", "outcome", "lastSuccess", "results"}
        /\ Numbering
    BY CycleAssumption DEF IInv, Typed, TypeOK
  <2>2. CASE GiveUp
    BY <2>1, <2>2 DEF GiveUp, Numbering, Feed!Next, Feed!Fail, Feed!vars
  <2>3. CASE Publish
    BY <2>1, <2>3 DEF Publish, Numbering, Feed!Next, Feed!Succeed
  <2>4. CASE published' = published
    BY <2>4 DEF Feed!vars
  <2> QED
    BY <2>2, <2>3, <2>4
       DEF Next, CycleStep, StartCycle, GatherRDAP, GatherFast, Evaluate, EncodingFails,
           Commit, DispatchAlert, EndCycle, ExitEngine, Cancel, TimeOut, vars
<1> QED BY <1>1, <1>2, CycleInvariant, PTL DEF Spec, ImplementsPublication, Feed!Spec

-----------------------------------------------------------------------------
(* What a snapshot shows of the domains that are held back and of those it *)
(* confirms as expired: the second part of the invariant.                  *)

\* The domains a cycle holds back, given what the registry answered.
Holding(answers) ==
  {d \in AllowExpiry \ Delegated :
     answers[d] = "expired" \/ (d \in expired /\ answers[d] = "unreachable")}

Silent(results, holding) ==
  \A d \in Domains :
    ExpiryConfirmed(results, d) \/ d \in holding => Dependents(d) \cap DOMAIN results = {}

Explained(results, holding) ==
  \A r \in Records :
    <<"dns", r>> \notin DOMAIN results =>
      \E d \in Domains : /\ TaskOwner(r) = d
                         /\ ExpiryConfirmed(results, d) \/ d \in holding

\* A domain is held that is confirmed expired, or that could not be asked about.
HeldForCause(results, holding) ==
  \A d \in holding :
    ExpiryConfirmed(results, d) \/ results[<<"rdap", d>>].code = "httpError"

Shown(results, holding) ==
  /\ {"rdap"} \X Domains \subseteq DOMAIN results
  /\ Silent(results, holding)
  /\ Explained(results, holding)
  /\ HeldForCause(results, holding)

\* The registry has answered about the domains that are held no more.
Released(results) ==
  \A d \in expired \ nextExpired : results[<<"rdap", d>>].code # "httpError"

HoldingInv ==
  /\ expired \subseteq AllowExpiry \ Delegated
  /\ nextExpired \subseteq AllowExpiry \ Delegated
  /\ pc \in {"gatherFast", "gathered"} => nextExpired = Holding(rdapEvidence)
  /\ pc = "evaluated" => Shown(loopState, nextExpired) /\ Released(loopState)
  /\ pc = "published" =>
       Shown(published.results, nextExpired) /\ Released(published.results)
  /\ pc # "published" /\ published.lastSuccess > 0 => Shown(published.results, expired)
  /\ published.lastSuccess = 0 =>
       \A k \in DOMAIN published.results : ~Alertable(published.results[k])

-----------------------------------------------------------------------------
LEMMA GatherHolds ==
  ASSUME NEW answers \in [Domains \ Delegated -> RDAPAnswers],
         expired \subseteq AllowExpiry \ Delegated
  PROVE  nextExpiredDomains(expired,
           Assign(evaluateRateLimitedEvidence(answers, {}), newCycleState))
             = Holding(answers)
<1> DEFINE first == evaluateRateLimitedEvidence(answers, {})
           results == Assign(first, newCycleState)
<1>1. ASSUME NEW d \in AllowExpiry \ Delegated
      PROVE  results[<<"rdap", d>>] = EvaluateRDAP(d, answers[d], FALSE)
  <2>1. d \in Domains \ Delegated
    BY CycleAssumption
  <2>2. <<"rdap", d>> \in DOMAIN first
    BY <2>1 DEF evaluateRateLimitedEvidence
  <2>3. results[<<"rdap", d>>] = first[<<"rdap", d>>]
    BY <2>2 DEF Assign
  <2>4. first[<<"rdap", d>>] = EvaluateRDAP(d, answers[d], d \in {})
    BY <2>1 DEF evaluateRateLimitedEvidence
  <2>5. (d \in {}) = FALSE
    OBVIOUS
  <2> QED BY <2>3, <2>4, <2>5
<1>2. ASSUME NEW d \in AllowExpiry \ Delegated
      PROVE  /\ EvaluateRDAP(d, answers[d], FALSE).status = "skipped" <=> answers[d] = "expired"
             /\ EvaluateRDAP(d, answers[d], FALSE).code = "httpError"
                  <=> answers[d] = "unreachable"
  <2>1. answers[d] \in RDAPAnswers
    BY CycleAssumption
  <2> QED BY <2>1 DEF EvaluateRDAP, RDAPAnswers, Finding, Healthy, Result, NoCode
<1> HIDE DEF results
<1> QED BY <1>1, <1>2 DEF nextExpiredDomains, ExpiryConfirmed, Holding, results

\* A held domain has no active check.
LEMMA HeldIsInactive ==
  ASSUME NEW d \in nextExpired
  PROVE  Dependents(d) \cap (({"rdap"} \X Domains) \cup ActiveFastKeys) = {}
<1> SUFFICES ASSUME NEW k \in Dependents(d), k \in ActiveFastKeys PROVE FALSE
  BY DEF Dependents
<1>1. IF k[1] = "dns" THEN k[2] \in activeTasks ELSE k[2] \in activeDomains
  BY ActiveIsVisited
<1>2. CASE k \in {"email", "dnssec", "nsHealth", "caa"} \X {d}
  BY <1>1, <1>2 DEF activeDomains
<1>3. CASE k \in {<<"dns", t>> : t \in {r \in Records : TaskOwner(r) = d}}
  <2>1. PICK t \in Records : TaskOwner(t) = d /\ k = <<"dns", t>>
    BY <1>3
  <2> QED BY <1>1, <2>1 DEF activeTasks
<1> QED BY <1>2, <1>3 DEF Dependents

LEMMA RegistrationIsNoDependent ==
  ASSUME NEW d, NEW e
  PROVE  <<"rdap", d>> \notin Dependents(e)
BY DEF Dependents

\* The checks that were active have a result, whether or not they panicked.
LEMMA ActiveIsEvaluated ==
  /\ ActiveFastKeys \cup ({"rdap"} \X Domains) \subseteq DOMAIN evaluateFastEvidence
  /\ DOMAIN evaluateFastEvidence \subseteq ({"rdap"} \X Domains) \cup ActiveFastKeys
<1> DEFINE done == [k \in {k \in ActiveFastKeys : Completed(k)} |-> fastEvidence.outcome[k]]
           base == Assign(done, newCycleState)
           lost == [k \in {k \in ActiveFastKeys : ~Completed(k) /\ k \notin DOMAIN base}
                      |-> PanicResult(k[1])]
<1>1. DOMAIN base = {k \in ActiveFastKeys : Completed(k)} \cup ({"rdap"} \X Domains)
  BY DEF Assign, newCycleState
<1>2. evaluateFastEvidence = Assign(lost, base)
  BY DEF evaluateFastEvidence, storePanicDomainResults
<1>3. DOMAIN lost = {k \in ActiveFastKeys : ~Completed(k) /\ k \notin DOMAIN base}
  OBVIOUS
<1> HIDE DEF done, base, lost
<1>4. DOMAIN evaluateFastEvidence = DOMAIN lost \cup DOMAIN base
  BY <1>2 DEF Assign
<1> QED BY <1>1, <1>3, <1>4

\* The second evaluation agrees with the first about who is held.
LEMMA EvaluateShows ==
  ASSUME NEW lapsed,
         rdapEvidence \in [Domains \ Delegated -> RDAPAnswers],
         expired \subseteq AllowExpiry \ Delegated,
         nextExpired = Holding(rdapEvidence),
         loopState' = suppressExpiredDomainChecks(
           Assign(evaluateRateLimitedEvidence(rdapEvidence, lapsed), evaluateFastEvidence)),
         UNCHANGED <<nextExpired, expired>>
  PROVE  Shown(loopState', nextExpired) /\ Released(loopState')
<1> DEFINE again == evaluateRateLimitedEvidence(rdapEvidence, lapsed)
           all == Assign(again, evaluateFastEvidence)
           gone == UNION {Dependents(d) : d \in {e \in Domains : ExpiryConfirmed(all, e)}}
<1>1. /\ DOMAIN all = DOMAIN again \cup DOMAIN evaluateFastEvidence
      /\ \A k \in DOMAIN again : all[k] = again[k]
  BY DEF Assign
<1>2. /\ DOMAIN again = {"rdap"} \X (Domains \ Delegated)
      /\ \A d \in Domains \ Delegated :
           again[<<"rdap", d>>] = EvaluateRDAP(d, rdapEvidence[d], d \in lapsed)
  BY DEF evaluateRateLimitedEvidence
<1>3. /\ DOMAIN all \subseteq ({"rdap"} \X Domains) \cup ActiveFastKeys
      /\ ({"rdap"} \X Domains) \cup ActiveFastKeys \subseteq DOMAIN all
  BY <1>1, <1>2, ActiveIsEvaluated
<1>4. loopState' = [k \in DOMAIN all \ gone |-> all[k]]
  BY DEF suppressExpiredDomainChecks
<1> HIDE DEF again, all
<1>5. \A d \in Domains : <<"rdap", d>> \notin gone
  BY RegistrationIsNoDependent
<1>6. /\ {"rdap"} \X Domains \subseteq DOMAIN loopState'
      /\ \A d \in Domains : loopState'[<<"rdap", d>>] = all[<<"rdap", d>>]
  <2>1. ASSUME NEW d \in Domains
        PROVE  /\ <<"rdap", d>> \in DOMAIN loopState'
               /\ loopState'[<<"rdap", d>>] = all[<<"rdap", d>>]
    <3>1. <<"rdap", d>> \in DOMAIN all \ gone
      BY <1>3, <1>5
    <3> HIDE DEF gone
    <3> QED BY <1>4, <3>1
  <2> QED BY <2>1
<1>7. \A d \in Domains : ExpiryConfirmed(loopState', d) <=> ExpiryConfirmed(all, d)
  BY <1>6 DEF ExpiryConfirmed
<1>8. \A d \in Domains \ Delegated :
        loopState'[<<"rdap", d>>] = EvaluateRDAP(d, rdapEvidence[d], d \in lapsed)
  BY <1>1, <1>2, <1>6
<1>9. Silent(loopState', nextExpired)
  <2> SUFFICES ASSUME NEW d \in Domains, ExpiryConfirmed(loopState', d) \/ d \in nextExpired
               PROVE  Dependents(d) \cap DOMAIN loopState' = {}
    BY DEF Silent
  <2>1. CASE ExpiryConfirmed(loopState', d)
    BY <1>4, <1>7, <2>1
  <2>2. CASE d \in nextExpired
    <3>1. DOMAIN loopState' \subseteq DOMAIN all
      BY <1>4
    <3> QED BY <1>3, <2>2, <3>1, HeldIsInactive
  <2> QED BY <2>1, <2>2
<1>10. Explained(loopState', nextExpired)
  <2> SUFFICES ASSUME NEW r \in Records, <<"dns", r>> \notin DOMAIN loopState'
               PROVE  \E d \in Domains :
                        /\ TaskOwner(r) = d
                        /\ ExpiryConfirmed(loopState', d) \/ d \in nextExpired
    BY DEF Explained
  <2>1. CASE r \in activeTasks
    <3>1. <<"dns", r>> \in ActiveFastKeys
      BY <2>1 DEF ActiveFastKeys, TaskKey
    <3>2. <<"dns", r>> \in gone
      BY <1>3, <1>4, <3>1
    <3>3. PICK d \in Domains : ExpiryConfirmed(all, d) /\ <<"dns", r>> \in Dependents(d)
      BY <3>2
    <3>4. TaskOwner(r) = d
      BY <3>3 DEF Dependents
    <3> QED BY <1>7, <3>3, <3>4
  <2>2. CASE r \notin activeTasks
    <3>1. TaskOwner(r) \in nextExpired
      BY <2>2 DEF activeTasks, Tasks
    <3>2. TaskOwner(r) \in Domains
      BY <3>1, CycleAssumption DEF Holding
    <3> QED BY <3>1, <3>2
  <2> QED BY <2>1, <2>2
<1>11. \A d \in AllowExpiry \ Delegated :
         d \in Domains \ Delegated /\ rdapEvidence[d] \in RDAPAnswers
  BY CycleAssumption
<1>12. HeldForCause(loopState', nextExpired)
  <2> SUFFICES ASSUME NEW d \in nextExpired
               PROVE  \/ ExpiryConfirmed(loopState', d)
                      \/ loopState'[<<"rdap", d>>].code = "httpError"
    BY DEF HeldForCause
  <2>1. d \in AllowExpiry \ Delegated /\ rdapEvidence[d] \in {"expired", "unreachable"}
    BY DEF Holding
  <2>2. loopState'[<<"rdap", d>>] = EvaluateRDAP(d, rdapEvidence[d], d \in lapsed)
    BY <1>8, <1>11, <2>1
  <2> QED BY <2>1, <2>2 DEF EvaluateRDAP, ExpiryConfirmed, Finding, Result
<1>13. Released(loopState')
  <2> SUFFICES ASSUME NEW d \in expired, d \notin nextExpired
               PROVE  loopState'[<<"rdap", d>>].code # "httpError"
    BY DEF Released
  <2>1. d \in AllowExpiry \ Delegated /\ rdapEvidence[d] \in RDAPAnswers
        /\ rdapEvidence[d] # "unreachable"
    BY <1>11 DEF Holding
  <2>2. loopState'[<<"rdap", d>>] = EvaluateRDAP(d, rdapEvidence[d], d \in lapsed)
    BY <1>8, <1>11, <2>1
  <2> QED BY <2>1, <2>2
          DEF EvaluateRDAP, RDAPAnswers, Finding, Healthy, Result, NoCode
<1> QED BY <1>6, <1>9, <1>10, <1>12, <1>13 DEF Shown

\* What a snapshot shows depends on the statuses and codes of its results, so
\* stamping them with their first-seen times changes nothing.
LEMMA StampedShows ==
  ASSUME IsResultMap(loopState), nextExpired \subseteq Domains, expired \subseteq Domains,
         Shown(loopState, nextExpired), Released(loopState)
  PROVE  /\ DOMAIN stampedResults(loopState) = DOMAIN loopState
         /\ \A k \in DOMAIN loopState :
              /\ stampedResults(loopState)[k].status = loopState[k].status
              /\ stampedResults(loopState)[k].code = loopState[k].code
              /\ stampedResults(loopState)[k].findings = loopState[k].findings
         /\ Shown(stampedResults(loopState), nextExpired)
         /\ Released(stampedResults(loopState))
<1> DEFINE stamped == stampedResults(loopState)
<1>1. DOMAIN stamped = DOMAIN loopState
  BY DEF stampedResults
<1>2. ASSUME NEW k \in DOMAIN loopState
      PROVE  /\ stamped[k].status = loopState[k].status
             /\ stamped[k].code = loopState[k].code
             /\ stamped[k].findings = loopState[k].findings
  <2>1. loopState[k] \in Results
    BY DEF IsResultMap
  <2>2. stamped[k] \in {loopState[k],
                        [loopState[k] EXCEPT !.since = applyConditionSince(k, loopState[k])]}
    BY DEF stampedResults
  <2> HIDE DEF stamped
  <2> QED BY <2>1, <2>2 DEF Results
<1> HIDE DEF stamped
<1>3. \A d \in Domains : /\ <<"rdap", d>> \in DOMAIN loopState
                         /\ stamped[<<"rdap", d>>].status = loopState[<<"rdap", d>>].status
                         /\ stamped[<<"rdap", d>>].code = loopState[<<"rdap", d>>].code
  BY <1>2 DEF Shown
<1>4. \A d \in Domains : ExpiryConfirmed(stamped, d) <=> ExpiryConfirmed(loopState, d)
  BY <1>3 DEF ExpiryConfirmed
<1>5. Silent(stamped, nextExpired) /\ Explained(stamped, nextExpired)
  BY <1>1, <1>4 DEF Shown, Silent, Explained
<1>6. HeldForCause(stamped, nextExpired)
  BY <1>3, <1>4 DEF Shown, HeldForCause
<1>7. Released(stamped)
  BY <1>3 DEF Released
<1>8. Shown(stamped, nextExpired)
  BY <1>1, <1>5, <1>6 DEF Shown
<1> QED BY <1>1, <1>2, <1>7, <1>8 DEF stamped

LEMMA InitHolding == Init => HoldingInv
<1> SUFFICES ASSUME Init PROVE HoldingInv
  OBVIOUS
<1>1. \A k \in DOMAIN published.results : ~Alertable(published.results[k])
  <2>1. \A k \in DOMAIN published.results : published.results[k] = Pending
    BY DEF Init
  <2>2. ~Alertable(Pending)
    BY DEF Pending, Result, Alertable, alertableStatus
  <2> QED BY <2>1, <2>2
<1>2. pc = "idle" /\ expired = {} /\ nextExpired = {} /\ published.lastSuccess = 0
  BY DEF Init
<1> QED BY <1>1, <1>2 DEF HoldingInv

LEMMA HoldingStep == IInv /\ HoldingInv /\ [Next]_vars => HoldingInv'
<1> SUFFICES ASSUME IInv, HoldingInv, [Next]_vars PROVE HoldingInv'
  OBVIOUS
<1>1. DOMAIN published = {"id", "outcome", "lastSuccess", "results"}
  BY DEF IInv, Typed
<1>d. AllowExpiry \subseteq Domains
  BY CycleAssumption
\* What leaves the held domains and the published results alone.
<1>k. ASSUME expired' = expired, published'.results = published.results,
             published'.lastSuccess = published.lastSuccess,
             nextExpired' \subseteq AllowExpiry \ Delegated,
             pc # "published", pc' # "published",
             pc' \in {"gatherFast", "gathered"} => nextExpired' = Holding(rdapEvidence)',
             pc' = "evaluated" => Shown(loopState, nextExpired)' /\ Released(loopState)'
      PROVE  HoldingInv'
  <2>1. Shown(published.results, expired)' <=> Shown(published.results, expired)
    BY <1>k DEF Shown, Silent, Explained, HeldForCause, ExpiryConfirmed, Dependents,
                TaskOwner, configuredDomainOwner, Covers, Alertable, alertableStatus
  <2>2. expired' \subseteq AllowExpiry \ Delegated
    BY <1>k DEF HoldingInv
  <2>3. \A k \in DOMAIN published'.results :
          Alertable(published'.results[k]) <=> Alertable(published.results[k])
    BY <1>k
  <2>4. published'.lastSuccess = 0 =>
          \A k \in DOMAIN published'.results : ~Alertable(published'.results[k])
    BY <1>k, <2>3 DEF HoldingInv
  <2>5. pc' # "published" /\ published'.lastSuccess > 0 => Shown(published.results, expired)'
    BY <1>k, <2>1 DEF HoldingInv
  <2> HIDE DEF Shown
  <2> QED BY <1>k, <2>2, <2>4, <2>5 DEF HoldingInv, Alertable, alertableStatus
<1>2. CASE StartCycle \/ EncodingFails \/ DispatchAlert \/ EndCycle \/ ExitEngine \/ GiveUp
  <2>1. /\ expired' = expired /\ published'.results = published.results
        /\ published'.lastSuccess = published.lastSuccess
        /\ nextExpired' \in {nextExpired, {}}
        /\ pc # "published"
        /\ pc' \notin {"published", "gatherFast", "gathered", "evaluated"}
    BY <1>1, <1>2 DEF StartCycle, EncodingFails, DispatchAlert, EndCycle, ExitEngine, GiveUp,
                 ReleaseEvidence, committedVars, evidenceVars
  <2> QED BY <1>k, <2>1 DEF HoldingInv
<1>3. CASE GatherRDAP
  <2>1. PICK answers \in [Domains \ Delegated -> RDAPAnswers] :
          /\ rdapEvidence' = answers
          /\ nextExpired' = nextExpiredDomains(expired,
               Assign(evaluateRateLimitedEvidence(answers, {}), newCycleState))
    BY <1>3 DEF GatherRDAP
  <2>2. /\ UNCHANGED <<expired, published>>
        /\ pc # "published" /\ pc' = "gatherFast"
    BY <1>3 DEF GatherRDAP, committedVars
  <2>3. nextExpired' = Holding(answers)
    BY <2>1, GatherHolds DEF HoldingInv
  <2>4. nextExpired' = Holding(rdapEvidence)' /\ nextExpired' \subseteq AllowExpiry \ Delegated
    BY <2>1, <2>2, <2>3 DEF Holding
  <2> QED BY <1>k, <2>2, <2>4
<1>4. CASE GatherFast
  <2>1. /\ UNCHANGED <<expired, published, nextExpired, rdapEvidence>>
        /\ pc = "gatherFast" /\ pc' = "gathered"
    BY <1>4 DEF GatherFast, committedVars
  <2>2. nextExpired' = Holding(rdapEvidence)'
    BY <2>1 DEF HoldingInv, Holding
  <2> QED BY <1>k, <2>1, <2>2 DEF HoldingInv
<1>5. CASE Evaluate
  <2>1. /\ UNCHANGED <<expired, published, nextExpired>>
        /\ pc = "gathered" /\ pc' = "evaluated"
    BY <1>5 DEF Evaluate, committedVars
  <2>2. PICK lapsed : loopState' = suppressExpiredDomainChecks(
          Assign(evaluateRateLimitedEvidence(rdapEvidence, lapsed), evaluateFastEvidence))
    BY <1>5 DEF Evaluate
  <2>3. rdapEvidence \in [Domains \ Delegated -> RDAPAnswers]
    BY <2>1 DEF IInv, Typed
  <2>4. Shown(loopState', nextExpired) /\ Released(loopState')
    BY <2>1, <2>2, <2>3, EvaluateShows DEF HoldingInv
  <2>5. Shown(loopState, nextExpired)' /\ Released(loopState)'
    BY <2>1, <2>4 DEF Released, Shown, Silent, Explained, HeldForCause, ExpiryConfirmed,
                      Dependents, TaskOwner, configuredDomainOwner, Covers, Alertable,
                      alertableStatus
  <2> QED BY <1>k, <2>1, <2>5 DEF HoldingInv
<1>6. CASE Publish
  <2> DEFINE stamped == stampedResults(loopState)
  <2>1. /\ UNCHANGED <<expired, nextExpired, cycleID>>
        /\ pc = "evaluated" /\ pc' = "published"
        /\ published'.results = stamped /\ published'.lastSuccess = cycleID
    BY <1>6 DEF Publish, committedVars
  <2>2. Shown(stamped, nextExpired) /\ Released(stamped)
    BY <1>d, <2>1, StampedShows DEF IInv, Typed, HoldingInv
  <2>3. Shown(published.results, nextExpired)' /\ Released(published.results)'
    <3> HIDE DEF stamped
    <3> QED BY <2>1, <2>2
            DEF Released, Shown, Silent, Explained, HeldForCause, ExpiryConfirmed, Dependents,
                TaskOwner, configuredDomainOwner, Covers, Alertable, alertableStatus
  <2>4. cycleID # 0
    <3>1. published.id < cycleID /\ published.id \in 0 .. cycleID /\ cycleID \in 0 .. MaxCycles
      BY <2>1 DEF IInv, Numbering, Typed, TypeOK
    <3> QED BY <3>1, CycleAssumption
  <2> HIDE DEF stamped, Shown, Released
  <2> QED BY <2>1, <2>3, <2>4 DEF HoldingInv
<1>7. CASE Commit
  <2>1. /\ pc = "published" /\ pc' = "dispatching" /\ expired' = nextExpired
        /\ UNCHANGED <<published, nextExpired>>
    BY <1>7 DEF Commit
  <2>2. Shown(published.results, nextExpired)
    BY <2>1 DEF HoldingInv
  <2>3. Shown(published.results, expired)'
    BY <2>1, <2>2 DEF Shown, Silent, Explained, HeldForCause, ExpiryConfirmed, Dependents,
                TaskOwner, configuredDomainOwner, Covers, Alertable, alertableStatus
  <2>4. published.lastSuccess = 0 =>
          \A k \in DOMAIN published.results : ~Alertable(published.results[k])
    BY DEF HoldingInv
  <2> HIDE DEF Shown
  <2> QED BY <2>1, <2>3, <2>4 DEF HoldingInv, Alertable, alertableStatus
<1>8. CASE Cancel \/ TimeOut \/ UNCHANGED vars
  <2>1. UNCHANGED <<pc, rdapEvidence, nextExpired, loopState, published, expired>>
    BY <1>8 DEF Cancel, TimeOut, vars, evidenceVars, committedVars
  <2> QED BY <2>1 DEF HoldingInv, Holding, Shown, Silent, Explained, HeldForCause, Released,
                      ExpiryConfirmed, Dependents, TaskOwner, configuredDomainOwner, Covers,
                      Alertable, alertableStatus
<1> QED BY <1>2, <1>3, <1>4, <1>5, <1>6, <1>7, <1>8 DEF Next, CycleStep

-----------------------------------------------------------------------------
(* The alerts a snapshot calls for: the third part of the invariant.       *)

FindingsOf(results, holding, cycle) ==
  {[cycle |-> cycle, key |-> a[1], code |-> a[2]] :
     a \in {b \in (DOMAIN results) \X Codes :
              /\ Alertable(results[b[1]])
              /\ b[1][2] \in SuppressAlerts => b[1][1] = "dns"
              /\ ~Held(b[1], holding)
              /\ b[2] \in {results[b[1]].code} \cup
                   (IF b[1][1] = "email" THEN results[b[1]].findings ELSE {})}}

\* Every alert the snapshot calls for is handed over or waits to be.
AlertsDue ==
  /\ pc = "published" =>
       /\ dispatched = {}
       /\ staged.alerts = FindingsOf(published.results, nextExpired, published.lastSuccess)
  /\ pc # "published" /\ published.lastSuccess > 0 =>
       dispatched \cup staged.alerts
         = FindingsOf(published.results, expired, published.lastSuccess)
  /\ published.lastSuccess = 0 => dispatched = {} /\ staged.alerts = {}
  /\ pc \notin {"published", "dispatching"} => staged.alerts = {}

\* A finding is visited exactly if it is not the registration of a held domain.
LEMMA VisitedUnlessHeld ==
  ASSUME OnlyHeldAreSkipped, NEW k \in DOMAIN loopState, Alertable(loopState[k])
  PROVE  k \in Visited(loopState) <=> ~Held(k, nextExpired)
<1>1. CASE k \in Visited(loopState)
  BY <1>1 DEF Visited, Held, activeDomains
<1>2. CASE k \notin Visited(loopState)
  BY <1>2 DEF OnlyHeldAreSkipped
<1> QED BY <1>1, <1>2

\* What Publish stages is what the snapshot it publishes calls for.
LEMMA CollectedIsDue ==
  ASSUME IsResultMap(loopState), OnlyHeldAreSkipped,
         nextExpired \subseteq Domains, expired \subseteq Domains,
         Shown(loopState, nextExpired), Released(loopState)
  PROVE  collectAlerts(loopState)
           = FindingsOf(stampedResults(loopState), nextExpired, cycleID)
<1> DEFINE stamped == stampedResults(loopState)
           raised == {b \in Visited(loopState) \X Codes :
                        /\ Alertable(loopState[b[1]])
                        /\ ~Muted(b[1])
                        /\ \/ b[2] = loopState[b[1]].code
                           \/ b[1][1] = "email" /\ b[2] \in loopState[b[1]].findings}
           due == {b \in (DOMAIN stamped) \X Codes :
                     /\ Alertable(stamped[b[1]])
                     /\ b[1][2] \in SuppressAlerts => b[1][1] = "dns"
                     /\ ~Held(b[1], nextExpired)
                     /\ b[2] \in {stamped[b[1]].code} \cup
                          (IF b[1][1] = "email" THEN stamped[b[1]].findings ELSE {})}
<1>1. /\ DOMAIN stamped = DOMAIN loopState
      /\ \A k \in DOMAIN loopState :
           /\ stamped[k].status = loopState[k].status
           /\ stamped[k].code = loopState[k].code
           /\ stamped[k].findings = loopState[k].findings
  BY StampedShows
<1> HIDE DEF stamped
<1>2. Visited(loopState) \subseteq DOMAIN loopState
  BY DEF Visited
<1>3. \A k \in DOMAIN loopState :
        Alertable(stamped[k]) <=> Alertable(loopState[k])
  BY <1>1 DEF Alertable
<1>4. ASSUME NEW k \in DOMAIN loopState, NEW c \in Codes
      PROVE  <<k, c>> \in raised <=> <<k, c>> \in due
  <2>1. CASE ~Alertable(loopState[k])
    BY <1>1, <1>3, <2>1
  <2>2. CASE Alertable(loopState[k])
    <3>1. k \in Visited(loopState) <=> ~Held(k, nextExpired)
      BY <2>2, VisitedUnlessHeld
    <3>2. Muted(k) <=> ~(k[2] \in SuppressAlerts => k[1] = "dns")
      BY DEF Muted
    <3>3. c \in {stamped[k].code} \cup (IF k[1] = "email" THEN stamped[k].findings ELSE {})
            <=> \/ c = loopState[k].code
                \/ k[1] = "email" /\ c \in loopState[k].findings
      BY <1>1
    <3> QED BY <1>1, <1>3, <2>2, <3>1, <3>2, <3>3
  <2> QED BY <2>1, <2>2
<1>5. ASSUME NEW S, NEW b \in S \X Codes
      PROVE  b[1] \in S /\ b[2] \in Codes /\ b = <<b[1], b[2]>>
  BY <1>5
<1>6. ASSUME NEW b \in raised PROVE b \in due
  <2>1. b \in Visited(loopState) \X Codes
    OBVIOUS
  <2> HIDE DEF raised, due
  <2>2. b[1] \in DOMAIN loopState /\ b[2] \in Codes /\ b = <<b[1], b[2]>>
    BY <1>2, <1>5, <2>1
  <2> QED BY <1>4, <2>2
<1>7. ASSUME NEW b \in due PROVE b \in raised
  <2>1. b \in (DOMAIN stamped) \X Codes
    OBVIOUS
  <2> HIDE DEF raised, due
  <2>2. b[1] \in DOMAIN loopState /\ b[2] \in Codes /\ b = <<b[1], b[2]>>
    BY <1>1, <1>5, <2>1
  <2> QED BY <1>4, <2>2
<1>8. raised = due
  <2> HIDE DEF raised, due
  <2> QED BY <1>6, <1>7
<1> QED BY <1>8 DEF collectAlerts, FindingsOf, stamped

LEMMA InitDue == Init => AlertsDue
BY DEF Init, NothingStaged, AlertsDue

LEMMA DueStep == IInv /\ HoldingInv /\ AlertsDue /\ [Next]_vars => AlertsDue'
<1> SUFFICES ASSUME IInv, HoldingInv, AlertsDue, [Next]_vars PROVE AlertsDue'
  OBVIOUS
<1>1. /\ DOMAIN published = {"id", "outcome", "lastSuccess", "results"}
      /\ DOMAIN staged = {"conditions", "alerts"}
  BY DEF IInv, Typed
\* A step that changes no alert, no result and no held domain.
<1>k. ASSUME staged'.alerts = staged.alerts, dispatched' = dispatched, expired' = expired,
             published'.results = published.results,
             published'.lastSuccess = published.lastSuccess,
             pc # "published", pc' # "published",
             pc' = "dispatching" => pc = "dispatching",
             pc = "dispatching" /\ pc' # "dispatching" => staged.alerts = {}
      PROVE  AlertsDue'
  <2>1. FindingsOf(published.results, expired, published.lastSuccess)'
          = FindingsOf(published.results, expired, published.lastSuccess)
    BY <1>k DEF FindingsOf, Held, Alertable, alertableStatus
  <2> QED BY <1>k, <2>1 DEF AlertsDue
<1>2. CASE StartCycle \/ GatherRDAP \/ GatherFast \/ Evaluate \/ GiveUp \/ EncodingFails
             \/ EndCycle \/ ExitEngine
  <2>1. staged' = staged /\ dispatched' = dispatched /\ expired' = expired
    BY <1>2 DEF StartCycle, GatherRDAP, GatherFast, Evaluate, GiveUp, EncodingFails, EndCycle,
                ExitEngine, evidenceVars, committedVars
  <2>2. /\ published'.results = published.results
        /\ published'.lastSuccess = published.lastSuccess
    BY <1>1, <1>2 DEF StartCycle, GatherRDAP, GatherFast, Evaluate, GiveUp, EncodingFails,
                      EndCycle, ExitEngine
  <2>3. /\ pc # "published" /\ pc' \notin {"published", "dispatching"}
        /\ pc = "dispatching" => staged.alerts = {}
    BY <1>2 DEF StartCycle, GatherRDAP, GatherFast, Evaluate, GiveUp, EncodingFails, EndCycle,
                ExitEngine
  <2> QED BY <1>k, <2>1, <2>2, <2>3
<1>3. CASE Publish
  <2>1. /\ staged'.alerts = collectAlerts(loopState) /\ dispatched' = {}
        /\ published'.results = stampedResults(loopState)
        /\ published'.lastSuccess = cycleID
        /\ pc = "evaluated" /\ pc' = "published" /\ nextExpired' = nextExpired
    BY <1>3 DEF Publish
  <2>2. AllowExpiry \subseteq Domains
    BY CycleAssumption
  <2>3. collectAlerts(loopState) = FindingsOf(stampedResults(loopState), nextExpired, cycleID)
    BY <2>1, <2>2, CollectedIsDue DEF IInv, Typed, HistoryInv, HoldingInv
  <2>4. staged'.alerts = FindingsOf(published'.results, nextExpired', published'.lastSuccess)
    BY <2>1, <2>3
  <2>5. FindingsOf(published.results, nextExpired, published.lastSuccess)'
          = FindingsOf(published'.results, nextExpired', published'.lastSuccess)
    BY DEF FindingsOf, Held, Alertable, alertableStatus
  <2>6. cycleID # 0
    <3>1. published.id < cycleID /\ published.id \in 0 .. cycleID /\ cycleID \in 0 .. MaxCycles
      BY <2>1 DEF IInv, Numbering, Typed, TypeOK
    <3> QED BY <3>1, CycleAssumption
  <2> QED BY <2>1, <2>4, <2>5, <2>6 DEF AlertsDue
<1>4. CASE Commit
  <2>1. /\ pc = "published" /\ pc' = "dispatching" /\ expired' = nextExpired
        /\ staged'.alerts = staged.alerts
        /\ UNCHANGED <<published, nextExpired, dispatched>>
    BY <1>1, <1>4 DEF Commit
  <2>2. FindingsOf(published.results, expired, published.lastSuccess)'
          = FindingsOf(published.results, nextExpired, published.lastSuccess)
    BY <2>1 DEF FindingsOf, Held, Alertable, alertableStatus
  <2> QED BY <2>1, <2>2 DEF AlertsDue
<1>5. CASE DispatchAlert
  <2>1. PICK alert \in staged.alerts :
          /\ dispatched' = dispatched \cup {alert}
          /\ staged' = [staged EXCEPT !.alerts = @ \ {alert}]
    BY <1>5 DEF DispatchAlert
  <2>2. dispatched' \cup staged'.alerts = dispatched \cup staged.alerts
    BY <1>1, <2>1
  <2>3. /\ pc = "dispatching" /\ pc' = pc
        /\ UNCHANGED <<published, expired>>
    BY <1>5 DEF DispatchAlert, committedVars
  <2>4. FindingsOf(published.results, expired, published.lastSuccess)'
          = FindingsOf(published.results, expired, published.lastSuccess)
    BY <2>3 DEF FindingsOf, Held, Alertable, alertableStatus
  <2>5. published.lastSuccess # 0
    BY <2>1 DEF AlertsDue
  <2> QED BY <2>2, <2>3, <2>4, <2>5 DEF AlertsDue
<1>6. CASE Cancel \/ TimeOut \/ UNCHANGED vars
  <2>1. UNCHANGED <<pc, nextExpired, staged, published, expired, dispatched>>
    BY <1>6 DEF Cancel, TimeOut, vars, evidenceVars, committedVars
  <2> QED BY <2>1 DEF AlertsDue, FindingsOf, Held, Alertable, alertableStatus
<1> QED BY <1>2, <1>3, <1>4, <1>5, <1>6 DEF Next, CycleStep

THEOREM SilenceInvariant == Spec => [](IInv /\ HoldingInv /\ AlertsDue)
<1>1. IInv /\ HoldingInv /\ AlertsDue /\ [Next]_vars => HoldingInv' /\ AlertsDue'
  BY HoldingStep, DueStep
<1> QED BY CycleInvariant, InitHolding, InitDue, <1>1, PTL DEF Spec

-----------------------------------------------------------------------------
(* What follows about alerts, silence and first-seen times.                *)

LEMMA ExpectedIsDue ==
  ExpectedAlerts = FindingsOf(published.results, expired, published.lastSuccess)
BY DEF ExpectedAlerts, FindingsOf

\* Between cycles the notifier has been given every unmuted finding of the
\* last successful snapshot and nothing else (runtime.go:656-665, 923-1069).
THEOREM FindingsAreAlerted == Spec => []EveryFindingAlerts
<1>1. IInv /\ HoldingInv /\ AlertsDue => EveryFindingAlerts
  <2> SUFFICES ASSUME AlertsDue, pc \in {"idle", "exited"}, published.lastSuccess > 0
               PROVE  dispatched = ExpectedAlerts
    BY DEF EveryFindingAlerts
  <2>1. staged.alerts = {}
    BY DEF AlertsDue
  <2>2. dispatched \cup staged.alerts
          = FindingsOf(published.results, expired, published.lastSuccess)
    BY DEF AlertsDue
  <2> QED BY <2>1, <2>2, ExpectedIsDue
<1> QED BY SilenceInvariant, <1>1, PTL

\* The snapshot shows no dependent check of an expired domain, and no alert of
\* one goes out (runtime.go:812-834, 863-898).
THEOREM ExpiredDomainsAreSilent == Spec => []ExpiredDomainsStaySilent
<1>1. IInv /\ HoldingInv /\ AlertsDue => ExpiredDomainsStaySilent
  <2> SUFFICES ASSUME IInv, HoldingInv, AlertsDue, published.lastSuccess > 0, NEW d \in Domains,
                      \/ ExpiryConfirmed(published.results, d)
                      \/ d \in expired /\ pc # "published"
               PROVE  /\ Dependents(d) \cap DOMAIN published.results = {}
                      /\ \A alert \in dispatched \cup staged.alerts :
                           alert.key \notin Dependents(d)
    BY DEF ExpiredDomainsStaySilent
  <2>1. PICK holding :
          /\ Shown(published.results, holding)
          /\ dispatched \cup staged.alerts
               = FindingsOf(published.results, holding, published.lastSuccess)
          /\ pc # "published" => holding = expired
    <3>1. CASE pc = "published"
      BY <3>1 DEF HoldingInv, AlertsDue
    <3>2. CASE pc # "published"
      BY <3>2 DEF HoldingInv, AlertsDue
    <3> QED BY <3>1, <3>2
  <2>2. Dependents(d) \cap DOMAIN published.results = {}
    BY <2>1 DEF Shown, Silent
  <2>3. \A alert \in dispatched \cup staged.alerts : alert.key \in DOMAIN published.results
    BY <2>1 DEF FindingsOf
  <2> QED BY <2>2, <2>3
<1> QED BY SilenceInvariant, <1>1, PTL

\* A hostname that some configured domain covers belongs to the longest of
\* them (runtime.go:836-846).
LEMMA OwnerIsLongest ==
  ASSUME NEW r \in Records, configuredDomainOwner(HostOf[r]) \in Domains
  PROVE  /\ Covers(configuredDomainOwner(HostOf[r]), HostOf[r])
         /\ \A e \in Domains :
              Covers(e, HostOf[r]) => Len(e) <= Len(configuredDomainOwner(HostOf[r]))
<1> DEFINE host == HostOf[r]
           owners == {d \in Domains : Covers(d, host)}
           longest == CHOOSE d \in owners : \A e \in owners : Len(e) <= Len(d)
           excess == {Len(host) - Len(e) : e \in owners}
<1>1. configuredDomainOwner(host) = IF owners = {} THEN NoDomain ELSE longest
  BY DEF configuredDomainOwner
<1>2. owners # {}
  BY <1>1, CycleAssumption
<1>3. /\ Len(host) \in Nat
      /\ \A e \in owners : Len(e) \in Nat /\ Len(e) <= Len(host)
  <2>1. host \in Seq(STRING) /\ \A e \in Domains : e \in Seq(STRING)
    BY CycleAssumption
  <2> QED BY <2>1 DEF Covers
<1>4. \E d \in owners : \A e \in owners : Len(e) <= Len(d)
  <2> HIDE DEF owners, host
  <2>1. excess \in SUBSET Nat /\ excess # {}
    BY <1>2, <1>3
  <2>2. PICK n \in excess : \A m \in excess : n <= m
    BY <2>1, NatLeastElement
  <2>3. PICK d \in owners : n = Len(host) - Len(d)
    BY <2>2
  <2>4. \A e \in owners : Len(host) - Len(d) <= Len(host) - Len(e)
    BY <2>2, <2>3
  <2>5. \A e \in owners : Len(e) <= Len(d)
    BY <1>3, <2>4
  <2> QED BY <2>5
<1>5. longest \in owners /\ \A e \in owners : Len(e) <= Len(longest)
  BY <1>4
<1> HIDE DEF longest
<1> QED BY <1>1, <1>2, <1>5

\* When a configured DNS task is missing, the closest configured domain above
\* its hostname was held back or is confirmed expired (runtime.go:812-846).
THEOREM OnlyExpirySilencesTasks == Spec => []OnlyExpirySilences
<1>1. IInv /\ HoldingInv /\ AlertsDue => OnlyExpirySilences
  <2> SUFFICES ASSUME HoldingInv, published.lastSuccess > 0, NEW r \in Records,
                      <<"dns", r>> \notin DOMAIN published.results
               PROVE  \E d \in Domains :
                        /\ Covers(d, HostOf[r])
                        /\ \A e \in Domains : Covers(e, HostOf[r]) => Len(e) <= Len(d)
                        /\ \/ ExpiryConfirmed(published.results, d)
                           \/ d \in IF pc = "published" THEN nextExpired ELSE expired
    BY DEF OnlyExpirySilences
  <2>1. Explained(published.results, IF pc = "published" THEN nextExpired ELSE expired)
    BY DEF HoldingInv, Shown
  <2>2. PICK d \in Domains :
          /\ TaskOwner(r) = d
          /\ \/ ExpiryConfirmed(published.results, d)
             \/ d \in IF pc = "published" THEN nextExpired ELSE expired
    BY <2>1 DEF Explained
  <2>3. configuredDomainOwner(HostOf[r]) = d
    BY <2>2 DEF TaskOwner
  <2> QED BY <2>2, <2>3, OwnerIsLongest
<1> QED BY SilenceInvariant, <1>1, PTL

\* A held domain is released only by a published answer of the registry, and held
\* on only where the published snapshot confirms its expiry or could not ask
\* (runtime.go:877-898).
THEOREM HoldsAreReleasedByAnswers == Spec => HoldReleasedByAnswer
<1>1. IInv /\ HoldingInv /\ AlertsDue /\ [Next]_vars =>
        [/\ \A d \in expired \ expired' : published.results[<<"rdap", d>>].code # "httpError"
         /\ pc = "published" /\ pc' # "published" =>
              \A d \in expired' :
                \/ ExpiryConfirmed(published.results, d)
                \/ published.results[<<"rdap", d>>].code = "httpError"]_vars
  <2> SUFFICES ASSUME HoldingInv, Next
               PROVE  /\ \A d \in expired \ expired' :
                           published.results[<<"rdap", d>>].code # "httpError"
                      /\ pc = "published" /\ pc' # "published" =>
                           \A d \in expired' :
                             \/ ExpiryConfirmed(published.results, d)
                             \/ published.results[<<"rdap", d>>].code = "httpError"
    OBVIOUS
  <2>1. CASE Commit
    BY <2>1 DEF Commit, HoldingInv, Shown, HeldForCause, Released
  <2>2. CASE expired' = expired /\ (pc = "published" => pc' = "published")
    BY <2>2
  <2> QED BY <2>1, <2>2
      DEF Next, CycleStep, StartCycle, GatherRDAP, GatherFast, Evaluate, GiveUp, Publish,
          EncodingFails, DispatchAlert, EndCycle, ExitEngine, Cancel, TimeOut, committedVars
<1> QED BY SilenceInvariant, <1>1, PTL DEF Spec, HoldReleasedByAnswer

\* The committed history knows a finding exactly if the last snapshot showed
\* it, unless it is the outage of a registration that is held on.
LEMMA HistoryKnowsWhatWasSeen ==
  ASSUME IInv, HoldingInv, pc = "evaluated",
         NEW k \in DOMAIN published.results, Alertable(published.results[k]),
         k \in DOMAIN loopState, loopState[k].code = published.results[k].code,
         ~Held(k, nextExpired)
  PROVE  k \in DOMAIN conditions
<1>1. published.lastSuccess \in Nat
  BY CycleAssumption DEF IInv, Typed, TypeOK
<1>2. published.lastSuccess > 0
  BY <1>1 DEF HoldingInv
<1>3. Complete(conditions, published.results, expired)
  BY <1>2 DEF IInv, HistoryInv
<1>4. CASE ~Held(k, expired)
  BY <1>3, <1>4 DEF Complete
<1>5. CASE Held(k, expired)
  <2>1. k[1] = "rdap" /\ k[2] \in expired /\ k[2] \notin nextExpired
    BY <1>5 DEF Held
  <2>2. k = <<"rdap", k[2]>>
    <3>1. k \in Keys
      BY DEF IInv, Typed, IsResultMap
    <3> QED BY <2>1, <3>1 DEF Keys
  <2>3. HeldForCause(published.results, expired) /\ Released(loopState)
    BY <1>2 DEF HoldingInv, Shown
  <2>4. published.results[k].code = "httpError"
    BY <2>1, <2>2, <2>3 DEF HeldForCause, ExpiryConfirmed, Alertable, alertableStatus
  <2>5. loopState[k].code # "httpError"
    BY <2>1, <2>2, <2>3 DEF Released
  <2> QED BY <2>4, <2>5
<1> QED BY <1>4, <1>5

\* A finding keeps its first-seen time exactly as long as successive snapshots
\* show the same code (runtime.go:900-913).
THEOREM SinceIsTheFirstSeen == Spec => SinceIsFirstSeen
<1> DEFINE Kept == published'.lastSuccess # published.lastSuccess =>
             \A k \in DOMAIN published'.results :
               LET new == published'.results[k]
                   seen == /\ k \in DOMAIN published.results
                           /\ Alertable(published.results[k])
                           /\ published.results[k].code = new.code
               IN Alertable(new) /\ ~Held(k, nextExpired) =>
                    new.since = IF seen THEN published.results[k].since ELSE cycleID
<1>1. IInv /\ HoldingInv /\ AlertsDue /\ [Next]_vars => [Kept]_vars
  <2> SUFFICES ASSUME IInv, HoldingInv, Next PROVE Kept
    OBVIOUS
  <2>1. CASE Publish
    <3> DEFINE stamped == stampedResults(loopState)
    <3>1. pc = "evaluated" /\ published'.results = stamped
      BY <2>1 DEF Publish
    <3>2. AllowExpiry \subseteq Domains
      BY CycleAssumption
    <3>3. /\ DOMAIN stamped = DOMAIN loopState
          /\ \A k \in DOMAIN loopState :
               /\ stamped[k].status = loopState[k].status
               /\ stamped[k].code = loopState[k].code
      BY <3>1, <3>2, StampedShows DEF IInv, Typed, HoldingInv
    <3>4. IsResultMap(loopState) /\ OnlyHeldAreSkipped /\ Faithful(conditions, published.results)
      BY <3>1 DEF IInv, Typed, HistoryInv
    <3> SUFFICES ASSUME NEW k \in DOMAIN stamped, Alertable(stamped[k]), ~Held(k, nextExpired)
                 PROVE  stamped[k].since
                          = IF /\ k \in DOMAIN published.results
                               /\ Alertable(published.results[k])
                               /\ published.results[k].code = stamped[k].code
                            THEN published.results[k].since ELSE cycleID
      BY <3>1
    <3>5. k \in DOMAIN loopState /\ Alertable(loopState[k])
      BY <3>3 DEF Alertable
    <3>6. k \in Visited(loopState)
      BY <3>4, <3>5, VisitedUnlessHeld
    <3>7. stamped[k].since = applyConditionSince(k, loopState[k])
      <4>1. stamped[k] = [loopState[k] EXCEPT !.since = applyConditionSince(k, loopState[k])]
        BY <3>5, <3>6 DEF stampedResults
      <4>2. loopState[k] \in Results
        BY <3>4, <3>5 DEF IsResultMap
      <4> HIDE DEF stamped
      <4> QED BY <4>1, <4>2 DEF Results
    <3> HIDE DEF stamped
    <3>8. CASE k \in DOMAIN conditions /\ conditions[k].code = loopState[k].code
      BY <3>3, <3>4, <3>5, <3>7, <3>8 DEF Faithful, applyConditionSince
    <3>9. CASE ~(k \in DOMAIN conditions /\ conditions[k].code = loopState[k].code)
      <4>1. stamped[k].since = cycleID
        BY <3>7, <3>9 DEF applyConditionSince
      <4>2. ASSUME k \in DOMAIN published.results, Alertable(published.results[k]),
                   published.results[k].code = stamped[k].code
            PROVE  FALSE
        <5>1. k \in DOMAIN conditions
          BY <3>1, <3>3, <3>5, <4>2, HistoryKnowsWhatWasSeen
        <5> QED BY <3>3, <3>4, <3>5, <3>9, <4>2, <5>1 DEF Faithful
      <4> QED BY <4>1, <4>2
    <3> QED BY <3>8, <3>9
  <2>2. CASE published'.lastSuccess = published.lastSuccess
    BY <2>2
  <2>3. CASE GiveUp
    <3>1. DOMAIN published = {"id", "outcome", "lastSuccess", "results"}
      BY DEF IInv, Typed
    <3>2. published'.lastSuccess = published.lastSuccess
      BY <2>3, <3>1 DEF GiveUp
    <3> QED BY <2>2, <3>2
  <2> HIDE DEF Kept
  <2> QED BY <2>1, <2>2, <2>3
      DEF Next, CycleStep, StartCycle, GatherRDAP, GatherFast, Evaluate, EncodingFails, Commit,
          DispatchAlert, EndCycle, ExitEngine, Cancel, TimeOut
<1> QED BY SilenceInvariant, <1>1, PTL DEF Spec, SinceIsFirstSeen
=============================================================================
