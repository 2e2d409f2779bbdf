---------------------------- MODULE DomainProofs ----------------------------
(***************************************************************************)
(* Theorems about DomainChecks, for any domains, any numbers of servers    *)
(* and any answers.                                                        *)
(***************************************************************************)
EXTENDS DomainChecks, SetFacts, FiniteSetTheorems, TLAPS

EmailPhases == {"mx", "spf", "dmarc", "dkim"}
DelegationPhases == {"parents", "delegation"}
DNSSECPhases == {"resolvers", "ds", "dnskey", "doh"}
NSPhases == {"servers", "soa", "nsKeys"}

-----------------------------------------------------------------------------
(* The order of the checks.                                                *)

LEMMA EmailStepPhases ==
  ASSUME EmailStep
  PROVE  /\ phase \in EmailPhases /\ UNCHANGED target
         /\ phase' \in EmailPhases \cup {AfterEmail(target)}
  BY DEF EmailStep, QueryMX, QuerySPF, QueryDKIM, DMARCStep, QueryDMARC, EndWalk, WalkOn,
         TakePolicy, EmailPhases

LEMMA DelegationStepPhases ==
  ASSUME DelegationStep
  PROVE  /\ phase \in DelegationPhases /\ UNCHANGED target
         /\ phase' \in DelegationPhases \cup {AfterDelegation(target)}
  BY DEF DelegationStep, ResolveParents, QueryDelegation, DelegationPhases

LEMMA DNSSECStepPhases ==
  ASSUME DNSSECStep
  PROVE  /\ phase \in DNSSECPhases /\ UNCHANGED target
         /\ phase' \in DNSSECPhases \cup {AfterDNSSEC(target)}
  BY DEF DNSSECStep, ChooseResolver, QueryDS, QueryDNSKEY, QueryDoH, DNSSECPhases

LEMMA NSStepPhases ==
  ASSUME NSStep
  PROVE  /\ phase \in NSPhases /\ UNCHANGED target
         /\ phase' \in NSPhases \cup {"evaluate"}
  BY DEF NSStep, ResolveNameserver, QuerySOA, QueryNSKeys, NextNameserver, NSPhases

\* Where a check hands over to.
LEMMA Handover ==
  /\ AfterDNSSEC(target) \in {"servers", "evaluate"}
  /\ AfterDelegation(target) \in {"resolvers", "servers", "evaluate"}
  /\ AfterEmail(target) \in {"parents", "resolvers", "servers", "evaluate"}
  /\ FirstPhase(target) \in {"mx", "parents", "resolvers", "servers", "evaluate"}
  BY DEF AfterDNSSEC, AfterDelegation, AfterEmail, FirstPhase

-----------------------------------------------------------------------------
(* DMARC.                                                                  *)

\* Before the walk nothing has been asked.
NotBegun ==
  /\ node = [k \in 1 .. target.labels |-> Unasked]
  /\ walk = [at |-> target.labels, queries |-> 0, candidate |-> 0]
  /\ policy = NoPolicy

\* During the walk: the nodes beyond the current one have been asked, in number
\* as many as were counted, all could be read, none of them was decisive, and
\* the candidate is the last of their policies.
Walking ==
  LET n == target.labels
      seen == {k \in Path(n) : k > walk.at} IN
  /\ DOMAIN node = 1 .. n
  /\ walk \in [at : Int, queries : Int, candidate : Int]
  /\ walk.at \in Path(n)
  /\ walk.queries = (CASE walk.at = n -> 0
                       [] walk.at # n /\ n > MaxDMARCDiscoveryLabels ->
                            DMARCDiscoveryTargetLabels - walk.at + 1
                       [] OTHER -> n - walk.at)
  /\ \A k \in Path(n) : node[k] = Unasked <=> k <= walk.at
  /\ \A k \in seen : ~Unreadable(k) /\ ~Decisive(n, k)
  /\ \A k \in seen : IsPolicy(node[k]) => walk.candidate # 0 /\ walk.candidate <= k
  /\ walk.candidate # 0 => walk.candidate \in seen /\ IsPolicy(node[walk.candidate])
  /\ policy = NoPolicy

DMARCInv ==
  /\ target \in Written
  /\ phase \in {"mx", "spf"} => NotBegun
  /\ phase = "dmarc" => Walking
  /\ DMARCPolicyIsTheTrees

\* The nodes of a domain's path are among its own and its parents'.
LEMMA PathBounds ==
  ASSUME NEW n \in Nat \ {0}
  PROVE  /\ n \in Path(n) /\ 1 \in Path(n)
         /\ \A k \in Path(n) : k \in Int /\ 1 <= k /\ k <= n
         /\ \A k \in Path(n) : k # n /\ n > MaxDMARCDiscoveryLabels
                                 => k <= DMARCDiscoveryTargetLabels
         /\ \A k \in 1 .. DMARCDiscoveryTargetLabels : k <= n => k \in Path(n)
         /\ n <= MaxDMARCDiscoveryLabels => Path(n) = 1 .. n
  BY DMARCAssumption DEF Path

LEMMA BeginsToWalk ==
  ASSUME target \in Written, NotBegun
  PROVE  Walking
<1>1. target.labels \in Nat \ {0}
  BY DMARCAssumption
<1> DEFINE n == target.labels
<1>2. n \in Path(n) /\ \A k \in Path(n) : k \in Int /\ 1 <= k /\ k <= n
  BY <1>1, PathBounds
<1>3. \A k \in Path(n) : node[k] = Unasked
  BY <1>2 DEF NotBegun
<1> QED BY <1>1, <1>2, <1>3 DEF NotBegun, Walking

\* The walk asks one more node, and may end with it.
LEMMA WalkStep ==
  ASSUME target \in Written, phase = "dmarc", Walking, UNCHANGED target,
         NEW reply \in {NXDomain, Failure} \cup {Records(r) : r \in PolicyAnswers},
         QueryDMARC(reply)
  PROVE  /\ phase' = "dmarc" => Walking'
         /\ DMARCPolicyIsTheTrees'
<1>0. PICK n, at : n = target.labels /\ at = walk.at
  OBVIOUS
<1>n. n \in Nat \ {0} /\ n = target.labels /\ n = target'.labels /\ at = walk.at
  BY <1>0, DMARCAssumption
<1>p. /\ n \in Path(n) /\ 1 \in Path(n)
      /\ \A k \in Path(n) : k \in Int /\ 1 <= k /\ k <= n
      /\ \A k \in Path(n) : k # n /\ n > MaxDMARCDiscoveryLabels
                              => k <= DMARCDiscoveryTargetLabels
      /\ \A k \in 1 .. DMARCDiscoveryTargetLabels : k <= n => k \in Path(n)
      /\ n <= MaxDMARCDiscoveryLabels => Path(n) = 1 .. n
  BY <1>n, PathBounds
<1>r. reply # Unasked
  BY <1>n DEF NXDomain, Failure, Records, Reply, Unasked
<1>a. /\ at \in Path(n) /\ at \in Int
      /\ node' = [node EXCEPT ![at] = reply] /\ DOMAIN node = 1 .. n
      /\ node'[at] = reply
      /\ \A k \in Path(n) : k # at => node'[k] = node[k]
  BY <1>n, <1>p DEF QueryDMARC, Walking
<1>d. DMARCDiscoveryTargetLabels \in Nat \ {0}
      /\ MaxDMARCDiscoveryLabels = DMARCDiscoveryTargetLabels + 1
      /\ MaxDMARCQueries = DMARCDiscoveryTargetLabels + 1
  BY <1>n, DMARCAssumption
<1>w. /\ \A k \in Path(n) : k < at => node'[k] = Unasked
      /\ \A k \in Path(n) : k > at => /\ node'[k] # Unasked
                                      /\ ~Unreadable(k)' /\ ~Decisive(n, k)'
                                      /\ (IsPolicy(node'[k]) <=> IsPolicy(node[k]))
  BY <1>n, <1>a, <1>p DEF Walking, Unreadable, Decisive
<1>u. \A k \in Path(n) : node'[k] = Unasked => ~IsPolicy(node'[k]) /\ ~Unreadable(k)'
                                             /\ ~Decisive(n, k)'
  BY <1>n DEF Unasked, Reply, IsPolicy, IsMalformed, Answered, Unreadable, Decisive
\* How the step affects what the walk is meant to find.
<1>1. \A d \in Path(n) : Decisive(n, d)' => d = at
  BY <1>n, <1>w, <1>u, <1>p, <1>a
<1>2. Scanned(n)' = IF Decisive(n, at)' THEN {k \in Path(n) : k >= at} ELSE Path(n)
  BY <1>n, <1>1, <1>a, <1>p DEF Scanned
<1>3. \A k \in Path(n) : Unreadable(k)' => k = at
  BY <1>n, <1>w, <1>u, <1>p, <1>a
<1>4. n # at => walk.queries # 0
  BY <1>a, <1>d, <1>n, <1>p DEF Walking
<1>5. n = at => walk.queries = 0
  BY <1>n, <1>a DEF Walking
<1>6. walk.candidate \in Int /\ walk.queries \in Int
  BY <1>n DEF Walking
<1>f. CASE reply.err = "failed" \/ IsMalformed(reply)
  <2>1. Unreadable(at)' /\ ~IsPolicy(node'[at]) /\ ~Decisive(n, at)'
    BY <1>n, <1>a, <1>f DEF Unreadable, IsPolicy, IsMalformed, Answered, Decisive
  <2>2. policy'.err # "none" /\ phase' # "dmarc"
    BY <1>n, <1>f DEF QueryDMARC, EndWalk, IsPolicy, IsMalformed, Answered
  <2> QED BY <2>1, <2>2, <1>2, <1>a, <1>n DEF DMARCPolicyIsTheTrees
<1>g. CASE reply.err # "failed" /\ ~IsMalformed(reply)
  <2>1. \A k \in Path(n) : ~Unreadable(k)'
    BY <1>n, <1>3, <1>g, <1>a DEF Unreadable
  <2>w. \A candidate \in Int :
          /\ WalkOn(candidate)
          /\ ~Decisive(n, at)'
          /\ candidate = IF IsPolicy(reply) THEN at ELSE walk.candidate
          => /\ phase' = "dmarc" => Walking'
             /\ DMARCPolicyIsTheTrees'
    <3> SUFFICES ASSUME NEW candidate \in Int, WalkOn(candidate), ~Decisive(n, at)',
                        candidate = IF IsPolicy(reply) THEN at ELSE walk.candidate
                 PROVE  /\ phase' = "dmarc" => Walking'
                        /\ DMARCPolicyIsTheTrees'
      OBVIOUS
    <3>1. \A k \in Path(n) : k >= at /\ IsPolicy(node'[k]) => candidate # 0 /\ candidate <= k
      BY <1>n, <1>w, <1>a, <1>p, <1>6 DEF Walking
    <3>2. candidate # 0 => candidate \in Path(n) /\ candidate >= at
                           /\ IsPolicy(node'[candidate])
      BY <1>n, <1>w, <1>a, <1>p, <1>6 DEF Walking
    <3>3. CASE at = 1 \/ walk.queries + 1 = MaxDMARCQueries
      <4>1. at = 1
        BY <3>3, <1>a, <1>d, <1>n, <1>p, <1>6 DEF Walking
      <4>2. policy' = [err |-> "none", at |-> candidate] /\ phase' # "dmarc"
        BY <1>n, <3>3 DEF WalkOn, EndWalk
      <4>3. Scanned(n)' = Path(n) /\ \A d \in Path(n) : ~Decisive(n, d)'
        BY <1>n, <1>2, <1>1
      <4>4. \A k \in Path(n) : node'[k] # Unasked
        BY <1>n, <4>1, <1>w, <1>a, <1>r, <1>p
      <4>5. \A k \in Path(n) : ~BelowSuffix(n, k)'
        BY <4>3, <1>n DEF BelowSuffix, Scanned
      <4>6. \A k \in Path(n) :
              Governs(n, k)' <=> /\ IsPolicy(node'[k])
                                 /\ \A j \in Path(n) : IsPolicy(node'[j]) => k <= j
        BY <4>3, <4>5, <1>n DEF Governs
      <4>7. \A k \in Path(n) : Governs(n, k)' <=> candidate = k
        BY <1>n, <4>6, <4>1, <3>1, <3>2, <1>p
      <4> QED BY <4>2, <4>3, <4>4, <4>7, <2>1, <1>n DEF DMARCPolicyIsTheTrees
    <3>4. CASE ~(at = 1 \/ walk.queries + 1 = MaxDMARCQueries)
      <4> DEFINE up == Parent(at)
      <4>1. walk' = [at |-> up, queries |-> walk.queries + 1, candidate |-> candidate]
            /\ policy' = policy
        BY <1>n, <3>4 DEF WalkOn
      <4>2. up = IF at = n /\ n > MaxDMARCDiscoveryLabels
                 THEN DMARCDiscoveryTargetLabels ELSE at - 1
        BY <1>n, <1>4, <1>5, <1>a DEF Parent
      <4>3. up \in Path(n) /\ up < at /\ \A k \in Path(n) : k < at => k <= up
        BY <4>2, <3>4, <1>a, <1>d, <1>n, <1>p
      <4>4. (walk.queries + 1) =
              (CASE up = n -> 0
                 [] up # n /\ n > MaxDMARCDiscoveryLabels ->
                      DMARCDiscoveryTargetLabels - up + 1
                 [] OTHER -> n - up)
        BY <4>2, <4>3, <1>a, <1>d, <1>n, <1>p, <1>6 DEF Walking
      <4>5. \A k \in Path(n) : node'[k] = Unasked <=> k <= up
        BY <1>n, <4>3, <1>w, <1>a, <1>r, <1>p
      <4>6. \A k \in Path(n) : k > up => k >= at /\ ~Unreadable(k)' /\ ~Decisive(n, k)'
        BY <1>n, <4>3, <1>w, <1>p, <1>a, <2>1
      <4>7. DOMAIN node' = 1 .. n
        BY <1>n, <1>a
      <4>8. Walking'
        BY <4>1, <4>3, <4>4, <4>5, <4>6, <4>7, <3>1, <3>2, <1>n, <1>p, <1>6, <1>a
        DEF Walking
      <4>9. phase' = "dmarc"
        BY <1>n, <3>4 DEF WalkOn
      <4> QED BY <1>n, <4>8, <4>9 DEF DMARCPolicyIsTheTrees
    <3> QED BY <1>n, <3>3, <3>4
  <2>2. CASE IsPolicy(reply)
    <3>1. PICK psd \in {"y", "n", "u"} : reply.records = {psd}
      BY <1>n, <2>2 DEF IsPolicy
    <3>2. TakePolicy(at, psd)
      BY <1>n, <2>2, <3>1, <1>g DEF QueryDMARC
    <3>3. Decisive(n, at)' <=> at = n \/ psd # "u"
      BY <1>n, <2>2, <3>1, <1>a DEF Decisive
    <3>4. CASE at = n
      <4>1. policy' = [err |-> "none", at |-> n] /\ phase' # "dmarc"
        BY <1>n, <3>2, <3>4, <1>5 DEF TakePolicy, EndWalk
      <4>2. Scanned(n)' = {n}
        BY <1>n, <3>3, <3>4, <1>2, <1>p
      <4>3. \A k \in Path(n) : ~BelowSuffix(n, k)' /\ ~BelowSuffix(n, k + 1)'
        BY <4>2, <1>n, <1>p DEF BelowSuffix
      <4>4. \A k \in Path(n) : Governs(n, k)' <=> k = n
        BY <4>2, <4>3, <3>3, <3>4, <2>2, <1>1, <1>n, <1>a DEF Governs
      <4> QED BY <4>1, <4>2, <4>4, <2>1, <1>n, <1>a, <1>r, <3>4, <1>p
          DEF DMARCPolicyIsTheTrees
    <3>5. CASE at # n /\ psd = "n"
      <4>1. policy' = [err |-> "none", at |-> at] /\ phase' # "dmarc"
        BY <1>n, <3>2, <3>5 DEF TakePolicy, EndWalk
      <4>2. Scanned(n)' = {k \in Path(n) : k >= at}
        BY <1>n, <3>3, <3>5, <1>2
      <4>3. \A k \in Int : ~BelowSuffix(n, k)'
        BY <4>2, <3>1, <3>5, <1>1, <1>n, <1>a DEF BelowSuffix, Scanned
      <4>4. \A k \in Path(n) : Governs(n, k)' <=> k = at
        BY <4>2, <4>3, <3>3, <3>5, <2>2, <1>1, <1>n, <1>a, <1>p DEF Governs
      <4> QED BY <4>1, <4>2, <4>4, <2>1, <1>n, <1>a, <1>r, <1>w, <1>p
          DEF DMARCPolicyIsTheTrees
    <3>6. CASE at # n /\ psd = "y"
      <4> DEFINE best == IF walk.candidate = at + 1 THEN at + 1 ELSE at
      <4>1. policy' = [err |-> "none", at |-> best] /\ phase' # "dmarc"
        BY <1>n, <3>2, <3>6, <1>4 DEF TakePolicy, EndWalk
      <4>2. Scanned(n)' = {k \in Path(n) : k >= at}
        BY <1>n, <3>3, <3>6, <1>2
      <4>3. \A k \in Int : BelowSuffix(n, k)' <=>
              k = at + 1 /\ k \in Path(n) /\ IsPolicy(node'[k])
        BY <4>2, <3>1, <3>3, <3>6, <1>1, <1>n, <1>a, <1>p DEF BelowSuffix
      <4>4. at + 1 \in Path(n) /\ IsPolicy(node'[at + 1]) <=> walk.candidate = at + 1
        BY <1>n, <1>w, <1>a, <1>p, <1>6 DEF Walking
      <4>5. \A k \in Path(n) : Governs(n, k)' <=> k = best
        BY <4>2, <4>3, <4>4, <3>3, <3>6, <2>2, <1>1, <1>n, <1>a, <1>p DEF Governs
      <4> QED BY <4>1, <4>2, <4>5, <2>1, <1>n, <1>a, <1>r, <1>w, <1>p
          DEF DMARCPolicyIsTheTrees
    <3>7. CASE at # n /\ psd = "u"
      <4>1. WalkOn(at)
        BY <1>n, <3>2, <3>7, <1>4 DEF TakePolicy
      <4> QED BY <1>n, <4>1, <3>3, <3>7, <2>2, <2>w, <1>a
    <3> QED BY <1>n, <3>4, <3>5, <3>6, <3>7
  <2>3. CASE ~IsPolicy(reply)
    <3>1. WalkOn(walk.candidate)
      BY <1>n, <2>3, <1>g DEF QueryDMARC
    <3>2. ~Decisive(n, at)'
      BY <1>n, <2>3, <1>a DEF Decisive
    <3> QED BY <1>n, <3>1, <3>2, <2>3, <2>w, <1>6
  <2> QED BY <1>n, <2>2, <2>3
<1> QED BY <1>n, <1>f, <1>g

LEMMA InitDMARC == Init => DMARCInv
<1> SUFFICES ASSUME Init PROVE DMARCInv
  OBVIOUS
<1>1. target \in Written
  BY DEF Init, Domains
<1>2. NotBegun
  BY DEF Init, DMARCInit, NotBegun
<1>3. phase # "dmarc"
  BY Handover DEF Init
<1>4. node[target.labels] = Unasked
  BY <1>1, <1>2, DMARCAssumption DEF NotBegun
<1> QED BY <1>1, <1>2, <1>3, <1>4 DEF DMARCInv, DMARCPolicyIsTheTrees

\* A step that leaves the walk alone and does not begin it.
LEMMA DMARCFrame ==
  ASSUME DMARCInv, UNCHANGED <<target, dmarcVars>>,
         phase # "dmarc" \/ phase' = "dmarc",
         phase' \in {"mx", "spf"} => phase \in {"mx", "spf"},
         phase' = "dmarc" => phase \in {"spf", "dmarc"}
  PROVE  DMARCInv'
<1>1. target.labels \in Nat \ {0}
  BY DMARCAssumption DEF DMARCInv
<1>2. phase' \in {"mx", "spf"} => NotBegun'
  BY DEF DMARCInv, NotBegun, dmarcVars
<1>3. phase' = "dmarc" => Walking'
  <2>1. phase' = "dmarc" => Walking
    BY BeginsToWalk DEF DMARCInv
  <2> QED BY <2>1 DEF Walking, dmarcVars, Unreadable, Decisive
<1>4. DMARCPolicyIsTheTrees'
  <2>1. CASE phase = "dmarc"
    BY <2>1 DEF DMARCPolicyIsTheTrees
  <2>2. CASE phase # "dmarc"
    <3>1. \A n, k : (Decisive(n, k)' <=> Decisive(n, k)) /\ (Unreadable(k)' <=> Unreadable(k))
      BY DEF dmarcVars, Decisive, Unreadable
    <3>2. \A n : Scanned(n)' = Scanned(n)
      BY <3>1 DEF Scanned
    <3>3. \A n, k : BelowSuffix(n, k)' <=> BelowSuffix(n, k)
      BY <3>1, <3>2 DEF BelowSuffix, dmarcVars
    <3>4. \A n, k : Governs(n, k)' <=> Governs(n, k)
      BY <3>1, <3>2, <3>3 DEF Governs, dmarcVars
    <3> QED
      BY <2>2, <3>1, <3>2, <3>4 DEF DMARCInv, DMARCPolicyIsTheTrees, dmarcVars
  <2> QED BY <2>1, <2>2
<1> QED BY <1>2, <1>3, <1>4 DEF DMARCInv

LEMMA NextDMARC == DMARCInv /\ [Next]_vars => DMARCInv'
<1> SUFFICES ASSUME DMARCInv, [Next]_vars PROVE DMARCInv'
  OBVIOUS
<1>1. CASE EmailStep
  <2>1. CASE QueryMX
    BY <2>1, DMARCFrame DEF QueryMX
  <2>2. CASE QuerySPF
    BY <2>2, DMARCFrame DEF QuerySPF
  <2>3. CASE QueryDKIM
    BY <2>3, DMARCFrame, Handover DEF QueryDKIM
  <2>4. CASE DMARCStep /\ UNCHANGED target
    <3>1. PICK reply \in {NXDomain, Failure} \cup {Records(r) : r \in PolicyAnswers} :
            QueryDMARC(reply)
      BY <2>4 DEF DMARCStep
    <3>2. phase = "dmarc" /\ phase' \in {"dmarc", "dkim"}
      BY <3>1 DEF QueryDMARC, EndWalk, TakePolicy, WalkOn
    <3> QED BY <2>4, <3>1, <3>2, WalkStep DEF DMARCInv
  <2> QED BY <1>1, <2>1, <2>2, <2>3, <2>4 DEF EmailStep
<1>2. CASE DelegationStep /\ UNCHANGED dmarcVars
  BY <1>2, DelegationStepPhases, Handover, DMARCFrame DEF DelegationPhases
<1>3. CASE DNSSECStep /\ UNCHANGED dmarcVars
  BY <1>3, DNSSECStepPhases, Handover, DMARCFrame DEF DNSSECPhases
<1>4. CASE NSStep /\ UNCHANGED dmarcVars
  BY <1>4, NSStepPhases, DMARCFrame DEF NSPhases
<1>5. CASE Evaluate
  BY <1>5, DMARCFrame DEF Evaluate
<1>6. CASE UNCHANGED vars
  BY <1>6, DMARCFrame DEF vars
<1> QED BY <1>1, <1>2, <1>3, <1>4, <1>5, <1>6 DEF Next, Gather

\* The walk finds the policy that governs the domain, within its budget and for
\* names of any length, and passes over no node it could not read
\* (fetchDMARCPolicy in dns.go).
THEOREM DMARCPolicyFound == Spec => []DMARCPolicyIsTheTrees
<1>1. DMARCInv => DMARCPolicyIsTheTrees
  BY DEF DMARCInv
<1> QED BY <1>1, InitDMARC, NextDMARC, PTL DEF Spec

-----------------------------------------------------------------------------
(* Email.                                                                  *)

\* A finite set written as a sequence has a member in every place, and as many
\* places as members.
LEMMA Enumerates ==
  ASSUME NEW S, IsFiniteSet(S)
  PROVE  SetToSeq(S) \in Seq(S) /\ (SetToSeq(S) = <<>> <=> S = {})
<1> DEFINE n == Cardinality(S)
<1>1. n \in Nat /\ ExistsBijection(1 .. n, S)
  BY FS_CardinalityType
<1>2. \E f \in [1 .. n -> S] : IsInjective(f)
  BY <1>1 DEF ExistsBijection, Bijection, Injection
<1>3. SetToSeq(S) \in [1 .. n -> S]
  BY <1>2 DEF SetToSeq
<1>4. n = 0 <=> S = {}
  BY FS_EmptySet
<1> HIDE DEF n
<1>5. SetToSeq(S) \in Seq(S) /\ Len(SetToSeq(S)) = n
  BY <1>1, <1>3
<1> QED BY <1>4, <1>5

Codes(conditions) == {conditions[i].code : i \in DOMAIN conditions}

LEMMA CodesOfBoth ==
  ASSUME NEW S, NEW first \in Seq(S), NEW second \in Seq(S)
  PROVE  Codes(first \o second) = Codes(first) \cup Codes(second)
<1> DEFINE n == Len(first)
           m == Len(second)
           both == first \o second
<1>1. n \in Nat /\ m \in Nat /\ DOMAIN first = 1 .. n /\ DOMAIN second = 1 .. m
  OBVIOUS
<1>2. /\ DOMAIN both = 1 .. n + m
      /\ \A i \in 1 .. n : both[i] = first[i]
      /\ \A i \in 1 .. m : both[n + i] = second[i]
  OBVIOUS
<1> HIDE DEF n, m, both
<1>3. \A i \in 1 .. n + m : i \in 1 .. n \/ (i - n \in 1 .. m /\ i = n + (i - n))
  BY <1>1
<1>4. \A i \in 1 .. n : i \in 1 .. n + m
  BY <1>1
<1>5. \A i \in 1 .. m : n + i \in 1 .. n + m
  BY <1>1
<1>6. Codes(both) \subseteq Codes(first) \cup Codes(second)
  <2> SUFFICES ASSUME NEW i \in 1 .. n + m
               PROVE  both[i].code \in Codes(first) \cup Codes(second)
    BY <1>2 DEF Codes
  <2>1. CASE i \in 1 .. n
    BY <2>1, <1>1, <1>2 DEF Codes
  <2>2. CASE i \notin 1 .. n
    <3>1. PICK j \in 1 .. m : i = n + j
      BY <2>2, <1>3
    <3>2. both[i] = second[j]
      BY <3>1, <1>2
    <3> QED BY <3>2, <1>1 DEF Codes
  <2> QED BY <2>1, <2>2
<1>7. Codes(first) \subseteq Codes(both)
  <2> SUFFICES ASSUME NEW i \in 1 .. n PROVE first[i].code \in Codes(both)
    BY <1>1 DEF Codes
  <2> QED BY <1>2, <1>4 DEF Codes
<1>8. Codes(second) \subseteq Codes(both)
  <2> SUFFICES ASSUME NEW i \in 1 .. m PROVE second[i].code \in Codes(both)
    BY <1>1 DEF Codes
  <2>1. n + i \in DOMAIN both /\ both[n + i] = second[i]
    BY <1>2, <1>5
  <2> QED BY <2>1 DEF Codes
<1>9. Codes(both) = Codes(first) \cup Codes(second)
  BY <1>6, <1>7, <1>8
<1> QED BY <1>9 DEF both

\* The codes of the conditions of a domain's mail: those of its exchangers, and the others.
MXCodes == {"email_invalid_null_mx", "email_missing_mx", "email_unauthorized_mx",
            "email_hijacked_mx"}
OtherCodes == {"dns_lookup_failed", "email_missing_spf", "email_multiple_spf",
               "email_missing_dmarc", "email_missing_dkim"}

Conditions(email) ==
  {Condition(code, about) : code \in MXCodes \cup OtherCodes,
                            about \in {"mx", "spf", "dmarc", "dkim"} \cup email.mx \cup mx.records}

LEMMA CodesOfOne ==
  ASSUME NEW S, NEW code, NEW about, Condition(code, about) \in S
  PROVE  /\ <<Condition(code, about)>> \in Seq(S)
         /\ Codes(<<Condition(code, about)>>) = {code}
<1>1. <<Condition(code, about)>>[1].code = code
  BY DEF Condition
<1>2. Codes(<<Condition(code, about)>>) = {code}
  BY <1>1 DEF Codes
<1> QED BY <1>2

LEMMA CodesOfNone == Codes(<<>>) = {}
  BY DEF Codes

MXReplies == {Failure, Reply("nullmx", {})} \cup {Records(r) : r \in MXAnswers \cup {{}}}

LEMMA MismatchIsReported ==
  ASSUME NEW email, IsFiniteSet(email.mx), IsFiniteSet(mx.records), email.mx # mx.records
  PROVE  /\ MismatchedMX(email) \in Seq(Conditions(email)) \ {<<>>}
         /\ Codes(MismatchedMX(email)) \subseteq {"email_missing_mx", "email_unauthorized_mx"}
<1> DEFINE A == {Condition("email_missing_mx", host) : host \in email.mx \ mx.records}
           B == {Condition("email_unauthorized_mx", host) : host \in mx.records \ email.mx}
           first == SetToSeq(A)
           second == SetToSeq(B)
<1>1. IsFiniteSet(A) /\ IsFiniteSet(B)
  <2>1. IsFiniteSet(email.mx \ mx.records) /\ IsFiniteSet(mx.records \ email.mx)
    BY FS_Difference
  <2>2. IsFiniteSet(A)
    <3> DEFINE f == [host \in email.mx \ mx.records |-> Condition("email_missing_mx", host)]
    <3>1. IsFiniteSet({f[host] : host \in email.mx \ mx.records})
      <4> HIDE DEF f
      <4>1. DOMAIN f = email.mx \ mx.records
            /\ f = [host \in email.mx \ mx.records |-> f[host]]
        BY DEF f
      <4> QED BY <2>1, <4>1, ImageIsFinite
    <3>2. {f[host] : host \in email.mx \ mx.records} = A
      OBVIOUS
    <3> QED BY <3>1, <3>2
  <2>3. IsFiniteSet(B)
    <3> DEFINE f == [host \in mx.records \ email.mx |-> Condition("email_unauthorized_mx", host)]
    <3>1. IsFiniteSet({f[host] : host \in mx.records \ email.mx})
      <4> HIDE DEF f
      <4>1. DOMAIN f = mx.records \ email.mx
            /\ f = [host \in mx.records \ email.mx |-> f[host]]
        BY DEF f
      <4> QED BY <2>1, <4>1, ImageIsFinite
    <3>2. {f[host] : host \in mx.records \ email.mx} = B
      OBVIOUS
    <3> QED BY <3>1, <3>2
  <2> QED BY <2>2, <2>3
<1>2. A \cup B # {}
  <2>1. CASE \E host : host \in email.mx \ mx.records
    BY <2>1
  <2>2. CASE \E host : host \in mx.records \ email.mx
    BY <2>2
  <2> QED BY <2>1, <2>2
<1>3. A \subseteq Conditions(email) /\ B \subseteq Conditions(email)
  <2>1. \A host \in email.mx \ mx.records :
          Condition("email_missing_mx", host) \in Conditions(email)
    BY DEF Conditions, MXCodes
  <2>2. \A host \in mx.records \ email.mx :
          Condition("email_unauthorized_mx", host) \in Conditions(email)
    BY DEF Conditions, MXCodes
  <2> QED BY <2>1, <2>2
<1>4. (\A c \in A : c.code = "email_missing_mx")
      /\ (\A c \in B : c.code = "email_unauthorized_mx")
  BY DEF Condition
<1>m. MismatchedMX(email) = first \o second
  BY DEF MismatchedMX
<1> HIDE DEF A, B
<1>5. /\ first \in Seq(A) /\ (first = <<>> <=> A = {})
      /\ second \in Seq(B) /\ (second = <<>> <=> B = {})
  BY <1>1, Enumerates
<1> HIDE DEF first, second
<1>6. /\ \A i \in DOMAIN first : first[i] \in A
      /\ \A i \in DOMAIN second : second[i] \in B
  BY <1>5
<1>7. /\ Codes(first) \subseteq {"email_missing_mx"}
      /\ Codes(second) \subseteq {"email_unauthorized_mx"}
  BY <1>4, <1>6 DEF Codes
<1>8. first \in Seq(Conditions(email)) /\ second \in Seq(Conditions(email))
  BY <1>3, <1>5
<1>9. first \o second \in Seq(Conditions(email)) /\ Len(first \o second) = Len(first) + Len(second)
  BY <1>8
<1>10. Codes(first \o second) = Codes(first) \cup Codes(second)
  BY <1>8, CodesOfBoth
<1>11. Len(first) # 0 \/ Len(second) # 0
  BY <1>2, <1>5, <1>8
<1>12. first \o second # <<>>
  BY <1>8, <1>9, <1>11
<1> QED BY <1>m, <1>7, <1>9, <1>10, <1>12

\* What is said of the exchangers says whether something is wrong with them or
\* could not be looked up; several things are said only of a mismatch.
LEMMA MXConditions ==
  ASSUME NEW email, IsFiniteSet(email.mx), mx \in MXReplies
  PROVE  LET status == evaluateEmailMX(email)[1]
             conditions == evaluateEmailMX(email)[2] IN
         /\ status \in {"ok", "failed", "mismatch", "hijacked"}
         /\ conditions \in Seq(Conditions(email))
         /\ Codes(conditions) \subseteq MXCodes \cup {"dns_lookup_failed"}
         /\ MXFault(email) <=> \E code \in MXCodes : code \in Codes(conditions)
         /\ mx.err = "failed" <=> "dns_lookup_failed" \in Codes(conditions)
         /\ status = "ok" <=> conditions = <<>>
         /\ mx.err = "failed" => status = "failed"
         /\ Len(conditions) > 1 => Codes(conditions) \subseteq MXCodes
<1>0. PICK status, conditions :
        status = evaluateEmailMX(email)[1] /\ conditions = evaluateEmailMX(email)[2]
  OBVIOUS
<1> SUFFICES /\ status \in {"ok", "failed", "mismatch", "hijacked"}
             /\ conditions \in Seq(Conditions(email))
             /\ Codes(conditions) \subseteq MXCodes \cup {"dns_lookup_failed"}
             /\ MXFault(email) <=> \E code \in MXCodes : code \in Codes(conditions)
             /\ mx.err = "failed" <=> "dns_lookup_failed" \in Codes(conditions)
             /\ status = "ok" <=> conditions = <<>>
             /\ mx.err = "failed" => status = "failed"
             /\ Len(conditions) > 1 => Codes(conditions) \subseteq MXCodes
  BY <1>0
<1>1. IsFiniteSet(mx.records)
  <2>1. IsFiniteSet({})
    BY FS_EmptySet
  <2>2. mx.records \in MXAnswers \cup {{}}
    BY DEF MXReplies, Failure, Reply, Records
  <2> QED BY <2>1, <2>2, EmailAssumption
<1>2. mx.err \in {"none", "nullmx", "failed"}
  BY DEF MXReplies, Failure, Reply, Records
<1>s. \A code \in MXCodes \cup {"dns_lookup_failed"} :
        /\ <<Condition(code, "mx")>> \in Seq(Conditions(email))
        /\ Codes(<<Condition(code, "mx")>>) = {code}
  <2> SUFFICES ASSUME NEW code \in MXCodes \cup {"dns_lookup_failed"}
               PROVE  /\ <<Condition(code, "mx")>> \in Seq(Conditions(email))
                      /\ Codes(<<Condition(code, "mx")>>) = {code}
    OBVIOUS
  <2>1. Condition(code, "mx") \in Conditions(email)
    BY DEF Conditions, OtherCodes
  <2> QED BY <2>1, CodesOfOne
<1>e. <<>> \in Seq(Conditions(email)) /\ Codes(<<>>) = {}
  BY CodesOfNone
<1>3. CASE mx.err = "nullmx"
  <2>1. status = "mismatch" /\ conditions = <<Condition("email_invalid_null_mx", "mx")>>
    BY <1>0, <1>3 DEF evaluateEmailMX, Answered
  <2>2. MXFault(email)
    BY <1>3 DEF MXFault
  <2>3. /\ conditions \in Seq(Conditions(email)) /\ Codes(conditions) = {"email_invalid_null_mx"}
        /\ Len(conditions) = 1 /\ conditions # <<>>
    BY <1>s, <2>1 DEF MXCodes
  <2> QED BY <1>3, <2>1, <2>2, <2>3 DEF MXCodes
<1>4. CASE mx.err = "failed"
  <2>1. status = "failed" /\ conditions = <<Condition("dns_lookup_failed", "mx")>>
    BY <1>0, <1>4 DEF evaluateEmailMX, Answered
  <2>2. ~MXFault(email)
    BY <1>4 DEF MXFault, Answered
  <2>3. /\ conditions \in Seq(Conditions(email)) /\ Codes(conditions) = {"dns_lookup_failed"}
        /\ Len(conditions) = 1 /\ conditions # <<>>
    BY <1>s, <2>1 DEF MXCodes
  <2> QED BY <1>4, <2>1, <2>2, <2>3 DEF MXCodes
<1>5. CASE mx.err = "none" /\ mx.records = {}
  <2>1. status = "failed" /\ conditions = <<Condition("email_missing_mx", "mx")>>
    BY <1>0, <1>5 DEF evaluateEmailMX, Answered
  <2>2. MXFault(email)
    BY <1>5 DEF MXFault, Answered
  <2>3. /\ conditions \in Seq(Conditions(email)) /\ Codes(conditions) = {"email_missing_mx"}
        /\ Len(conditions) = 1 /\ conditions # <<>>
    BY <1>s, <2>1 DEF MXCodes
  <2> QED BY <1>5, <2>1, <2>2, <2>3 DEF MXCodes
<1>6. CASE mx.err = "none" /\ mx.records # {} /\ email.mx \notin {{}, mx.records}
  <2>1. status = "mismatch" /\ conditions = MismatchedMX(email)
    BY <1>0, <1>6 DEF evaluateEmailMX, Answered
  <2>2. MXFault(email)
    BY <1>6 DEF MXFault, Answered
  <2>3. /\ conditions \in Seq(Conditions(email)) \ {<<>>}
        /\ Codes(conditions) \subseteq {"email_missing_mx", "email_unauthorized_mx"}
    BY <1>1, <1>6, <2>1, MismatchIsReported
  <2>4. conditions[1].code \in Codes(conditions)
    BY <2>3 DEF Codes
  <2> QED BY <1>6, <2>1, <2>2, <2>3, <2>4 DEF MXCodes
<1>7. CASE mx.err = "none" /\ mx.records # {} /\ email.mx = {}
           /\ email.provider \in DOMAIN Providers
           /\ ~isProviderMXSafeDynamic(mx.records, Providers[email.provider])
  <2>1. status = "hijacked" /\ conditions = <<Condition("email_hijacked_mx", "mx")>>
    BY <1>0, <1>7 DEF evaluateEmailMX, Answered
  <2>2. MXFault(email)
    BY <1>7 DEF MXFault, Answered, isProviderMXSafeDynamic
  <2>3. /\ conditions \in Seq(Conditions(email)) /\ Codes(conditions) = {"email_hijacked_mx"}
        /\ Len(conditions) = 1 /\ conditions # <<>>
    BY <1>s, <2>1 DEF MXCodes
  <2> QED BY <1>7, <2>1, <2>2, <2>3 DEF MXCodes
<1>8. CASE /\ mx.err = "none" /\ mx.records # {}
           /\ \/ email.mx = {} /\ ~ (/\ email.provider \in DOMAIN Providers
                                     /\ ~isProviderMXSafeDynamic(mx.records, Providers[email.provider]))
              \/ email.mx # {} /\ email.mx = mx.records
  <2>1. status = "ok" /\ conditions = <<>>
    BY <1>0, <1>8 DEF evaluateEmailMX, Answered
  <2>2. ~MXFault(email)
    BY <1>8 DEF MXFault, Answered, isProviderMXSafeDynamic
  <2>3. /\ conditions \in Seq(Conditions(email)) /\ Codes(conditions) = {}
        /\ Len(conditions) = 0
    BY <1>e, <2>1
  <2> QED BY <1>8, <2>1, <2>2, <2>3 DEF MXCodes
<1> QED BY <1>2, <1>3, <1>4, <1>5, <1>6, <1>7, <1>8

\* What is said of the other records: at most one condition of each.
SPFReplies == {NXDomain, Failure} \cup {Records(1 .. n) : n \in 0 .. 2}

AtMostOne(email, conditions) ==
  conditions \in Seq(Conditions(email)) /\ Len(conditions) <= 1

LEMMA SPFConditions ==
  ASSUME NEW email, spf \in SPFReplies
  PROVE  /\ AtMostOne(email, evaluateEmailSPF)
         /\ Codes(evaluateEmailSPF) \subseteq
              {"dns_lookup_failed", "email_missing_spf", "email_multiple_spf"}
         /\ "dns_lookup_failed" \in Codes(evaluateEmailSPF)
              <=> spf.err = "failed" \/ spf = NXDomain
         /\ {"email_missing_spf", "email_multiple_spf"} \cap Codes(evaluateEmailSPF) # {}
              <=> Answered(spf) /\ Cardinality(spf.records) # 1
<1>s. \A code \in {"dns_lookup_failed", "email_missing_spf", "email_multiple_spf"} :
        /\ AtMostOne(email, <<Condition(code, "spf")>>)
        /\ Codes(<<Condition(code, "spf")>>) = {code}
  <2> SUFFICES ASSUME NEW code \in {"dns_lookup_failed", "email_missing_spf", "email_multiple_spf"}
               PROVE  /\ AtMostOne(email, <<Condition(code, "spf")>>)
                      /\ Codes(<<Condition(code, "spf")>>) = {code}
    OBVIOUS
  <2>1. Condition(code, "spf") \in Conditions(email)
    BY DEF Conditions, OtherCodes
  <2> QED BY <2>1, CodesOfOne DEF AtMostOne
<1>e. AtMostOne(email, <<>>) /\ Codes(<<>>) = {}
  BY CodesOfNone DEF AtMostOne
<1>1. CASE ~Answered(spf)
  <2>1. spf \in {NXDomain, Failure}
    BY <1>1 DEF SPFReplies, Answered, Records, Reply
  <2>2. spf.err = "failed" \/ spf = NXDomain
    BY <2>1 DEF Failure, Reply
  <2>3. evaluateEmailSPF = <<Condition("dns_lookup_failed", "spf")>>
    BY <1>1 DEF evaluateEmailSPF
  <2> QED BY <1>1, <1>s, <2>2, <2>3
<1>2. CASE Answered(spf)
  <2>1. PICK n \in 0 .. 2 : spf = Records(1 .. n)
    BY <1>2 DEF SPFReplies, Answered, NXDomain, Failure, Reply
  <2>2. spf.records = 1 .. n /\ spf.err = "none" /\ spf # NXDomain
    BY <2>1 DEF Records, Reply, NXDomain
  <2>3. Cardinality(spf.records) = n /\ (spf.records = {} <=> n = 0)
    <3>1. Cardinality(1 .. n) = IF 1 > n THEN 0 ELSE n - 1 + 1
      BY FS_Interval
    <3> QED BY <2>2, <3>1
  <2>4. evaluateEmailSPF =
          IF n = 0 THEN <<Condition("email_missing_spf", "spf")>>
          ELSE IF n > 1 THEN <<Condition("email_multiple_spf", "spf")>> ELSE <<>>
    BY <1>2, <2>3 DEF evaluateEmailSPF
  <2>5. CASE n = 0
    <3>1. evaluateEmailSPF = <<Condition("email_missing_spf", "spf")>>
      BY <2>4, <2>5
    <3>2. Cardinality(spf.records) # 1
      BY <2>3, <2>5
    <3> QED BY <1>2, <1>s, <2>2, <3>1, <3>2
  <2>6. CASE n = 1
    <3>1. evaluateEmailSPF = <<>>
      BY <2>4, <2>6
    <3>2. Cardinality(spf.records) = 1
      BY <2>3, <2>6
    <3> QED BY <1>2, <1>e, <2>2, <3>1, <3>2
  <2>7. CASE n = 2
    <3>1. evaluateEmailSPF = <<Condition("email_multiple_spf", "spf")>>
      BY <2>4, <2>7
    <3>2. Cardinality(spf.records) # 1
      BY <2>3, <2>7
    <3> QED BY <1>2, <1>s, <2>2, <3>1, <3>2
  <2> QED BY <2>1, <2>5, <2>6, <2>7
<1> QED BY <1>1, <1>2

LEMMA DMARCConditions ==
  ASSUME NEW email
  PROVE  /\ AtMostOne(email, evaluateEmailDMARC)
         /\ Codes(evaluateEmailDMARC) \subseteq {"dns_lookup_failed", "email_missing_dmarc"}
         /\ "dns_lookup_failed" \in Codes(evaluateEmailDMARC) <=> policy.err # "none"
         /\ "email_missing_dmarc" \in Codes(evaluateEmailDMARC) <=> policy = NoPolicy
<1>s. \A code \in {"dns_lookup_failed", "email_missing_dmarc"} :
        /\ AtMostOne(email, <<Condition(code, "dmarc")>>)
        /\ Codes(<<Condition(code, "dmarc")>>) = {code}
  <2> SUFFICES ASSUME NEW code \in {"dns_lookup_failed", "email_missing_dmarc"}
               PROVE  /\ AtMostOne(email, <<Condition(code, "dmarc")>>)
                      /\ Codes(<<Condition(code, "dmarc")>>) = {code}
    OBVIOUS
  <2>1. Condition(code, "dmarc") \in Conditions(email)
    BY DEF Conditions, OtherCodes
  <2> QED BY <2>1, CodesOfOne DEF AtMostOne
<1>e. AtMostOne(email, <<>>) /\ Codes(<<>>) = {}
  BY CodesOfNone DEF AtMostOne
<1>1. policy = NoPolicy => policy.err = "none"
  BY DEF NoPolicy
<1>2. evaluateEmailDMARC =
        IF policy.err # "none" THEN <<Condition("dns_lookup_failed", "dmarc")>>
        ELSE IF policy = NoPolicy THEN <<Condition("email_missing_dmarc", "dmarc")>> ELSE <<>>
  BY <1>1 DEF evaluateEmailDMARC
<1> QED BY <1>s, <1>e, <1>1, <1>2

LEMMA DKIMConditions ==
  ASSUME NEW email, dkim \in [Selectors(email) -> {"valid", "missing", "failed"}]
  PROVE  /\ AtMostOne(email, evaluateDKIM(email))
         /\ Codes(evaluateDKIM(email)) \subseteq {"dns_lookup_failed", "email_missing_dkim"}
         /\ "dns_lookup_failed" \in Codes(evaluateDKIM(email))
              <=> \E s \in Selectors(email) : dkim[s] = "failed"
         /\ "email_missing_dkim" \in Codes(evaluateDKIM(email)) <=> DKIMFault(email)
<1>s. \A code \in {"dns_lookup_failed", "email_missing_dkim"} :
        /\ AtMostOne(email, <<Condition(code, "dkim")>>)
        /\ Codes(<<Condition(code, "dkim")>>) = {code}
  <2> SUFFICES ASSUME NEW code \in {"dns_lookup_failed", "email_missing_dkim"}
               PROVE  /\ AtMostOne(email, <<Condition(code, "dkim")>>)
                      /\ Codes(<<Condition(code, "dkim")>>) = {code}
    OBVIOUS
  <2>1. Condition(code, "dkim") \in Conditions(email)
    BY DEF Conditions, OtherCodes
  <2> QED BY <2>1, CodesOfOne DEF AtMostOne
<1>e. AtMostOne(email, <<>>) /\ Codes(<<>>) = {}
  BY CodesOfNone DEF AtMostOne
<1> DEFINE Has(result) == \E s \in Selectors(email) : dkim[s] = result
<1>1. evaluateDKIM(email) =
        IF Selectors(email) = {} \/ (Has("valid") /\ ~Has("failed")) THEN <<>>
        ELSE IF Has("failed") THEN <<Condition("dns_lookup_failed", "dkim")>>
        ELSE <<Condition("email_missing_dkim", "dkim")>>
  BY DEF evaluateDKIM
<1>2. DKIMFault(email) <=> Selectors(email) # {} /\ ~Has("valid") /\ ~Has("failed")
  BY DEF DKIMFault
<1>3. Has("failed") => Selectors(email) # {}
  OBVIOUS
<1> HIDE DEF Has
<1>4. CASE Selectors(email) = {} \/ (Has("valid") /\ ~Has("failed"))
  BY <1>1, <1>2, <1>3, <1>4, <1>e DEF Has
<1>5. CASE Selectors(email) # {} /\ Has("failed")
  BY <1>1, <1>2, <1>5, <1>s DEF Has
<1>6. CASE Selectors(email) # {} /\ ~Has("failed") /\ ~Has("valid")
  BY <1>1, <1>2, <1>6, <1>s DEF Has
<1> QED BY <1>4, <1>5, <1>6

\* The findings are the conditions, cut to their maximum.
LEMMA FindingsOfConditions ==
  ASSUME NEW S, NEW conditions \in Seq(S)
  PROVE  LET findings == findingsFromConditions(conditions) IN
         /\ findings \in Seq(S)
         /\ Len(findings) = (IF Len(conditions) <= MaxFindingsPerCheck
                             THEN Len(conditions) ELSE MaxFindingsPerCheck)
         /\ \A i \in DOMAIN findings : findings[i] = conditions[i]
         /\ Len(conditions) <= MaxFindingsPerCheck => findings = conditions
<1> DEFINE n == IF Len(conditions) <= MaxFindingsPerCheck
                THEN Len(conditions) ELSE MaxFindingsPerCheck
<1>1. n \in Nat /\ n <= Len(conditions) /\ Len(conditions) \in Nat
  BY EmailAssumption
<1>2. Min({Len(conditions), MaxFindingsPerCheck}) = n
  BY EmailAssumption DEF Min
<1>3. findingsFromConditions(conditions) = SubSeq(conditions, 1, n)
  BY <1>2 DEF findingsFromConditions
<1> HIDE DEF n
<1>4. /\ SubSeq(conditions, 1, n) \in Seq(S) /\ Len(SubSeq(conditions, 1, n)) = n
      /\ \A i \in 1 .. n : SubSeq(conditions, 1, n)[i] = conditions[i]
  BY <1>1
<1>5. n = Len(conditions) => SubSeq(conditions, 1, n) = conditions
  BY <1>1, <1>4
<1> QED BY <1>1, <1>3, <1>4, <1>5 DEF n

\* What it takes for the findings to be about failed lookups only.
LEMMA OnlyLookups ==
  ASSUME NEW S, NEW conditions \in Seq(S)
  PROVE  /\ conditions = <<>> <=> Codes(conditions) = {}
         /\ Codes(conditions) = {"dns_lookup_failed"}
              <=> /\ conditions # <<>>
                  /\ \A i \in DOMAIN conditions : conditions[i].code = "dns_lookup_failed"
<1>1. conditions # <<>> <=> 1 \in DOMAIN conditions
  OBVIOUS
<1>2. conditions = <<>> => Codes(conditions) = {}
  BY DEF Codes
<1>3. \A i \in DOMAIN conditions : conditions[i].code \in Codes(conditions)
  BY DEF Codes
<1>4. \A code \in Codes(conditions) : \E i \in DOMAIN conditions : code = conditions[i].code
  BY DEF Codes
<1> QED BY <1>1, <1>2, <1>3, <1>4

PolicyErrors == {"none", "failed", "malformed"}

\* What the code reports as a failed lookup.
EmailTrouble(email) == EmailOutage(email) \/ MalformedPolicy

\* What the verdict says of the domain's mail.
LEMMA EmailVerdict ==
  ASSUME NEW email, IsFiniteSet(email.mx), mx \in MXReplies, spf \in SPFReplies,
         dkim \in [Selectors(email) -> {"valid", "missing", "failed"}],
         policy.err \in PolicyErrors,
         NEW state, state = EvaluateEmailSecurity(email)
  PROVE  /\ state.status \in {"ok", "warning", "failed", "mismatch", "hijacked"}
         /\ state.status = "ok" <=> ~EmailFault(email) /\ ~EmailTrouble(email)
         /\ state.unavailable <=> EmailTrouble(email) /\ ~EmailFault(email)
         /\ Len(state.findings) < MaxFindingsPerCheck =>
              LET found == Codes(state.findings) IN
              /\ MXFault(email) => \E code \in MXCodes : code \in found
              /\ policy = NoPolicy <=> "email_missing_dmarc" \in found
              /\ DKIMFault(email) <=> "email_missing_dkim" \in found
              /\ EmailTrouble(email) \/ spf = NXDomain <=> "dns_lookup_failed" \in found
<1>0. PICK S, status, M, A, B, D :
        /\ S = Conditions(email)
        /\ status = evaluateEmailMX(email)[1] /\ M = evaluateEmailMX(email)[2]
        /\ A = evaluateEmailSPF /\ B = evaluateEmailDMARC /\ D = evaluateDKIM(email)
  OBVIOUS
<1>m. /\ status \in {"ok", "failed", "mismatch", "hijacked"}
      /\ M \in Seq(S)
      /\ Codes(M) \subseteq MXCodes \cup {"dns_lookup_failed"}
      /\ MXFault(email) <=> \E code \in MXCodes : code \in Codes(M)
      /\ mx.err = "failed" <=> "dns_lookup_failed" \in Codes(M)
      /\ status = "ok" <=> M = <<>>
      /\ mx.err = "failed" => status = "failed"
      /\ Len(M) > 1 => Codes(M) \subseteq MXCodes
  BY <1>0, MXConditions
<1>a. /\ A \in Seq(S) /\ Len(A) <= 1
      /\ Codes(A) \subseteq {"dns_lookup_failed", "email_missing_spf", "email_multiple_spf"}
      /\ "dns_lookup_failed" \in Codes(A) <=> spf.err = "failed" \/ spf = NXDomain
      /\ {"email_missing_spf", "email_multiple_spf"} \cap Codes(A) # {}
           <=> Answered(spf) /\ Cardinality(spf.records) # 1
  BY <1>0, SPFConditions DEF AtMostOne
<1>b. /\ B \in Seq(S) /\ Len(B) <= 1
      /\ Codes(B) \subseteq {"dns_lookup_failed", "email_missing_dmarc"}
      /\ "dns_lookup_failed" \in Codes(B) <=> policy.err # "none"
      /\ "email_missing_dmarc" \in Codes(B) <=> policy = NoPolicy
  BY <1>0, DMARCConditions DEF AtMostOne
<1>d. /\ D \in Seq(S) /\ Len(D) <= 1
      /\ Codes(D) \subseteq {"dns_lookup_failed", "email_missing_dkim"}
      /\ "dns_lookup_failed" \in Codes(D) <=> \E s \in Selectors(email) : dkim[s] = "failed"
      /\ "email_missing_dkim" \in Codes(D) <=> DKIMFault(email)
  BY <1>0, DKIMConditions DEF AtMostOne
<1>1. PICK W, C : W = (A \o B) \o D /\ C = M \o W
  OBVIOUS
<1>2. Warnings(email) = W /\ EmailConditions(email) = C
  BY <1>0, <1>1 DEF Warnings, EmailConditions
<1>3. /\ W \in Seq(S) /\ Len(W) <= 3
      /\ Codes(W) = Codes(A) \cup Codes(B) \cup Codes(D)
  <2>1. A \o B \in Seq(S) /\ Len(A \o B) = Len(A) + Len(B)
        /\ Codes(A \o B) = Codes(A) \cup Codes(B)
    BY <1>a, <1>b, CodesOfBoth
  <2>2. W \in Seq(S) /\ Len(W) = Len(A \o B) + Len(D)
    BY <1>1, <1>d, <2>1
  <2>3. Codes(W) = Codes(A \o B) \cup Codes(D)
    <3>1. D \in Seq(S) /\ A \o B \in Seq(S)
      BY <1>d, <2>1
    <3>2. Codes((A \o B) \o D) = Codes(A \o B) \cup Codes(D)
      BY ONLY <3>1, CodesOfBoth
    <3> QED BY <1>1, <3>2
  <2> QED BY <1>a, <1>b, <1>d, <2>1, <2>2, <2>3
<1>4. /\ C \in Seq(S) /\ Len(C) = Len(M) + Len(W)
      /\ Codes(C) = Codes(M) \cup Codes(W)
      /\ M # <<>> => C # <<>> /\ C[1] = M[1]
  <2>1. C \in Seq(S) /\ Len(C) = Len(M) + Len(W)
    BY <1>1, <1>m, <1>3
  <2>2. Codes(C) = Codes(M) \cup Codes(W)
    <3>1. M \in Seq(S) /\ W \in Seq(S)
      BY <1>m, <1>3
    <3>2. Codes(M \o W) = Codes(M) \cup Codes(W)
      BY ONLY <3>1, CodesOfBoth
    <3> QED BY <1>1, <3>2
  <2>3. M # <<>> => C # <<>> /\ C[1] = M[1]
    BY <1>1, <1>m, <1>3
  <2> QED BY <2>1, <2>2, <2>3
<1>5. PICK findings : findings = findingsFromConditions(C)
  OBVIOUS
<1>6. /\ findings \in Seq(S)
      /\ Len(findings) = (IF Len(C) <= MaxFindingsPerCheck THEN Len(C) ELSE MaxFindingsPerCheck)
      /\ \A i \in DOMAIN findings : findings[i] = C[i]
      /\ Len(C) <= MaxFindingsPerCheck => findings = C
  BY <1>4, <1>5, FindingsOfConditions
<1>7. Inconclusive(findings) <=> spf # NXDomain /\ Codes(C) = {"dns_lookup_failed"}
  <2>1. CASE Len(C) <= MaxFindingsPerCheck
    <3>1. findings = C
      BY <1>6, <2>1
    <3> QED BY <1>4, <3>1, OnlyLookups DEF Inconclusive
  <2>2. CASE ~(Len(C) <= MaxFindingsPerCheck)
    <3>1. Len(M) > 1
      BY <1>m, <1>3, <1>4, <2>2, EmailAssumption
    <3>2. 1 \in DOMAIN M /\ M # <<>>
      BY <1>m, <3>1
    <3>3. M[1].code \in Codes(M) /\ M[1].code # "dns_lookup_failed"
      BY <1>m, <3>1, <3>2 DEF Codes, MXCodes
    <3>4. Codes(C) # {"dns_lookup_failed"}
      BY <1>4, <3>3
    <3>5. 1 \in DOMAIN findings
      BY <1>6, <2>2, EmailAssumption
    <3>6. findings[1].code # "dns_lookup_failed"
      BY <1>4, <1>6, <3>2, <3>3, <3>5
    <3> QED BY <3>4, <3>5, <3>6 DEF Inconclusive
  <2> QED BY <2>1, <2>2
<1>8. /\ state.findings = findings
      /\ state.status = EmailStatus(email)
      /\ state.unavailable <=> EmailStatus(email) \in {"failed", "warning"}
                               /\ spf # NXDomain /\ Codes(C) = {"dns_lookup_failed"}
  BY <1>2, <1>5, <1>7 DEF EvaluateEmailSecurity
<1>9. EmailStatus(email) =
        IF policy.err # "none" THEN "failed"
        ELSE IF status = "ok" /\ W # <<>> THEN "warning" ELSE status
  BY <1>0, <1>2 DEF EmailStatus
<1>10. W = <<>> <=> Codes(W) = {}
  BY <1>3, OnlyLookups
<1>11. M = <<>> <=> Codes(M) = {}
  BY <1>m, OnlyLookups
<1>12. Answered(spf) \/ spf.err = "failed" \/ spf = NXDomain
  BY DEF SPFReplies, Records, Reply, Failure, NXDomain, Answered
<1>13. EmailFault(email) <=>
         \/ MXFault(email) \/ spf = NXDomain
         \/ Answered(spf) /\ Cardinality(spf.records) # 1
         \/ policy = NoPolicy \/ DKIMFault(email)
  BY DEF EmailFault
<1>14. EmailTrouble(email) <=>
         \/ mx.err = "failed" \/ spf.err = "failed" \/ policy.err # "none"
         \/ \E s \in Selectors(email) : dkim[s] = "failed"
  BY DEF EmailTrouble, EmailOutage, MalformedPolicy, PolicyErrors
<1>15. policy = NoPolicy => policy.err = "none"
  BY DEF NoPolicy
<1>16. state.status = "ok" <=> Codes(C) = {}
  BY <1>m, <1>b, <1>3, <1>4, <1>8, <1>9, <1>10, <1>11
<1>17. Codes(C) = {} <=> ~EmailFault(email) /\ ~EmailTrouble(email)
  <2>1. Codes(C) = {} <=> Codes(M) = {} /\ Codes(A) = {} /\ Codes(B) = {} /\ Codes(D) = {}
    BY <1>3, <1>4
  <2>2. Codes(M) = {} <=> ~MXFault(email) /\ mx.err # "failed"
    BY <1>m
  <2>3. Codes(A) = {} <=> /\ spf.err # "failed" /\ spf # NXDomain
                          /\ ~(Answered(spf) /\ Cardinality(spf.records) # 1)
    BY <1>a
  <2>4. Codes(B) = {} <=> policy.err = "none" /\ policy # NoPolicy
    BY <1>b
  <2>5. Codes(D) = {} <=> ~DKIMFault(email)
                          /\ ~\E s \in Selectors(email) : dkim[s] = "failed"
    BY <1>d
  <2> QED BY <2>1, <2>2, <2>3, <2>4, <2>5, <1>13, <1>14
<1>18. spf # NXDomain /\ Codes(C) = {"dns_lookup_failed"}
         <=> EmailTrouble(email) /\ ~EmailFault(email)
  <2>1. Codes(C) = {"dns_lookup_failed"} <=>
          /\ "dns_lookup_failed" \in Codes(C)
          /\ Codes(M) \subseteq {"dns_lookup_failed"} /\ Codes(A) \subseteq {"dns_lookup_failed"}
          /\ Codes(B) \subseteq {"dns_lookup_failed"} /\ Codes(D) \subseteq {"dns_lookup_failed"}
    BY <1>3, <1>4
  <2>2. Codes(M) \subseteq {"dns_lookup_failed"} <=> ~MXFault(email)
    BY <1>m DEF MXCodes
  <2>3. Codes(A) \subseteq {"dns_lookup_failed"}
          <=> ~(Answered(spf) /\ Cardinality(spf.records) # 1)
    BY <1>a
  <2>4. Codes(B) \subseteq {"dns_lookup_failed"} <=> policy # NoPolicy
    BY <1>b
  <2>5. Codes(D) \subseteq {"dns_lookup_failed"} <=> ~DKIMFault(email)
    BY <1>d
  <2>6. "dns_lookup_failed" \in Codes(C) <=> EmailTrouble(email) \/ spf = NXDomain
    BY <1>m, <1>a, <1>b, <1>d, <1>3, <1>4, <1>14
  <2> QED BY <2>1, <2>2, <2>3, <2>4, <2>5, <2>6, <1>13
<1>19. EmailTrouble(email) /\ ~EmailFault(email) => EmailStatus(email) \in {"failed", "warning"}
  <2> SUFFICES ASSUME EmailTrouble(email), ~EmailFault(email), policy.err = "none"
               PROVE  EmailStatus(email) \in {"failed", "warning"}
    BY <1>9
  <2>1. ~MXFault(email)
    BY <1>13
  <2>2. CASE mx.err = "failed"
    BY <2>2, <1>m, <1>9
  <2>3. CASE mx.err # "failed"
    <3>1. M = <<>> /\ status = "ok"
      BY <2>1, <2>3, <1>m, <1>11
    <3>2. W # <<>>
      BY <3>1, <1>4, <1>10, <1>11, <1>18
    <3> QED BY <3>1, <3>2, <1>9
  <2> QED BY <2>2, <2>3
<1>20. state.status \in {"ok", "warning", "failed", "mismatch", "hijacked"}
  BY <1>m, <1>8, <1>9
<1>21. Len(findings) < MaxFindingsPerCheck => findings = C
  BY <1>4, <1>6, EmailAssumption
<1>22. /\ MXFault(email) => \E code \in MXCodes : code \in Codes(C)
       /\ policy = NoPolicy <=> "email_missing_dmarc" \in Codes(C)
       /\ DKIMFault(email) <=> "email_missing_dkim" \in Codes(C)
       /\ EmailTrouble(email) \/ spf = NXDomain <=> "dns_lookup_failed" \in Codes(C)
  <2>1. "email_missing_dmarc" \notin Codes(M) \cup Codes(A) \cup Codes(D)
        /\ "email_missing_dkim" \notin Codes(M) \cup Codes(A) \cup Codes(B)
    BY <1>m, <1>a, <1>b, <1>d DEF MXCodes
  <2>2. EmailTrouble(email) \/ spf = NXDomain <=> "dns_lookup_failed" \in Codes(C)
    BY <1>m, <1>a, <1>b, <1>d, <1>3, <1>4, <1>14
  <2> QED BY <2>1, <2>2, <1>m, <1>b, <1>d, <1>3, <1>4
<1> QED BY <1>8, <1>16, <1>17, <1>18, <1>19, <1>20, <1>21, <1>22

\* What has been asked about the domain's mail, phase by phase.
EmailAsked ==
  /\ phase # "mx" => mx \in MXReplies
  /\ phase \notin {"mx", "spf"} => spf \in SPFReplies
  /\ phase \notin EmailPhases => dkim \in [Selectors(target.email) ->
                                             {"valid", "missing", "failed"}]

EmailInv ==
  /\ target \in Domains
  /\ policy.err \in PolicyErrors
  /\ target.email # NoEmail => EmailAsked
  /\ phase # "done" => emailState = NoState
  /\ phase = "done" =>
       emailState = IF target.email = NoEmail THEN NoState
                    ELSE EvaluateEmailSecurity(target.email)

LEMMA InitEmail == Init => EmailInv
  BY Handover DEF Init, EmailInit, DMARCInit, NoPolicy, PolicyErrors, EmailInv, EmailAsked,
                  FirstPhase, EmailPhases

LEMMA EmailFrame ==
  ASSUME EmailInv, UNCHANGED <<target, policy, emailVars>>,
         phase \notin EmailPhases \/ phase' = phase, phase' \notin EmailPhases \/ phase' = phase,
         phase' = "done" <=> phase = "done"
  PROVE  EmailInv'
<1>1. EmailAsked => EmailAsked'
  BY DEF EmailAsked, EmailPhases, emailVars
<1>2. emailState' = emailState /\ target' = target
  BY DEF emailVars
<1>3. EvaluateEmailSecurity(target.email)' = EvaluateEmailSecurity(target.email)
  BY DEF emailVars, EvaluateEmailSecurity, EmailStatus, EmailCondition, EmailConditions,
         Warnings, evaluateEmailMX, evaluateEmailSPF, evaluateEmailDMARC, evaluateDKIM,
         MismatchedMX, Inconclusive, Selectors, Answered
<1> QED BY <1>1, <1>2, <1>3 DEF EmailInv

LEMMA NextEmail == EmailInv /\ [Next]_vars => EmailInv'
<1> SUFFICES ASSUME EmailInv, [Next]_vars PROVE EmailInv'
  OBVIOUS
<1>1. CASE EmailStep
  <2>1. phase # "done" /\ phase' # "done" /\ UNCHANGED target
    BY <1>1, EmailStepPhases, Handover DEF EmailPhases
  <2>2. emailState' = emailState
    BY <1>1 DEF EmailStep, QueryMX, QuerySPF, QueryDKIM, emailVars
  <2>3. EmailAsked => EmailAsked'
    <3>1. CASE QueryMX
      <4>1. mx' \in MXReplies /\ phase' = "spf"
        BY <3>1 DEF QueryMX, MXReplies
      <4> QED BY <4>1 DEF EmailAsked, EmailPhases
    <3>2. CASE QuerySPF
      <4>1. spf' \in SPFReplies /\ phase = "spf" /\ phase' = "dmarc" /\ UNCHANGED <<target, mx>>
        BY <3>2 DEF QuerySPF, SPFReplies
      <4> QED BY <4>1 DEF EmailAsked, EmailPhases
    <3>3. CASE QueryDKIM
      <4>1. /\ phase = "dkim" /\ phase' \notin EmailPhases
            /\ UNCHANGED <<target, mx, spf>>
            /\ dkim' \in [Selectors(target.email) -> {"valid", "missing", "failed"}]
        BY <3>3, Handover DEF QueryDKIM, EmailPhases
      <4> QED BY <4>1 DEF EmailAsked, EmailPhases
    <3>4. CASE DMARCStep /\ UNCHANGED <<target, emailVars>>
      <4>1. phase = "dmarc" /\ phase' \in {"dmarc", "dkim"}
        BY <3>4 DEF DMARCStep, QueryDMARC, EndWalk, WalkOn, TakePolicy
      <4> QED BY <3>4, <4>1 DEF EmailAsked, EmailPhases, emailVars
    <3> QED BY <1>1, <3>1, <3>2, <3>3, <3>4 DEF EmailStep
  <2>4. policy'.err \in PolicyErrors
    <3>1. CASE UNCHANGED dmarcVars
      BY <3>1 DEF dmarcVars, EmailInv
    <3>2. CASE DMARCStep
      BY <3>2 DEF EmailInv, PolicyErrors, DMARCStep, QueryDMARC, EndWalk, WalkOn, TakePolicy
    <3> QED BY <1>1, <3>1, <3>2 DEF EmailStep, QueryMX, QuerySPF, QueryDKIM
  <2> QED BY <2>1, <2>2, <2>3, <2>4 DEF EmailInv
<1>2. CASE DelegationStep /\ UNCHANGED <<dmarcVars, emailVars>>
  BY <1>2, DelegationStepPhases, Handover, EmailFrame
  DEF DelegationPhases, EmailPhases, dmarcVars
<1>3. CASE DNSSECStep /\ UNCHANGED <<dmarcVars, emailVars>>
  BY <1>3, DNSSECStepPhases, Handover, EmailFrame DEF DNSSECPhases, EmailPhases, dmarcVars
<1>4. CASE NSStep /\ UNCHANGED <<dmarcVars, emailVars>>
  BY <1>4, NSStepPhases, EmailFrame DEF NSPhases, EmailPhases, dmarcVars
<1>5. CASE Evaluate
  <2>1. /\ phase = "evaluate" /\ phase' = "done" /\ emailState = NoState
        /\ UNCHANGED <<target, dmarcVars, mx, spf, dkim>>
        /\ emailState' = IF target.email = NoEmail THEN emailState
                         ELSE EvaluateEmailSecurity(target.email)
    BY <1>5 DEF Evaluate, EmailInv
  <2>2. EvaluateEmailSecurity(target.email)' = EvaluateEmailSecurity(target.email)
    <3>1. UNCHANGED <<target, policy, mx, spf, dkim>>
      BY <2>1 DEF dmarcVars
    <3> QED
      BY <3>1
      DEF EvaluateEmailSecurity, EmailStatus, EmailCondition, EmailConditions, Warnings,
          evaluateEmailMX, evaluateEmailSPF, evaluateEmailDMARC, evaluateDKIM,
          MismatchedMX, Inconclusive, Selectors, Answered
  <2>3. EmailAsked => EmailAsked'
    BY <2>1 DEF EmailAsked, EmailPhases
  <2>4. policy' = policy
    BY <2>1 DEF dmarcVars
  <2> QED BY <2>1, <2>2, <2>3, <2>4 DEF EmailInv
<1>6. CASE UNCHANGED vars
  BY <1>6, EmailFrame DEF vars, dmarcVars, emailVars
<1> QED BY <1>1, <1>2, <1>3, <1>4, <1>5, <1>6 DEF Next, Gather

\* The mail of a domain that has been checked.
LEMMA EmailChecked ==
  ASSUME EmailInv, phase = "done", target.email # NoEmail
  PROVE  LET email == target.email IN
         /\ emailState.status \in {"ok", "warning", "failed", "mismatch", "hijacked"}
         /\ emailState.status = "ok" <=> ~EmailFault(email) /\ ~EmailTrouble(email)
         /\ emailState.unavailable <=> EmailTrouble(email) /\ ~EmailFault(email)
         /\ EmailHidesNothing
<1>1. IsFiniteSet(target.email.mx)
  BY EmailAssumption DEF EmailInv, Domains
<1>2. /\ mx \in MXReplies /\ spf \in SPFReplies
      /\ dkim \in [Selectors(target.email) -> {"valid", "missing", "failed"}]
  BY DEF EmailInv, EmailAsked, EmailPhases
<1>p. policy.err \in PolicyErrors
  BY DEF EmailInv
<1>3. emailState = EvaluateEmailSecurity(target.email)
  BY DEF EmailInv
<1>4. \A code : Found(code) <=> code \in Codes(emailState.findings)
  BY DEF Found, Codes
<1> QED
  BY <1>1, <1>2, <1>p, <1>3, <1>4, EmailVerdict DEF EmailHidesNothing, EmailTrouble, MXCodes

\* The email check reports success exactly when every lookup succeeded and
\* nothing is wrong, counts as unavailable exactly when some lookup failed, or
\* the policy is malformed, and nothing else is known to be wrong, and reports each fault that one lookup found
\* whatever others failed, unless the findings were cut to their maximum
\* (EvaluateEmailSecurity and evaluateFastDomainChecksWithEmail in runtime.go).
THEOREM EmailFindingsAreKept == Spec => []EmailHidesNothing
<1>1. EmailInv => EmailHidesNothing
  BY EmailChecked DEF EmailInv, EmailHidesNothing
<1> QED BY <1>1, InitEmail, NextEmail, PTL DEF Spec

-----------------------------------------------------------------------------
(* Failover.                                                               *)

LEMMA Wraps ==
  ASSUME NEW n \in Nat \ {0}, NEW k \in Nat, k < 2 * n
  PROVE  k % n = IF k < n THEN k ELSE k - n
  OBVIOUS

\* Turns of a query within the number of its servers are different servers.
LEMMA TurnsDiffer ==
  ASSUME NEW n \in Nat \ {0}, NEW first \in 0 .. n - 1,
         NEW i \in 0 .. n - 1, NEW j \in 0 .. n - 1, i # j
  PROVE  (first + i) % n # (first + j) % n
<1>1. \A k \in Nat : k < 2 * n => k % n = IF k < n THEN k ELSE k - n
  BY Wraps
<1>2. /\ first + i \in Nat /\ first + i < 2 * n
      /\ first + j \in Nat /\ first + j < 2 * n
  OBVIOUS
<1>3. /\ (first + i) % n = IF first + i < n THEN first + i ELSE first + i - n
      /\ (first + j) % n = IF first + j < n THEN first + j ELSE first + j - n
  BY <1>1, <1>2
<1> QED BY <1>3

\* A query in progress has asked a different server in each attempt.
Asking ==
  /\ query \in [servers : Nat \ {0}, first : Nat, attempt : Nat, asked : SUBSET Nat,
                exhausted : {FALSE}]
  /\ query.first \in 0 .. query.servers - 1
  /\ query.attempt \in 1 .. Limit
  /\ IsFiniteSet(query.asked)
  /\ Cardinality(query.asked) = query.attempt - 1
  /\ \A s \in query.asked :
       \E j \in 0 .. query.attempt - 2 : s = (query.first + j) % query.servers

QueryInv ==
  /\ FailoverAsksOthers
  /\ phase \in {"delegation", "ds", "dnskey"} => Asking

LEMMA LimitBounds ==
  ASSUME query.servers \in Nat \ {0}
  PROVE  Limit \in Nat \ {0} /\ Limit <= query.servers
  BY WorkerAssumption DEF Limit

LEMMA QueryStarts ==
  ASSUME NEW n \in Nat \ {0}, StartQuery(n)
  PROVE  Asking' /\ FailoverAsksOthers'
<1>1. PICK first \in 0 .. n - 1 :
        query' = [servers |-> n, first |-> first, attempt |-> 1, asked |-> {},
                  exhausted |-> FALSE]
  BY DEF StartQuery
<1>2. Limit' \in Nat \ {0}
  BY <1>1, WorkerAssumption DEF Limit
<1>3. Cardinality({}) = 0 /\ IsFiniteSet({})
  BY FS_EmptySet
<1> QED BY <1>1, <1>2, <1>3 DEF Asking, FailoverAsksOthers

\* The server asked next is one that was not asked before.
LEMMA AnotherServer ==
  ASSUME Asking
  PROVE  /\ Chosen \in Nat /\ Chosen \notin query.asked
         /\ IsFiniteSet(query.asked \cup {Chosen})
         /\ Cardinality(query.asked \cup {Chosen}) = query.attempt
<1>1. PICK n, f, a : n = query.servers /\ f = query.first /\ a = query.attempt
  OBVIOUS
<1>2. /\ n \in Nat \ {0} /\ f \in 0 .. n - 1 /\ a \in 1 .. n
      /\ Chosen = (f + (a - 1)) % n
  BY <1>1, LimitBounds DEF Asking, Chosen
<1>3. Chosen \in Nat
  <2>1. f + (a - 1) \in Nat
    BY <1>2
  <2> QED BY <1>2, <2>1
<1>4. Chosen \notin query.asked
  <2> SUFFICES ASSUME NEW j \in 0 .. a - 2 PROVE Chosen # (f + j) % n
    BY <1>1 DEF Asking
  <2>1. a - 1 \in 0 .. n - 1 /\ j \in 0 .. n - 1 /\ a - 1 # j
    BY <1>2
  <2> QED BY <1>2, <2>1, TurnsDiffer
<1> QED BY <1>1, <1>2, <1>3, <1>4, FS_AddElement DEF Asking

LEMMA QueryGoesOn ==
  ASSUME Asking, NextServer
  PROVE  Asking' /\ FailoverAsksOthers'
<1>1. PICK n, f, a, s, asked :
        /\ n = query.servers /\ f = query.first /\ a = query.attempt /\ s = Chosen
        /\ asked = query.asked
  OBVIOUS
<1>2. /\ n \in Nat \ {0} /\ f \in 0 .. n - 1 /\ a \in Nat \ {0}
      /\ Limit \in Nat /\ a + 1 <= Limit
  BY <1>1, LimitBounds DEF Asking, NextServer
<1>q. query' = [servers |-> n, first |-> f, attempt |-> a + 1,
                asked |-> asked \cup {s}, exhausted |-> FALSE]
  BY <1>1 DEF Asking, NextServer
<1>l. Limit' = Limit
  BY <1>1, <1>q DEF Limit
<1>3. /\ s \in Nat /\ asked \in SUBSET Nat
      /\ IsFiniteSet(asked \cup {s}) /\ Cardinality(asked \cup {s}) = a
  BY <1>1, AnotherServer DEF Asking
<1>4. \A r \in asked \cup {s} : \E j \in 0 .. (a + 1) - 2 : r = (f + j) % n
  <2>1. \A r \in asked : \E j \in 0 .. a - 2 : r = (f + j) % n
    BY <1>1 DEF Asking
  <2>2. s = (f + (a - 1)) % n /\ a - 1 \in 0 .. (a + 1) - 2
    BY <1>1, <1>2 DEF Chosen, Asking
  <2>3. \A j \in 0 .. a - 2 : j \in 0 .. (a + 1) - 2
    BY <1>2
  <2> QED BY <2>1, <2>2, <2>3
<1>5. asked \cup {s} \in SUBSET Nat /\ a + 1 \in 1 .. Limit /\ a = (a + 1) - 1
  BY <1>2, <1>3
<1>6. query' \in [servers : Nat \ {0}, first : Nat, attempt : Nat, asked : SUBSET Nat,
                   exhausted : {FALSE}]
  BY <1>q, <1>2, <1>5
<1>7. /\ query'.servers = n /\ query'.first = f /\ query'.attempt = a + 1
      /\ query'.asked = asked \cup {s} /\ query'.exhausted = FALSE
  BY <1>q
<1>8. \A r \in query'.asked :
        \E j \in 0 .. query'.attempt - 2 : r = (query'.first + j) % query'.servers
  BY <1>7, <1>4
<1>9. Cardinality(query'.asked) = query'.attempt - 1
  BY <1>7, <1>3, <1>5
<1> QED BY <1>l, <1>2, <1>3, <1>5, <1>6, <1>7, <1>8, <1>9 DEF Asking, FailoverAsksOthers

LEMMA QueryEnds ==
  ASSUME Asking, GiveUp \/ EndQuery
  PROVE  FailoverAsksOthers'
<1>1. CASE query' = NoQuery
  BY <1>1 DEF NoQuery, FailoverAsksOthers
<1>2. CASE /\ query.attempt = Limit
           /\ query' = [query EXCEPT !.asked = @ \cup {Chosen}, !.exhausted = TRUE]
  <2>1. query'.asked = query.asked \cup {Chosen} /\ Limit' = Limit
    BY <1>2 DEF Asking, Limit
  <2> QED BY <1>2, <2>1, AnotherServer DEF FailoverAsksOthers
<1> QED BY <1>1, <1>2 DEF GiveUp, EndQuery

LEMMA InitQuery == Init => QueryInv
  BY Handover DEF Init, NoQuery, FailoverAsksOthers, QueryInv

LEMMA QueryFrame ==
  ASSUME QueryInv, UNCHANGED query,
         phase' \in {"delegation", "ds", "dnskey"} => phase' = phase
  PROVE  QueryInv'
  BY DEF QueryInv, FailoverAsksOthers, Asking, Limit

LEMMA NextQuery == QueryInv /\ [Next]_vars => QueryInv'
<1> SUFFICES ASSUME QueryInv, [Next]_vars PROVE QueryInv'
  OBVIOUS
<1>1. CASE EmailStep /\ UNCHANGED query
  BY <1>1, EmailStepPhases, Handover, QueryFrame DEF EmailPhases
<1>2. CASE DelegationStep
  <2>1. CASE ResolveParents
    <3>1. CASE UNCHANGED query /\ phase' = AfterDelegation(target)
      BY <3>1, Handover, QueryFrame
    <3>2. CASE \E n \in 1 .. MaxParents : StartQuery(n)
      BY <3>2, QueryStarts, DelegationAssumption DEF QueryInv
    <3> QED BY <2>1, <3>1, <3>2 DEF ResolveParents
  <2>2. CASE QueryDelegation
    <3>1. Asking
      BY <2>2 DEF QueryDelegation, QueryInv
    <3>2. CASE NextServer
      BY <3>1, <3>2, QueryGoesOn DEF QueryInv
    <3>3. CASE phase' = AfterDelegation(target) /\ (GiveUp \/ EndQuery)
      BY <3>1, <3>3, QueryEnds, Handover DEF QueryInv
    <3> QED BY <2>2, <3>2, <3>3 DEF QueryDelegation
  <2> QED BY <1>2, <2>1, <2>2 DEF DelegationStep
<1>3. CASE DNSSECStep
  <2>1. CASE ChooseResolver
    BY <2>1, QueryStarts, DNSSECAssumption DEF ChooseResolver, QueryInv
  <2>2. CASE QueryDS
    <3>1. Asking /\ query.servers \in Nat \ {0}
      BY <2>2 DEF QueryDS, QueryInv, Asking
    <3>2. CASE NextServer
      BY <3>1, <3>2, QueryGoesOn DEF QueryInv
    <3>3. CASE phase' = AfterDNSSEC(target) /\ (GiveUp \/ EndQuery)
      BY <3>1, <3>3, QueryEnds, Handover DEF QueryInv
    <3>4. CASE StartQuery(query.servers)
      BY <3>1, <3>4, QueryStarts DEF QueryInv
    <3> QED BY <2>2, <3>2, <3>3, <3>4 DEF QueryDS
  <2>3. CASE QueryDNSKEY
    <3>1. Asking
      BY <2>3 DEF QueryDNSKEY, QueryInv
    <3>2. CASE NextServer
      BY <3>1, <3>2, QueryGoesOn DEF QueryInv
    <3>3. CASE phase' \in {"doh", AfterDNSSEC(target)} /\ (GiveUp \/ EndQuery)
      BY <3>1, <3>3, QueryEnds, Handover DEF QueryInv
    <3> QED BY <2>3, <3>2, <3>3 DEF QueryDNSKEY
  <2>4. CASE QueryDoH
    BY <2>4, Handover, QueryFrame DEF QueryDoH
  <2> QED BY <1>3, <2>1, <2>2, <2>3, <2>4 DEF DNSSECStep
<1>4. CASE NSStep /\ UNCHANGED query
  BY <1>4, NSStepPhases, QueryFrame DEF NSPhases
<1>5. CASE Evaluate
  BY <1>5, QueryFrame DEF Evaluate
<1>6. CASE UNCHANGED vars
  BY <1>6, QueryFrame DEF vars
<1> QED BY <1>1, <1>2, <1>3, <1>4, <1>5, <1>6 DEF Next, Gather

\* A query that ends for want of an answer has asked as many different servers
\* as it may, for any number of servers and attempts and wherever the shared
\* index made it begin (queryDNSMsgWithRD in dns.go).
THEOREM FailoverIsFair == Spec => []FailoverAsksOthers
<1>1. QueryInv => FailoverAsksOthers
  BY DEF QueryInv
<1> QED BY <1>1, InitQuery, NextQuery, PTL DEF Spec

-----------------------------------------------------------------------------
(* Delegation.                                                             *)

LEMMA PromotedOk ==
  ASSUME NEW findings,
         \A i \in DOMAIN findings : findings[i].status \in {"failed", "warning"}
  PROVE  PromotedStatus(findings) = "ok" <=> \A i \in DOMAIN findings : ~findings[i].when
  BY DEF PromotedStatus, Raised

Failings == [when : BOOLEAN, status : {"failed"},
             code : {"ns_hidden_exposed", "unauthorized_ns", "expected_ns_missing"}]

\* Servers as the configuration leaves them.
Normalized(servers) ==
  /\ servers \in Seq([hostname : Hostnames, hidden : BOOLEAN])
  /\ normalizeDomainNameservers(servers)

\* The comparison raises nothing exactly when the observed servers are the ones
\* that are configured to answer.
LEMMA ComparisonIsExact ==
  ASSUME NEW servers, Normalized(servers), servers # <<>>, NEW observed \in Seq(Hostnames)
  PROVE  PromotedStatus(evaluateNameserverDelegation(servers, observed)) = "ok"
           <=> {observed[i] : i \in DOMAIN observed} = Answering(servers)
<1> DEFINE n == Len(observed)
           m == Len(servers)
           O == ObservedFindings(servers, observed)
           M == MissingFindings(servers, observed)
<1>1. n \in Nat /\ m \in Nat /\ DOMAIN observed = 1 .. n /\ DOMAIN servers = 1 .. m
  BY DEF Normalized
<1>2. O \in [1 .. n -> Failings] /\ M \in [1 .. m -> Failings]
  BY <1>1 DEF ObservedFindings, MissingFindings, Finding, Failings, Normalized
<1>3. O \in Seq(Failings) /\ Len(O) = n /\ M \in Seq(Failings) /\ Len(M) = m
  BY <1>1, <1>2
<1>4. evaluateNameserverDelegation(servers, observed) = O \o M
  BY DEF evaluateNameserverDelegation
<1> HIDE DEF O, M
<1>5. /\ DOMAIN (O \o M) = 1 .. n + m
      /\ \A i \in 1 .. n : (O \o M)[i] = O[i]
      /\ \A i \in 1 .. m : (O \o M)[n + i] = M[i]
      /\ \A i \in 1 .. n + m : (O \o M)[i] \in Failings
  BY <1>1, <1>3
<1>6. (\A i \in 1 .. n + m : ~(O \o M)[i].when)
        <=> (\A i \in 1 .. n : ~O[i].when) /\ (\A i \in 1 .. m : ~M[i].when)
  <2>1. ASSUME \A i \in 1 .. n + m : ~(O \o M)[i].when
        PROVE  (\A i \in 1 .. n : ~O[i].when) /\ (\A i \in 1 .. m : ~M[i].when)
    <3>1. \A i \in 1 .. n : i \in 1 .. n + m
      BY <1>1
    <3>2. \A i \in 1 .. m : n + i \in 1 .. n + m
      BY <1>1
    <3> QED BY <2>1, <3>1, <3>2, <1>5
  <2>2. ASSUME (\A i \in 1 .. n : ~O[i].when), (\A i \in 1 .. m : ~M[i].when),
               NEW i \in 1 .. n + m
        PROVE  ~(O \o M)[i].when
    <3>1. CASE i \in 1 .. n
      BY <2>2, <3>1, <1>5
    <3>2. CASE i \notin 1 .. n
      <4>1. PICK j \in 1 .. m : i = n + j
        <5>1. i - n \in 1 .. m /\ i = n + (i - n)
          BY <3>2, <1>1
        <5> QED BY <5>1
      <4> QED BY <2>2, <4>1, <1>5
    <3> QED BY <3>1, <3>2
  <2> QED BY <2>1, <2>2
<1>7. \A i \in 1 .. n : O[i].when <=> observed[i] \notin Answering(servers)
  <2>1. Answering(servers) \ Hidden(servers) = Answering(servers)
    BY DEF Answering, Hidden, Normalized, normalizeDomainNameservers
  <2> QED BY <2>1, <1>1 DEF O, ObservedFindings, Finding
<1>8. \A i \in 1 .. m : M[i].when <=>
        ~servers[i].hidden /\ servers[i].hostname \notin {observed[j] : j \in DOMAIN observed}
  BY <1>1 DEF M, MissingFindings, Finding
<1>9. (\A i \in 1 .. n : ~O[i].when) <=>
        {observed[j] : j \in DOMAIN observed} \subseteq Answering(servers)
  BY <1>1, <1>7
<1>10. (\A i \in 1 .. m : ~M[i].when) <=>
        Answering(servers) \subseteq {observed[j] : j \in DOMAIN observed}
  BY <1>1, <1>8 DEF Answering
<1>11. PromotedStatus(O \o M) = "ok" <=> \A i \in 1 .. n + m : ~(O \o M)[i].when
  BY <1>5, PromotedOk DEF Failings
<1> QED BY <1>4, <1>6, <1>9, <1>10, <1>11

DelegationReplies == [err : {"unasked", "failed", "nxdomain", "none"}, records : Seq(Hostnames)]

LEMMA DelegationVerdict ==
  ASSUME NEW servers, Normalized(servers), delegation \in DelegationReplies,
         delegation.err # "unasked"
  PROVE  /\ EvaluateNSDelegation(servers).status = "ok"
              <=> ~DelegationOutage /\ ~DelegationFault(servers)
         /\ EvaluateNSDelegation(servers).unavailable <=> DelegationOutage
<1> DEFINE observed == delegation.records
           S == {observed[i] : i \in DOMAIN observed}
<1>1. delegation.err \in {"failed", "nxdomain", "none"} /\ observed \in Seq(Hostnames)
  BY DEF DelegationReplies
<1>2. S = {} <=> observed = <<>>
  <2>1. CASE observed = <<>>
    BY <2>1
  <2>2. CASE observed # <<>>
    <3>1. observed[1] \in S
      BY <1>1, <2>2
    <3> QED BY <2>2, <3>1
  <2> QED BY <2>1, <2>2
<1>3. CASE ~Answered(delegation) \/ observed = <<>>
  BY <1>1, <1>2, <1>3
  DEF EvaluateNSDelegation, DelegationOutage, DelegationFault, Answered
<1>4. CASE Answered(delegation) /\ observed # <<>> /\ servers = <<>>
  <2>1. PromotedStatus(evaluateNameserverDelegation(servers, observed)) = "ok"
    BY <1>4 DEF evaluateNameserverDelegation, PromotedStatus, Raised
  <2> QED
    BY <1>1, <1>2, <1>4, <2>1
    DEF EvaluateNSDelegation, DelegationOutage, DelegationFault, Answered
<1>5. CASE Answered(delegation) /\ observed # <<>> /\ servers # <<>>
  <2>1. PromotedStatus(evaluateNameserverDelegation(servers, observed)) = "ok"
          <=> S = Answering(servers)
    BY <1>1, <1>5, ComparisonIsExact
  <2> QED
    BY <1>1, <1>2, <1>5, <2>1
    DEF EvaluateNSDelegation, DelegationOutage, DelegationFault, Answered
<1> QED BY <1>3, <1>4, <1>5

\* What the checks after the delegation's know of it.
DelegationInv ==
  /\ target \in Domains
  /\ delegation \in DelegationReplies
  /\ phase \in DNSSECPhases \cup NSPhases \cup {"evaluate"} /\ isDelegatedZone(target)
       => delegation.err # "unasked"
  /\ phase # "done" => delegationState = NoVerdict
  /\ DelegationIsExact

LEMMA TargetNormalized ==
  ASSUME target \in Domains
  PROVE  Normalized(target.nameservers)
  BY WorkerAssumption DEF Domains, Normalized

LEMMA InitDelegation == Init => DelegationInv
  BY DEF Init, DelegationInit, Without, Reply, NoVerdict, DelegationInv, DelegationReplies,
         DelegationIsExact, FirstPhase, AfterEmail, DNSSECPhases, NSPhases

LEMMA DelegationFrame ==
  ASSUME DelegationInv, UNCHANGED <<target, delegation, delegationState>>,
         phase' \in DNSSECPhases \cup NSPhases \cup {"evaluate"} /\ isDelegatedZone(target)
           => phase \in DNSSECPhases \cup NSPhases \cup {"evaluate"},
         phase' # "done" => phase # "done"
  PROVE  DelegationInv'
  BY DEF DelegationInv, DelegationIsExact, DelegationOutage, DelegationFault, Answered

LEMMA NextDelegation == DelegationInv /\ [Next]_vars => DelegationInv'
<1> SUFFICES ASSUME DelegationInv, [Next]_vars PROVE DelegationInv'
  OBVIOUS
<1>1. CASE EmailStep /\ UNCHANGED <<delegation, delegationState>>
  BY <1>1, EmailStepPhases, DelegationFrame
  DEF EmailPhases, AfterEmail, DNSSECPhases, NSPhases
<1>2. CASE DelegationStep
  <2>1. UNCHANGED <<target, delegationState>>
    BY <1>2 DEF DelegationStep, ResolveParents, QueryDelegation
  <2>2. /\ delegation' \in DelegationReplies
        /\ phase' \notin DelegationPhases => delegation'.err # "unasked"
    <3>1. CASE UNCHANGED delegation /\ phase' \in DelegationPhases
      BY <3>1 DEF DelegationInv
    <3>2. CASE delegation' \in {Without("failed"), Without("nxdomain")} \cup
                               {Records(list) : list \in Referrals}
      <4>1. /\ Without("failed") \in DelegationReplies
            /\ Without("nxdomain") \in DelegationReplies
        BY DEF Without, Reply, DelegationReplies
      <4>2. \A list \in Referrals : Records(list) \in DelegationReplies
        BY DelegationAssumption DEF Records, Reply, DelegationReplies
      <4>3. delegation'.err # "unasked"
        BY <3>2 DEF Without, Records, Reply
      <4> QED BY <3>2, <4>1, <4>2, <4>3
    <3> QED
      BY <1>2, <3>1, <3>2
      DEF DelegationStep, ResolveParents, QueryDelegation, DelegationPhases
  <2>3. phase # "done" /\ phase' # "done"
    BY <1>2, DelegationStepPhases, Handover DEF DelegationPhases
  <2>4. delegationState = NoVerdict
    BY <2>3 DEF DelegationInv
  <2> QED
    BY <2>1, <2>2, <2>4
   
    DEF DelegationInv, DelegationIsExact, DelegationPhases, DNSSECPhases, NSPhases,
        NoVerdict
<1>3. CASE DNSSECStep /\ UNCHANGED <<delegation, delegationState>>
  BY <1>3, DNSSECStepPhases, DelegationFrame DEF DNSSECPhases
<1>4. CASE NSStep /\ UNCHANGED <<delegation, delegationState>>
  BY <1>4, NSStepPhases, DelegationFrame DEF NSPhases
<1>5. CASE Evaluate
  <2>1. UNCHANGED <<target, delegation>> /\ phase = "evaluate" /\ phase' = "done"
    BY <1>5 DEF Evaluate
  <2>2. CASE ~isDelegatedZone(target)
    <3>1. UNCHANGED delegationState
      BY <1>5, <2>2 DEF Evaluate
    <3> QED BY <2>1, <3>1, DelegationFrame DEF DNSSECPhases, NSPhases
  <2>3. CASE isDelegatedZone(target)
    <3>1. delegationState' = EvaluateNSDelegation(target.nameservers)
      BY <1>5, <2>3 DEF Evaluate
    <3>2. /\ EvaluateNSDelegation(target.nameservers).status = "ok"
               <=> ~DelegationOutage /\ ~DelegationFault(target.nameservers)
          /\ EvaluateNSDelegation(target.nameservers).unavailable <=> DelegationOutage
      BY <2>1, <2>3, TargetNormalized, DelegationVerdict DEF DelegationInv
    <3> QED
      BY <2>1, <3>1, <3>2
      DEF DelegationInv, DelegationIsExact, DelegationOutage, DelegationFault, Answered,
          DNSSECPhases, NSPhases
  <2> QED BY <2>2, <2>3
<1>6. CASE UNCHANGED vars
  BY <1>6, DelegationFrame DEF vars
<1> QED BY <1>1, <1>2, <1>3, <1>4, <1>5, <1>6 DEF Next, Gather

\* The delegation of a zone is accepted exactly when the parent publishes the
\* nameservers configured to answer and no others, and counts as unavailable
\* exactly when the parent could not be asked (EvaluateNSDelegation and
\* evaluateNameserverDelegation in lookup.go).
THEOREM DelegationVerdictIsExact == Spec => []DelegationIsExact
<1>1. DelegationInv => DelegationIsExact
  BY DEF DelegationInv
<1> QED BY <1>1, InitDelegation, NextDelegation, PTL DEF Spec

-----------------------------------------------------------------------------
(* DNSSEC.                                                                 *)

Answers(r) ==
  [err : {"unasked", "failed", "nxdomain", "unauthenticated", "none"}, records : SUBSET r]

\* What has been asked at each stage.
DNSSECInv ==
  /\ target \in Written
  /\ ds \in Answers(Keys) /\ keys \in Answers(Keys) /\ doh \in Answers(Keys)
  /\ ds.err # "unauthenticated" /\ keys.err # "unauthenticated"
  /\ ds.err # "none" => ds.records = {}
  /\ keys.err # "none" => keys.records = {}
  /\ doh.err # "none" => doh.records = {}
  /\ Answered(keys) => DOMAIN signatures = keys.records
  /\ keys.err # "unasked" => Answered(ds)
  /\ phase \in EmailPhases \cup DelegationPhases \cup {"resolvers", "ds", "dnskey"}
       => keys.err = "unasked"
  /\ phase \in {"dnskey", "doh"} => Answered(ds)
  /\ phase = "doh" => Answered(keys)
  /\ phase \in NSPhases \cup {"evaluate"} /\ target.dnssec =>
       /\ ds.err # "unasked"
       /\ Answered(ds) => keys.err # "unasked"
  /\ phase # "done" => dnssecState = NoChain
  /\ DNSSECVerdictIsTheChains

LEMMA RepliesAreAnswers ==
  /\ Unasked \in Answers(Keys) /\ Failure \in Answers(Keys) /\ NXDomain \in Answers(Keys)
  /\ Unauthenticated \in Answers(Keys)
  /\ Unauthenticated.err = "unauthenticated" /\ Unauthenticated.records = {}
  /\ \A r \in SUBSET Keys : Records(r) \in Answers(Keys) /\ Answered(Records(r))
  /\ Unasked.err = "unasked" /\ Failure.err = "failed" /\ NXDomain.err = "nxdomain"
  /\ Unasked.records = {} /\ Failure.records = {} /\ NXDomain.records = {}
  /\ \A r : Records(r).err = "none" /\ Records(r).records = r
  BY DEF Unasked, Failure, NXDomain, Unauthenticated, Records, Reply, Answers, Answered

LEMMA InitDNSSEC == Init => DNSSECInv
<1> SUFFICES ASSUME Init PROVE DNSSECInv
  OBVIOUS
<1>1. target \in Written
  BY DEF Init, Domains
<1>2. phase \notin {"dnskey", "doh"}
  BY Handover DEF Init
<1>3. ~(phase \in NSPhases \cup {"evaluate"} /\ target.dnssec)
  BY DEF Init, FirstPhase, AfterEmail, AfterDelegation, NSPhases
<1> QED
  BY <1>1, <1>2, <1>3, RepliesAreAnswers
  DEF Init, DNSSECInit, DNSSECInv, DNSSECVerdictIsTheChains, Answered, NoChain

LEMMA DNSSECFrame ==
  ASSUME DNSSECInv, UNCHANGED <<target, dnssecVars>>,
         phase' \in {"dnskey", "doh"} => phase' = phase,
         phase' \in EmailPhases \cup DelegationPhases \cup {"resolvers", "ds", "dnskey"}
           => phase \in EmailPhases \cup DelegationPhases \cup {"resolvers", "ds", "dnskey"},
         phase' \in NSPhases \cup {"evaluate"} /\ target.dnssec
           => phase \in NSPhases \cup {"evaluate"},
         phase' # "done" => phase # "done"
  PROVE  DNSSECInv'
  BY DEF DNSSECInv, dnssecVars, DNSSECVerdictIsTheChains, Answered, Vouched, Intact,
         SignedBy

LEMMA DNSSECStepKeeps ==
  ASSUME DNSSECInv, DNSSECStep
  PROVE  DNSSECInv'
<1>0. /\ phase # "done" /\ phase' # "done" /\ UNCHANGED <<target, dnssecState>>
      /\ dnssecState = NoChain
  BY DNSSECStepPhases, Handover
  DEF DNSSECPhases, DNSSECInv, DNSSECStep, ChooseResolver, QueryDS, QueryDNSKEY, QueryDoH,
      dnssecVars
<1>v. DNSSECVerdictIsTheChains'
  BY <1>0 DEF DNSSECVerdictIsTheChains
<1>s. AfterDNSSEC(target) \notin EmailPhases \cup DelegationPhases \cup DNSSECPhases
  BY Handover DEF EmailPhases, DelegationPhases, DNSSECPhases
<1>a. DSAnswers(target) \subseteq SUBSET Keys /\ KeyAnswers(target) \subseteq SUBSET Keys
  BY DNSSECAssumption DEF DNSSECInv
<1>1. CASE ChooseResolver
  BY <1>0, <1>1, <1>v
  DEF ChooseResolver, DNSSECInv, dnssecVars, NSPhases, EmailPhases, DelegationPhases,
      DNSSECPhases, Answered
<1>2. CASE QueryDS
  <2>1. CASE UNCHANGED ds /\ phase' = "ds"
    BY <1>0, <1>2, <1>v, <2>1
    DEF QueryDS, DNSSECInv, NSPhases, EmailPhases, DelegationPhases, DNSSECPhases,
        Answered
  <2>2. CASE ds' \in {Failure, NXDomain} /\ phase' = AfterDNSSEC(target)
    BY <1>0, <1>2, <1>v, <1>s, <2>2, RepliesAreAnswers
    DEF QueryDS, DNSSECInv, Answered, DNSSECPhases
  <2>3. CASE ds' \in {Records(answer) : answer \in DSAnswers(target)} /\ phase' = "dnskey"
    BY <1>0, <1>2, <1>v, <1>a, <2>3, RepliesAreAnswers
    DEF QueryDS, DNSSECInv, Answered, NSPhases, EmailPhases, DelegationPhases, DNSSECPhases
  <2> QED BY <1>2, <2>1, <2>2, <2>3 DEF QueryDS
<1>3. CASE QueryDNSKEY
  <2>0. Answered(ds) /\ UNCHANGED <<ds, doh>>
    BY <1>3 DEF QueryDNSKEY, DNSSECInv
  <2>1. CASE UNCHANGED <<keys, signatures>> /\ phase' = "dnskey"
    BY <1>0, <1>3, <1>v, <2>0, <2>1
    DEF QueryDNSKEY, DNSSECInv, NSPhases, EmailPhases, DelegationPhases, DNSSECPhases,
        Answered
  <2>2. CASE keys' \in {Failure, NXDomain} /\ phase' = AfterDNSSEC(target)
    BY <1>0, <1>v, <1>s, <2>0, <2>2, RepliesAreAnswers DEF DNSSECInv, Answered, DNSSECPhases
  <2>3. CASE /\ phase' = "doh"
             /\ \E published \in KeyAnswers(target) :
                  /\ keys' = Records(published)
                  /\ signatures' \in [published -> {"none", "expired", "valid"}]
    BY <1>0, <1>v, <1>a, <2>0, <2>3, RepliesAreAnswers
    DEF DNSSECInv, Answered, NSPhases, EmailPhases, DelegationPhases, DNSSECPhases
  <2> QED BY <1>3, <2>1, <2>2, <2>3 DEF QueryDNSKEY
<1>4. CASE QueryDoH
  <2>1. doh' \in Answers(Keys) /\ (doh'.err # "none" => doh'.records = {})
    BY <1>4, <1>a, RepliesAreAnswers DEF QueryDoH
  <2>2. Answered(ds) /\ Answered(keys) /\ UNCHANGED <<ds, keys, signatures>>
    BY <1>4 DEF QueryDoH, DNSSECInv
  <2> QED BY <1>0, <1>4, <1>v, <1>s, <2>1, <2>2
      DEF QueryDoH, DNSSECInv, Answered, EmailPhases, DelegationPhases, DNSSECPhases
<1> QED BY <1>1, <1>2, <1>3, <1>4 DEF DNSSECStep

\* The evaluation tells the states of a chain apart.
LEMMA DNSSECVerdict ==
  ASSUME DNSSECInv, phase = "evaluate", target.dnssec,
         dnssecState' = EvaluateDNSSEC, UNCHANGED <<ds, keys, signatures, doh>>
  PROVE  DNSSECVerdictIsTheChains'
<1> DEFINE intact == Intact
           answered == Answered(ds) /\ Answered(keys)
<1>1. /\ ds \in Answers(Keys) /\ keys \in Answers(Keys) /\ doh \in Answers(Keys)
      /\ ds.err \in {"failed", "nxdomain", "none"}
      /\ ds.err = "none" => keys.err \in {"failed", "nxdomain", "none"}
      /\ ds.err # "none" => ds.records = {}
      /\ keys.err # "none" => keys.records = {}
      /\ keys.err = "none" => DOMAIN signatures = keys.records
      /\ keys.err # "unasked" => ds.err = "none"
  BY DEF DNSSECInv, Answers, Answered, NSPhases
<1>2. \A r \in Answers(Keys) : /\ r.err = "failed" /\ r.records = {} <=> r = Failure
                               /\ r.err = "nxdomain" /\ r.records = {} <=> r = NXDomain
  BY DEF Answers, Failure, NXDomain, Reply
<1>3. /\ Failure \in {ds, keys} <=> ds.err = "failed" \/ keys.err = "failed"
      /\ NXDomain \in {ds, keys} <=> ds.err = "nxdomain" \/ keys.err = "nxdomain"
  BY <1>1, <1>2
<1>4. answered <=> Failure \notin {ds, keys} /\ NXDomain \notin {ds, keys}
                    /\ (ds.err = "none" /\ keys.err = "none")
  BY <1>1, <1>3 DEF Answered
<1>5. intact <=> answered /\ \E k \in authenticatedKSKs : signatures[k] = "valid"
  BY <1>1 DEF Intact, SignedBy, authenticatedKSKs, Answers
<1>6. Vouched <=> Answered(doh) /\ doh.records \cap authenticatedKSKs # {}
  BY DEF Vouched, authenticatedKSKs
<1>7. authenticatedKSKs # {} => ds.records # {} /\ keys.records # {}
  BY DEF authenticatedKSKs
<1>8. /\ dnssecState'.code = DNSSECCode
      /\ dnssecState'.status = IF DNSSECCode = "dnssec_verified" THEN "ok" ELSE "failed"
  BY DEF EvaluateDNSSEC
<1>9. /\ DNSSECCode = "dnssec_verified" <=> intact /\ Vouched
      /\ DNSSECCode = "dns_lookup_failed" <=> NXDomain \in {ds, keys} \/ (intact /\ ~Vouched)
      /\ DNSSECCode = "dnssec_network_error" <=> Failure \in {ds, keys}
      /\ DNSSECCode = "dnssec_rrsig_failed"
           <=> answered /\ ~intact /\ authenticatedKSKs # {}
      /\ DNSSECCode \in {"dnssec_disabled", "dnssec_no_ds"} <=> answered /\ ds.records = {}
  <2>1. CASE Failure \in {ds, keys}
    <3>1. DNSSECCode = "dnssec_network_error"
      <4>1. NXDomain \notin {ds, keys}
        BY <2>1, <1>1, <1>3
      <4> QED BY <2>1, <4>1 DEF DNSSECCode
    <3>2. ~answered /\ ~intact /\ NXDomain \notin {ds, keys}
      BY <2>1, <1>1, <1>3, <1>4, <1>5
    <3> QED BY <2>1, <3>1, <3>2
  <2>2. CASE Failure \notin {ds, keys} /\ NXDomain \in {ds, keys}
    <3>1. DNSSECCode = "dns_lookup_failed"
      BY <2>2 DEF DNSSECCode
    <3> QED BY <2>2, <3>1, <1>4, <1>5
  <2>3. CASE answered
    <3> DEFINE local ==
          CASE ds.records = {} /\ keys.records = {} -> "dnssec_disabled"
            [] ds.records = {} /\ keys.records # {} -> "dnssec_no_ds"
            [] ds.records # {} /\ keys.records = {} -> "dnssec_no_dnskey"
            [] OTHER ->
               CASE authenticatedKSKs = {} -> "dnssec_ds_mismatch"
                 [] authenticatedKSKs # {} /\ ~RRSIGValid -> "dnssec_rrsig_failed"
                 [] authenticatedKSKs # {} /\ RRSIGValid /\ ~verifyDNSSECDoH ->
                      "dns_lookup_failed"
                 [] OTHER -> "dnssec_verified"
    <3>1. DNSSECCode = local
      BY <2>3, <1>4 DEF DNSSECCode
    <3>2. verifyDNSSECDoH <=> Vouched
      BY <1>6 DEF verifyDNSSECDoH
    <3>3. ds.records # {} => (RRSIGValid <=> intact)
      BY <2>3, <1>5 DEF RRSIGValid, keysToVerify
    <3>4. authenticatedKSKs = {} => ~intact
      BY <1>5
    <3>5. Failure \notin {ds, keys} /\ NXDomain \notin {ds, keys}
      BY <2>3, <1>4
    <3> HIDE DEF intact, answered
    <3>6. CASE ds.records = {}
      <4>1. local \in {"dnssec_disabled", "dnssec_no_ds"}
        BY <3>6
      <4> QED BY <2>3, <3>1, <3>4, <3>5, <3>6, <4>1, <1>7
    <3>7. CASE ds.records # {} /\ keys.records = {}
      <4>1. local = "dnssec_no_dnskey"
        BY <3>7
      <4> QED BY <2>3, <3>1, <3>4, <3>5, <3>7, <4>1, <1>7
    <3>8. CASE ds.records # {} /\ keys.records # {} /\ authenticatedKSKs = {}
      <4>1. local = "dnssec_ds_mismatch"
        BY <3>8
      <4> QED BY <2>3, <3>1, <3>4, <3>5, <3>8, <4>1
    <3>9. CASE ds.records # {} /\ keys.records # {} /\ authenticatedKSKs # {}
      <4>1. local = IF ~RRSIGValid THEN "dnssec_rrsig_failed"
                    ELSE IF ~verifyDNSSECDoH THEN "dns_lookup_failed" ELSE "dnssec_verified"
        BY <3>9
      <4> QED BY <2>3, <3>1, <3>2, <3>3, <3>5, <3>9, <4>1
    <3> QED BY <3>6, <3>7, <3>8, <3>9
  <2> QED BY <2>1, <2>2, <2>3, <1>1, <1>3, <1>4
<1>10. (intact' <=> intact) /\ (answered' <=> answered) /\ (Vouched' <=> Vouched)
  BY DEF Intact, SignedBy, Answered, Vouched
<1>11. authenticatedKSKs = ds.records \cap keys.records
  BY DEF authenticatedKSKs
<1> HIDE DEF intact, answered
<1> QED BY <1>8, <1>9, <1>10, <1>11 DEF DNSSECVerdictIsTheChains, intact, answered

LEMMA NextDNSSEC == DNSSECInv /\ [Next]_vars => DNSSECInv'
<1> SUFFICES ASSUME DNSSECInv, [Next]_vars PROVE DNSSECInv'
  OBVIOUS
<1>1. CASE EmailStep /\ UNCHANGED dnssecVars
  BY <1>1, EmailStepPhases, Handover, DNSSECFrame
  DEF EmailPhases, AfterEmail, AfterDelegation, NSPhases, DelegationPhases
<1>2. CASE DelegationStep /\ UNCHANGED dnssecVars
  BY <1>2, DelegationStepPhases, Handover, DNSSECFrame
  DEF DelegationPhases, AfterDelegation, NSPhases, EmailPhases
<1>3. CASE DNSSECStep
  BY <1>3, DNSSECStepKeeps
<1>4. CASE NSStep /\ UNCHANGED dnssecVars
  BY <1>4, NSStepPhases, DNSSECFrame DEF NSPhases, EmailPhases, DelegationPhases
<1>5. CASE Evaluate
  <2>1. /\ UNCHANGED <<target, ds, keys, signatures, doh>>
        /\ phase = "evaluate" /\ phase' = "done"
    BY <1>5 DEF Evaluate
  <2>2. CASE ~target.dnssec
    <3>1. UNCHANGED dnssecVars
      BY <1>5, <2>1, <2>2 DEF Evaluate, dnssecVars
    <3> QED BY <2>1, <3>1, DNSSECFrame DEF NSPhases, EmailPhases, DelegationPhases
  <2>3. CASE target.dnssec
    <3>1. DNSSECVerdictIsTheChains'
      BY <1>5, <2>1, <2>3, DNSSECVerdict DEF Evaluate
    <3> QED
      BY <2>1, <3>1 DEF DNSSECInv, NSPhases, EmailPhases, DelegationPhases, Answered
  <2> QED BY <2>2, <2>3
<1>6. CASE UNCHANGED vars
  BY <1>6, DNSSECFrame DEF vars
<1> QED BY <1>1, <1>2, <1>3, <1>4, <1>5, <1>6 DEF Next, Gather

\* A domain is verified exactly when a key the parent vouches for has signed the
\* key set and the DoH resolver has seen such a key, and every other state of the
\* chain is told apart from an outage (validateDNSSEC and finalizeDNSSECResult in
\* dns.go).
THEOREM DNSSECVerdictHolds == Spec => []DNSSECVerdictIsTheChains
<1>1. DNSSECInv => DNSSECVerdictIsTheChains
  BY DEF DNSSECInv
<1> QED BY <1>1, InitDNSSEC, NextDNSSEC, PTL DEF Spec

-----------------------------------------------------------------------------
(* Nameserver health.                                                      *)

SOAReplies == [authoritative : BOOLEAN, serial : Int]
KeyReplies == {Unasked, Failure} \cup {Records(answer) : answer \in NSKeyAnswers}
NSServers ==
  [lookup : {"none", "complete", "nxdomain", "failed"}, addresses : Nat,
   replies : Seq(SOAReplies), keys : KeyReplies]

\* Only the last address that was asked may have answered with authority.
Bad(s, n) == \A i \in 1 .. n : ~Good(s.replies[i])
Heard(s) == s \in NSServers /\ Bad(s, Len(s.replies) - 1)

NSInv ==
  /\ target \in Written
  /\ server \in NSServers
  /\ phase \notin {"soa", "nsKeys"} => server.replies = <<>>
  /\ phase = "soa" => Bad(server, Len(server.replies))
  /\ phase = "nsKeys" => Heard(server)
  /\ heard \in Seq(NSServers)
  /\ \A i \in 1 .. Len(heard) : Heard(heard[i])
  /\ phase \in NSPhases => Len(heard) < Len(target.nameservers)
  /\ phase \notin NSPhases \cup {"evaluate", "done"} => heard = <<>>
  /\ phase = "evaluate" /\ target.nameservers # <<>> => Len(heard) = Len(target.nameservers)
  /\ phase # "done" => nsState.status = "unknown"
  /\ ServersInSync

NoServer == [lookup |-> "none", addresses |-> 0, replies |-> <<>>, keys |-> Unasked]

LEMMA NoServerHeard == NoServer \in NSServers /\ Bad(NoServer, 0) /\ NoServer.replies = <<>>
<1>1. Unasked \in KeyReplies /\ <<>> \in Seq(SOAReplies)
  BY DEF KeyReplies
<1> QED BY <1>1 DEF NoServer, NSServers, Bad

LEMMA ServersListed ==
  ASSUME target \in Written
  PROVE  /\ Len(target.nameservers) \in Nat
         /\ target.nameservers # <<>> <=> Len(target.nameservers) # 0
  BY WorkerAssumption

LEMMA InitNS == Init => NSInv
<1> SUFFICES ASSUME Init PROVE NSInv
  OBVIOUS
<1>1. target \in Written
  BY DEF Init, Domains
<1>2. server = NoServer /\ heard = <<>> /\ nsState.status = "unknown"
  BY DEF Init, NSInit, NoServer
<1>3. <<>> \in Seq(NSServers) /\ Len(<<>>) = 0
  OBVIOUS
<1>4. phase \notin {"soa", "nsKeys", "done"}
  BY Handover DEF Init
<1>5. phase = "servers" => target.nameservers # <<>>
  BY DEF Init, FirstPhase, AfterEmail, AfterDelegation, AfterDNSSEC
<1>6. phase = "evaluate" => target.nameservers = <<>>
  BY DEF Init, FirstPhase, AfterEmail, AfterDelegation, AfterDNSSEC
<1> QED
  BY <1>1, <1>2, <1>3, <1>4, <1>5, <1>6, NoServerHeard, ServersListed
  DEF NSInv, NSPhases, ServersInSync

\* A step of another check, which may hand over to this one.
LEMMA NSFrame ==
  ASSUME NSInv, UNCHANGED <<target, nsVars>>,
         \/ phase' = phase
         \/ /\ phase \notin NSPhases \cup {"evaluate", "done"}
            /\ phase' \notin {"soa", "nsKeys", "done"}
            /\ phase' = "servers" => target.nameservers # <<>>
            /\ phase' = "evaluate" => target.nameservers = <<>>
  PROVE  NSInv'
<1>1. ServersInSync'
  <2>1. UNCHANGED <<target, heard, nsState>>
    BY DEF nsVars
  <2>2. (Disagreement' <=> Disagreement) /\ \A s : Authoritative(s)' <=> Authoritative(s)
    BY <2>1 DEF Disagreement, Good, Authoritative, SerialsHeard
  <2> QED BY <2>1, <2>2 DEF NSInv, ServersInSync, Good
<1>2. CASE phase' = phase
  BY <1>1, <1>2 DEF NSInv, nsVars, Bad, Heard, Good
<1>3. CASE phase' # phase
  <2>1. heard = <<>> /\ server.replies = <<>>
    BY <1>3 DEF NSInv, NSPhases
  <2>2. Len(heard) = 0
    BY <2>1
  <2> QED
    BY <1>1, <1>3, <2>1, <2>2, ServersListed DEF NSInv, nsVars, NSPhases, Bad, Heard, Good
<1> QED BY <1>2, <1>3

LEMMA GoesToNext ==
  ASSUME NSInv, phase \in NSPhases, UNCHANGED <<target, nsState>>, NEW s, Heard(s),
         NextNameserver(s)
  PROVE  NSInv'
<1>1. /\ heard' = Append(heard, s) /\ server' = NoServer
      /\ phase' = IF Len(heard) + 1 = Len(target.nameservers) THEN "evaluate" ELSE "servers"
  BY DEF NextNameserver, NoServer
<1>2. /\ heard \in Seq(NSServers) /\ s \in NSServers
      /\ Len(heard) < Len(target.nameservers) /\ Len(target.nameservers) \in Nat
      /\ target \in Written /\ nsState.status = "unknown"
  BY ServersListed DEF NSInv, Heard, NSPhases
<1>3. heard' \in Seq(NSServers) /\ Len(heard') = Len(heard) + 1
  BY <1>1, <1>2
<1>4. \A i \in 1 .. Len(heard') : heard'[i] = IF i <= Len(heard) THEN heard[i] ELSE s
  BY <1>1, <1>2
<1>5. \A i \in 1 .. Len(heard') : Heard(heard'[i])
  BY <1>2, <1>3, <1>4 DEF NSInv
<1>6. \A x : Heard(x)' <=> Heard(x)
  BY DEF Heard, Bad, Good
<1> QED
  BY <1>1, <1>2, <1>3, <1>5, <1>6, NoServerHeard DEF NSInv, NSPhases, ServersInSync

LEMMA NSStepKeeps ==
  ASSUME NSInv, NSStep
  PROVE  NSInv'
<1>0. /\ phase \in NSPhases /\ UNCHANGED <<target, nsState>> /\ nsState.status = "unknown"
      /\ server \in NSServers
  BY NSStepPhases
  DEF NSStep, ResolveNameserver, QuerySOA, QueryNSKeys, NSInv, NSPhases
<1>v. ServersInSync'
  BY <1>0 DEF ServersInSync
<1>1. CASE ResolveNameserver
  <2>1. PICK lookup \in {"complete", "nxdomain", "failed"}, n \in {0} \cup AddressCounts(target) :
          LET found == [server EXCEPT !.lookup = lookup, !.addresses = n] IN
          IF n = 0 THEN NextNameserver(found)
          ELSE /\ server' = found
               /\ phase' = "soa"
               /\ UNCHANGED heard
    BY <1>1 DEF ResolveNameserver
  <2> DEFINE found == [server EXCEPT !.lookup = lookup, !.addresses = n]
  <2>2. n \in Nat
    BY NSHealthAssumption DEF NSInv
  <2>3. found \in NSServers /\ found.replies = server.replies /\ server.replies = <<>>
    BY <1>0, <1>1, <2>2 DEF NSServers, NSInv, ResolveNameserver
  <2>4. Heard(found) /\ Bad(found, Len(found.replies))
    BY <2>3 DEF Heard, Bad
  <2>5. CASE n = 0
    BY <1>0, <2>1, <2>4, <2>5, GoesToNext
  <2>6. CASE n # 0
    <3>1. server' = found /\ phase' = "soa" /\ UNCHANGED heard
      BY <2>1, <2>6
    <3> QED
      BY <1>0, <1>v, <2>3, <2>4, <3>1 DEF NSInv, NSPhases, Heard, Bad, Good
  <2> QED BY <2>5, <2>6
<1>2. CASE QuerySOA
  <2>1. PICK reply \in {NoResponse, SOA(FALSE, NoSerial)} \cup
                       {SOA(TRUE, serial) : serial \in {NoSerial} \cup Serials} :
          LET asked == [server EXCEPT !.replies = Append(@, reply)] IN
          CASE ~Good(reply) /\ MayAsk(asked) ->
                 server' = asked /\ UNCHANGED <<phase, heard>>
            [] (Good(reply) \/ ~MayAsk(asked)) /\ target.dnssec /\ Reached(asked) ->
                 server' = asked /\ phase' = "nsKeys" /\ UNCHANGED heard
            [] OTHER -> NextNameserver(asked)
    BY <1>2 DEF QuerySOA
  <2> DEFINE asked == [server EXCEPT !.replies = Append(@, reply)]
  <2>2. reply \in SOAReplies
    <3>1. \A b \in BOOLEAN, n \in Int : SOA(b, n) \in SOAReplies
      BY DEF SOA, SOAReplies
    <3>2. NoSerial \in Int /\ -1 \in Int /\ Serials \subseteq Int
      BY NSHealthAssumption DEF NoSerial
    <3>3. CASE reply \in {NoResponse, SOA(FALSE, NoSerial)}
      BY <3>1, <3>2, <3>3 DEF NoResponse
    <3>4. CASE reply \in {SOA(TRUE, serial) : serial \in {NoSerial} \cup Serials}
      <4>1. PICK serial \in {NoSerial} \cup Serials : reply = SOA(TRUE, serial)
        BY <3>4
      <4> QED BY <3>1, <3>2, <4>1
    <3> QED BY <2>1, <3>3, <3>4
  <2>3. /\ server.replies \in Seq(SOAReplies)
        /\ asked \in NSServers
        /\ asked.replies = Append(server.replies, reply)
    <3>1. server.replies \in Seq(SOAReplies)
      BY <1>0 DEF NSServers
    <3>2. Append(server.replies, reply) \in Seq(SOAReplies)
      BY <2>2, <3>1
    <3>3. \A r \in Seq(SOAReplies) : /\ [server EXCEPT !.replies = r] \in NSServers
                                     /\ [server EXCEPT !.replies = r].replies = r
      BY <1>0 DEF NSServers
    <3>4. asked = [server EXCEPT !.replies = Append(server.replies, reply)]
      OBVIOUS
    <3> HIDE DEF asked
    <3> QED BY <3>1, <3>2, <3>3, <3>4
  <2>4. phase = "soa" /\ Bad(server, Len(server.replies))
    BY <1>2 DEF QuerySOA, NSInv
  <2>5. /\ Len(asked.replies) = Len(server.replies) + 1 /\ Len(server.replies) \in Nat
        /\ \A i \in 1 .. Len(server.replies) : asked.replies[i] = server.replies[i]
        /\ asked.replies[Len(server.replies) + 1] = reply
    BY <2>2, <2>3
  <2>6. Heard(asked) /\ (~Good(reply) => Bad(asked, Len(asked.replies)))
    <3>1. Bad(asked, Len(server.replies))
      BY <2>4, <2>5 DEF Bad
    <3>2. ASSUME ~Good(reply) PROVE Bad(asked, Len(server.replies) + 1)
      BY <2>5, <3>1, <3>2 DEF Bad
    <3> QED BY <2>3, <2>5, <3>1, <3>2 DEF Heard
  <2> HIDE DEF asked
  <2>7. CASE ~Good(reply) /\ server' = asked /\ UNCHANGED <<phase, heard>>
    BY <1>0, <1>v, <2>4, <2>6, <2>7 DEF NSInv, NSPhases, Heard, Bad, Good
  <2>8. CASE server' = asked /\ phase' = "nsKeys" /\ UNCHANGED heard
    BY <1>0, <1>v, <2>4, <2>6, <2>8 DEF NSInv, NSPhases, Heard, Bad, Good
  <2>9. CASE NextNameserver(asked)
    BY <1>0, <2>6, <2>9, GoesToNext
  <2> QED BY <2>1, <2>7, <2>8, <2>9 DEF asked
<1>3. CASE QueryNSKeys
  <2>1. PICK reply \in {Failure} \cup {Records(answer) : answer \in NSKeyAnswers} :
          NextNameserver([server EXCEPT !.keys = reply])
    BY <1>3 DEF QueryNSKeys
  <2>2. Heard([server EXCEPT !.keys = reply])
    <3>1. Heard(server)
      BY <1>3 DEF QueryNSKeys, NSInv
    <3> QED BY <3>1 DEF Heard, NSServers, KeyReplies, Bad
  <2> QED BY <1>0, <2>1, <2>2, GoesToNext
<1> QED BY <1>1, <1>2, <1>3 DEF NSStep

\* A server is in sync by its snapshot exactly when an address of it has
\* answered with authority, and then its serial is the one it answered.
LEMMA SnapshotInSync ==
  ASSUME NEW s, Heard(s)
  PROVE  /\ InSync(NSSnapshot(s)) <=> Authoritative(s)
         /\ Authoritative(s) => SerialsHeard(s) = {NSSnapshot(s).serial}
         /\ Authoritative(s) => Reached(s)
<1> DEFINE n == Len(s.replies)
<1>1. /\ s.replies \in Seq(SOAReplies) /\ n \in Nat /\ DOMAIN s.replies = 1 .. n
      /\ \A i \in 1 .. n - 1 : ~Good(s.replies[i])
  BY DEF Heard, NSServers, Bad
<1>2. \A r : Good(r) => r # NoResponse
  BY DEF Good, NoResponse, SOA
<1>3. CASE n > 0 /\ Good(s.replies[n])
  <2>1. Reached(s) /\ Selected(s) = s.replies[n] /\ Authoritative(s)
    BY <1>1, <1>2, <1>3 DEF Reached, Selected, LastReply, Authoritative
  <2>2. SerialsHeard(s) = {s.replies[n].serial}
    <3>1. {j \in DOMAIN s.replies : Good(s.replies[j])} = {n}
      BY <1>1, <1>3
    <3> QED BY <3>1 DEF SerialsHeard
  <2>3. /\ NSSnapshot(s).authoritative <=> Selected(s).authoritative
        /\ NSSnapshot(s).hasSOA <=> Selected(s).serial # NoSerial
        /\ NSSnapshot(s).serial = Selected(s).serial
    BY <2>1 DEF NSSnapshot
  <2> QED BY <1>3, <2>1, <2>2, <2>3 DEF InSync, Good
<1>4. CASE ~(n > 0 /\ Good(s.replies[n]))
  <2>1. \A i \in DOMAIN s.replies : ~Good(s.replies[i])
    BY <1>1, <1>4
  <2>2. ~Authoritative(s)
    BY <2>1 DEF Authoritative
  <2>3. ASSUME Reached(s) PROVE ~Good(Selected(s))
    <3> DEFINE S == {i \in DOMAIN s.replies : s.replies[i] # NoResponse}
    <3>1. S \in SUBSET Nat /\ S # {}
      BY <1>1, <2>3 DEF Reached
    <3>2. \E x \in S : \A y \in S : x <= y
      BY <3>1, NatLeastElement
    <3>3. n > 0 /\ ~Good(LastReply(s))
      BY <1>1, <1>4, <2>3 DEF Reached, LastReply
    <3>4. Selected(s) = s.replies[CHOOSE i \in DOMAIN s.replies :
             /\ s.replies[i] # NoResponse
             /\ \A j \in DOMAIN s.replies : s.replies[j] # NoResponse => i <= j]
      BY <3>3 DEF Selected
    <3>5. \E i \in DOMAIN s.replies :
             /\ s.replies[i] # NoResponse
             /\ \A j \in DOMAIN s.replies : s.replies[j] # NoResponse => i <= j
      BY <3>2
    <3>6. \E i \in DOMAIN s.replies : Selected(s) = s.replies[i]
      BY <3>4, <3>5
    <3> QED BY <2>1, <3>6
  <2>4. NSSnapshot(s).authoritative /\ NSSnapshot(s).hasSOA => Reached(s) /\ Good(Selected(s))
    BY DEF NSSnapshot, Good
  <2> QED BY <2>2, <2>3, <2>4 DEF InSync
<1> QED BY <1>1, <1>3, <1>4

\* No address of a server has failed it exactly when the first one answered with
\* authority.
LEMMA FirstAnswers ==
  ASSUME NEW s, Heard(s)
  PROVE  Authoritative(s) /\ ~queryError(s) <=> s.replies # <<>> /\ Good(s.replies[1])
<1>1. /\ s.replies \in Seq(SOAReplies) /\ Len(s.replies) \in Nat
      /\ DOMAIN s.replies = 1 .. Len(s.replies)
      /\ \A i \in 1 .. Len(s.replies) - 1 : ~Good(s.replies[i])
  BY DEF Heard, NSServers, Bad
<1>2. s.replies # <<>> <=> Len(s.replies) > 0
  BY <1>1
<1> QED BY <1>1, <1>2 DEF Authoritative, queryError

\* The findings of all servers, taken apart by server.
LEMMA FindingsOfServers ==
  ASSUME NEW snapshots, NEW n \in Nat, DOMAIN snapshots = 1 .. n, Len(snapshots) = n
  PROVE  LET F == NSFindings(snapshots) IN
         /\ DOMAIN F = 1 .. 5 * n
         /\ \A x \in DOMAIN F : \E i \in 1 .. n, k \in 1 .. 5 :
              F[x] = ServerFindings(snapshots, i)[k]
         /\ \A i \in 1 .. n, k \in 1 .. 5 : \E x \in DOMAIN F :
              F[x] = ServerFindings(snapshots, i)[k]
<1> DEFINE F == NSFindings(snapshots)
<1>1. /\ DOMAIN F = 1 .. 5 * n
      /\ \A x \in 1 .. 5 * n :
           F[x] = ServerFindings(snapshots, ((x - 1) \div 5) + 1)[((x - 1) % 5) + 1]
  BY DEF NSFindings
<1>2. \A x \in 1 .. 5 * n : ((x - 1) \div 5) + 1 \in 1 .. n /\ ((x - 1) % 5) + 1 \in 1 .. 5
  OBVIOUS
<1>3. \A i \in 1 .. n, k \in 1 .. 5 :
        /\ 5 * (i - 1) + k \in 1 .. 5 * n
        /\ ((5 * (i - 1) + k - 1) \div 5) + 1 = i
        /\ ((5 * (i - 1) + k - 1) % 5) + 1 = k
  OBVIOUS
<1> HIDE DEF F
<1>4. ASSUME NEW i \in 1 .. n, NEW k \in 1 .. 5
      PROVE  \E x \in DOMAIN F : F[x] = ServerFindings(snapshots, i)[k]
  <2>1. /\ 5 * (i - 1) + k \in DOMAIN F
        /\ F[5 * (i - 1) + k] =
             ServerFindings(snapshots, ((5 * (i - 1) + k - 1) \div 5) + 1)
               [((5 * (i - 1) + k - 1) % 5) + 1]
    BY <1>1, <1>3
  <2>2. F[5 * (i - 1) + k] = ServerFindings(snapshots, i)[k]
    BY <1>3, <2>1
  <2> QED BY <2>1, <2>2
<1>5. ASSUME NEW x \in DOMAIN F
      PROVE  \E i \in 1 .. n, k \in 1 .. 5 : F[x] = ServerFindings(snapshots, i)[k]
  BY <1>1, <1>2
<1> QED BY <1>1, <1>4, <1>5 DEF F

\* A server is found fault with exactly when the queries have shown a fault of
\* it, or it differs from the first server that is in sync.
LEMMA FindingsOfServer ==
  ASSUME NEW snapshots, NEW i \in DOMAIN snapshots
  PROVE  LET F == ServerFindings(snapshots, i) IN
         /\ \A k \in 1 .. 5 : F[k].status \in {"failed", "warning"}
         /\ (\A k \in 1 .. 5 : ~F[k].when) <=>
              /\ ~snapshots[i].unreachable /\ InSync(snapshots[i])
              /\ ~snapshots[i].partial /\ ~KeyTrouble(snapshots[i])
              /\ ~SerialDiffers(snapshots, i) /\ ~KeysDiffer(snapshots, i)
         /\ ~InSync(snapshots[i]) => F[1].when /\ F[1].status = "failed"
<1> DEFINE F == ServerFindings(snapshots, i)
<1>1. /\ F[1].when = (snapshots[i].unreachable \/ ~InSync(snapshots[i]))
      /\ F[2].when = snapshots[i].partial
      /\ F[3].when = KeyTrouble(snapshots[i])
      /\ F[4].when = SerialDiffers(snapshots, i)
      /\ F[5].when = KeysDiffer(snapshots, i)
  BY DEF ServerFindings, Finding
<1>2. /\ F[1].status = "failed" /\ F[2].status = "warning" /\ F[3].status = "failed"
      /\ F[4].status = "warning" /\ F[5].status = "failed"
  BY DEF ServerFindings, Finding
<1>3. 1 .. 5 = {1, 2, 3, 4, 5}
  OBVIOUS
<1> HIDE DEF F
<1>4. (\A k \in 1 .. 5 : ~F[k].when) <=>
        ~F[1].when /\ ~F[2].when /\ ~F[3].when /\ ~F[4].when /\ ~F[5].when
  BY <1>3
<1>5. \A k \in 1 .. 5 : F[k].status \in {"failed", "warning"}
  BY <1>2, <1>3
<1>6. ~InSync(snapshots[i]) => F[1].when /\ F[1].status = "failed"
  BY <1>1, <1>2
<1> QED BY <1>1, <1>4, <1>5, <1>6 DEF F

LEMMA StatusOfServers ==
  ASSUME NEW snapshots, NEW n \in Nat, DOMAIN snapshots = 1 .. n, Len(snapshots) = n
  PROVE  /\ PromotedStatus(NSFindings(snapshots)) = "ok" <=>
              \A i \in 1 .. n :
                /\ ~snapshots[i].unreachable /\ InSync(snapshots[i])
                /\ ~snapshots[i].partial /\ ~KeyTrouble(snapshots[i])
                /\ ~SerialDiffers(snapshots, i) /\ ~KeysDiffer(snapshots, i)
         /\ (\E i \in 1 .. n : ~InSync(snapshots[i]))
              => PromotedStatus(NSFindings(snapshots)) = "failed"
<1> DEFINE F == NSFindings(snapshots)
           Fault(i) == \E k \in 1 .. 5 : ServerFindings(snapshots, i)[k].when
<1>1. /\ \A x \in DOMAIN F : \E i \in 1 .. n, k \in 1 .. 5 :
           F[x] = ServerFindings(snapshots, i)[k]
      /\ \A i \in 1 .. n, k \in 1 .. 5 : \E x \in DOMAIN F :
           F[x] = ServerFindings(snapshots, i)[k]
  BY FindingsOfServers
<1>2. \A i \in 1 .. n :
        /\ \A k \in 1 .. 5 : ServerFindings(snapshots, i)[k].status \in {"failed", "warning"}
        /\ ~Fault(i) <=>
              /\ ~snapshots[i].unreachable /\ InSync(snapshots[i])
              /\ ~snapshots[i].partial /\ ~KeyTrouble(snapshots[i])
              /\ ~SerialDiffers(snapshots, i) /\ ~KeysDiffer(snapshots, i)
        /\ ~InSync(snapshots[i]) => /\ ServerFindings(snapshots, i)[1].when
                                    /\ ServerFindings(snapshots, i)[1].status = "failed"
  BY FindingsOfServer
<1> HIDE DEF F
<1>3. \A x \in DOMAIN F : F[x].status \in {"failed", "warning"}
  BY <1>1, <1>2
<1>4. PromotedStatus(F) = "ok" <=> \A x \in DOMAIN F : ~F[x].when
  BY <1>3, PromotedOk
<1>5. (\A x \in DOMAIN F : ~F[x].when) <=> \A i \in 1 .. n : ~Fault(i)
  <2>1. ASSUME NEW x \in DOMAIN F, F[x].when PROVE \E i \in 1 .. n : Fault(i)
    <3>1. PICK i \in 1 .. n, k \in 1 .. 5 : F[x] = ServerFindings(snapshots, i)[k]
      BY <1>1
    <3>2. ServerFindings(snapshots, i)[k].when
      BY <2>1, <3>1
    <3> QED BY <3>2
  <2>2. ASSUME NEW i \in 1 .. n, Fault(i) PROVE \E x \in DOMAIN F : F[x].when
    <3>1. PICK k \in 1 .. 5 : ServerFindings(snapshots, i)[k].when
      BY <2>2
    <3>2. PICK x \in DOMAIN F : F[x] = ServerFindings(snapshots, i)[k]
      BY <1>1
    <3>3. F[x].when
      BY <3>1, <3>2
    <3> QED BY <3>3
  <2> HIDE DEF Fault
  <2> QED BY <2>1, <2>2
<1>6. ASSUME NEW i \in 1 .. n, ~InSync(snapshots[i]) PROVE PromotedStatus(F) = "failed"
  <2>1. PICK x \in DOMAIN F : F[x] = ServerFindings(snapshots, i)[1]
    BY <1>1
  <2>2. x \in Raised(F, "failed")
    BY <1>2, <1>6, <2>1 DEF Raised
  <2> QED BY <2>2 DEF PromotedStatus
<1> HIDE DEF Fault
<1> QED BY <1>2, <1>4, <1>5, <1>6 DEF F

\* The first server in sync is in sync, where there is one.
LEMMA BaselineInSync ==
  ASSUME NEW snapshots, NEW n \in Nat, DOMAIN snapshots = 1 .. n,
         NEW m \in 1 .. n, InSync(snapshots[m])
  PROVE  \E i \in 1 .. n : InSync(snapshots[i]) /\ Baseline(snapshots) = snapshots[i]
<1> DEFINE S == {i \in 1 .. n : InSync(snapshots[i])}
<1>1. S \in SUBSET Nat /\ S # {}
  OBVIOUS
<1>2. \E x \in S : \A y \in S : x <= y
  BY <1>1, NatLeastElement
<1>3. \E i \in DOMAIN snapshots :
        InSync(snapshots[i]) /\ \A j \in DOMAIN snapshots : InSync(snapshots[j]) => i <= j
  BY <1>2
<1> QED BY <1>3 DEF Baseline

LEMMA NSVerdict ==
  ASSUME NSInv, phase = "evaluate", target.nameservers # <<>>,
         nsState' = EvaluateNSHealth, UNCHANGED <<target, heard>>
  PROVE  ServersInSync'
<1> DEFINE S == Snapshots
           n == Len(heard)
           Fine(i) == /\ heard[i].lookup = "complete"
                      /\ heard[i].replies # <<>> /\ Good(heard[i].replies[1])
                      /\ target.dnssec => heard[i].keys.records # {}
<1>1. /\ n \in Nat /\ DOMAIN heard = 1 .. n /\ n = Len(target.nameservers)
      /\ \A i \in 1 .. n : Heard(heard[i])
  BY ServersListed DEF NSInv
<1>2. /\ DOMAIN S = 1 .. n /\ Len(S) = n
      /\ \A i \in 1 .. n : S[i] = NSSnapshot(heard[i])
  BY <1>1 DEF Snapshots
<1>3. \A i \in 1 .. n :
        /\ InSync(S[i]) <=> Authoritative(heard[i])
        /\ Authoritative(heard[i]) => SerialsHeard(heard[i]) = {S[i].serial}
        /\ Authoritative(heard[i]) => Reached(heard[i])
  BY <1>1, <1>2, SnapshotInSync
<1>4. \A i \in 1 .. n :
        /\ S[i].unreachable = ~Reached(heard[i])
        /\ S[i].partial = (heard[i].lookup # "complete" \/ queryError(heard[i]))
        /\ S[i].keyError = (heard[i].keys = Failure)
        /\ S[i].keys = heard[i].keys.records
  BY <1>2 DEF NSSnapshot
<1>5. nsState'.status = PromotedStatus(NSFindings(S))
  BY DEF EvaluateNSHealth
<1>6. /\ Disagreement' <=> Disagreement
      /\ \A s : (Authoritative(s)' <=> Authoritative(s)) /\ (Good(s)' <=> Good(s))
  BY DEF Disagreement, Good, Authoritative, SerialsHeard
<1>7. \A i \in 1 .. n :
        /\ heard[i].keys \in KeyReplies
        /\ Authoritative(heard[i]) /\ ~queryError(heard[i])
             <=> heard[i].replies # <<>> /\ Good(heard[i].replies[1])
  BY <1>1, FirstAnswers DEF Heard, NSServers
<1>8. \A a \in KeyReplies, b \in KeyReplies :
        /\ a.records # {} => a # Failure
        /\ a.records # {} /\ b.records # {} => (a = b <=> a.records = b.records)
  BY DEF KeyReplies, Unasked, Failure, Records, Reply
<1> HIDE DEF S
<1>9. \A i \in 1 .. n :
        Fine(i) <=> /\ ~S[i].unreachable /\ InSync(S[i])
                    /\ ~S[i].partial /\ ~KeyTrouble(S[i])
  BY <1>3, <1>4, <1>7, <1>8 DEF KeyTrouble
<1>10. ASSUME \A i \in 1 .. n : Fine(i)
       PROVE  (\A i \in 1 .. n : ~SerialDiffers(S, i) /\ ~KeysDiffer(S, i)) <=> ~Disagreement
  <2>1. \A i \in 1 .. n : InSync(S[i]) /\ Authoritative(heard[i])
    BY <1>3, <1>9, <1>10
  <2>2. Disagreement <=>
          \E i, j \in 1 .. n :
            S[i].serial # S[j].serial \/ (target.dnssec /\ S[i].keys # S[j].keys)
    <3>1. \A i, j \in 1 .. n :
            /\ SerialsHeard(heard[i]) # SerialsHeard(heard[j]) <=> S[i].serial # S[j].serial
            /\ target.dnssec => (heard[i].keys # heard[j].keys <=> S[i].keys # S[j].keys)
      <4>1. \A i, j \in 1 .. n :
              SerialsHeard(heard[i]) # SerialsHeard(heard[j]) <=> S[i].serial # S[j].serial
        BY <1>3, <2>1
      <4>2. \A i, j \in 1 .. n :
              target.dnssec => (heard[i].keys # heard[j].keys <=> S[i].keys # S[j].keys)
        BY <1>4, <1>7, <1>8, <1>10
      <4> QED BY <4>1, <4>2
    <3>2. Disagreement <=>
            \E i, j \in 1 .. n :
              /\ Authoritative(heard[i]) /\ Authoritative(heard[j])
              /\ \/ SerialsHeard(heard[i]) # SerialsHeard(heard[j])
                 \/ target.dnssec /\ heard[i].keys # heard[j].keys
      BY <1>1 DEF Disagreement
    <3> QED BY <2>1, <3>1, <3>2
  <2>3. ASSUME NEW m \in 1 .. n
        PROVE  \E b \in 1 .. n : Baseline(S) = S[b]
    BY <1>1, <1>2, <2>1, <2>3, BaselineInSync
  <2>4. \A i \in 1 .. n :
          /\ SerialDiffers(S, i) <=> S[i].serial # Baseline(S).serial
          /\ KeysDiffer(S, i) <=> target.dnssec /\ S[i].keys # Baseline(S).keys
    BY <2>1 DEF SerialDiffers, KeysDiffer
  <2>5. ASSUME NEW m \in 1 .. n, SerialDiffers(S, m) \/ KeysDiffer(S, m)
        PROVE  Disagreement
    <3>1. PICK b \in 1 .. n : Baseline(S) = S[b]
      BY <2>3
    <3>2. S[m].serial # S[b].serial \/ (target.dnssec /\ S[m].keys # S[b].keys)
      BY <2>4, <2>5, <3>1
    <3> QED BY <2>2, <3>2
  <2>6. ASSUME NEW i \in 1 .. n, NEW j \in 1 .. n,
               ~SerialDiffers(S, i) /\ ~KeysDiffer(S, i),
               ~SerialDiffers(S, j) /\ ~KeysDiffer(S, j)
        PROVE  S[i].serial = S[j].serial /\ (target.dnssec => S[i].keys = S[j].keys)
    BY <2>4, <2>6
  <2>7. (\A i \in 1 .. n : ~SerialDiffers(S, i) /\ ~KeysDiffer(S, i)) => ~Disagreement
    BY <2>2, <2>6
  <2> QED BY <2>5, <2>7
<1>11. /\ nsState'.status = "ok" <=>
            \A i \in 1 .. n :
              /\ ~S[i].unreachable /\ InSync(S[i])
              /\ ~S[i].partial /\ ~KeyTrouble(S[i])
              /\ ~SerialDiffers(S, i) /\ ~KeysDiffer(S, i)
       /\ (\E i \in 1 .. n : ~InSync(S[i])) => nsState'.status = "failed"
  BY <1>1, <1>2, <1>5, StatusOfServers
<1>12. nsState'.status = "ok" <=> (\A i \in 1 .. n : Fine(i)) /\ ~Disagreement
  BY <1>9, <1>10, <1>11
<1>13. (\E i \in 1 .. n : ~Authoritative(heard[i])) => nsState'.status = "failed"
  BY <1>3, <1>11
<1> QED
  BY <1>1, <1>6, <1>12, <1>13 DEF ServersInSync

LEMMA NextNS == NSInv /\ [Next]_vars => NSInv'
<1> SUFFICES ASSUME NSInv, [Next]_vars PROVE NSInv'
  OBVIOUS
<1>1. CASE EmailStep /\ UNCHANGED nsVars
  BY <1>1, EmailStepPhases, Handover, NSFrame
  DEF EmailPhases, AfterEmail, AfterDelegation, AfterDNSSEC, NSPhases
<1>2. CASE DelegationStep /\ UNCHANGED nsVars
  BY <1>2, DelegationStepPhases, Handover, NSFrame
  DEF DelegationPhases, AfterDelegation, AfterDNSSEC, NSPhases
<1>3. CASE DNSSECStep /\ UNCHANGED nsVars
  BY <1>3, DNSSECStepPhases, Handover, NSFrame DEF DNSSECPhases, AfterDNSSEC, NSPhases
<1>4. CASE NSStep
  BY <1>4, NSStepKeeps
<1>5. CASE Evaluate
  <2>1. UNCHANGED <<target, server, heard>> /\ phase = "evaluate" /\ phase' = "done"
    BY <1>5 DEF Evaluate
  <2>2. ServersInSync'
    <3>1. CASE target.nameservers # <<>>
      BY <1>5, <2>1, <3>1, NSVerdict DEF Evaluate
    <3>2. CASE target.nameservers = <<>>
      <4>1. nsState' = nsState /\ nsState.status = "unknown"
        BY <1>5, <2>1, <3>2 DEF Evaluate, NSInv
      <4> QED BY <4>1 DEF ServersInSync
    <3> QED BY <3>1, <3>2
  <2>3. \A s : Heard(s)' <=> Heard(s)
    BY DEF Heard, Bad, Good
  <2> QED BY <2>1, <2>2, <2>3 DEF NSInv, NSPhases
<1>6. CASE UNCHANGED vars
  BY <1>6, NSFrame DEF vars
<1> QED BY <1>1, <1>2, <1>3, <1>4, <1>5, <1>6 DEF Next, Gather

\* The nameservers count as healthy exactly when all were resolved and answered
\* with authority and agree, and one that does not answer with authority always
\* fails the check (EvaluateNSHealth in dns.go).
THEOREM NameserversAreInSync == Spec => []ServersInSync
<1>1. NSInv => ServersInSync
  BY DEF NSInv
<1> QED BY <1>1, InitNS, NextNS, PTL DEF Spec

-----------------------------------------------------------------------------
(* The listing.                                                            *)

\* What a check is to report of a fault and of an outage, as the code takes
\* them.
Result(configured, status, unavailable, fault, outage) ==
  IF configured
  THEN /\ status \in {"ok", "warning", "failed", "mismatch", "hijacked"}
       /\ status = "ok" <=> ~fault /\ ~outage
       /\ unavailable <=> outage /\ ~fault
  ELSE status = "unknown"

EmailResult ==
  Result(target.email # NoEmail, emailState.status, emailState.unavailable,
         EmailFault(target.email), EmailTrouble(target.email))
DelegationResult ==
  Result(isDelegatedZone(target), delegationState.status, delegationState.unavailable,
         DelegationFault(target.nameservers), DelegationOutage)
DNSSECResult ==
  Result(target.dnssec, dnssecState.status, dnssecState.networkError,
         DNSSECFault \/ DoHOutage, DNSSECOutage)
NSResult ==
  Result(target.nameservers # <<>>, nsState.status, nsState.unavailable,
         NSFault \/ KeysOutOfReach, NSOutage)

Resolved ==
  /\ \A i \in DOMAIN heard : heard[i].lookup # "none"
  /\ phase \in {"soa", "nsKeys"} => server.lookup # "none"

ListingInv ==
  /\ EmailInv /\ DelegationInv /\ DNSSECInv /\ NSInv
  /\ Resolved
  /\ phase = "done" => DelegationResult /\ DNSSECResult /\ NSResult

\* The listing follows from what the checks report, whichever are configured.
LEMMA ListedByResults ==
  ASSUME EmailResult, DelegationResult, DNSSECResult, NSResult
  PROVE  CASE Issue -> aggregateDomainStatus \in {"error", "warning"}
           [] ~Issue /\ (Outage \/ TakenForOutage) -> aggregateDomainStatus = "unavailable"
           [] OTHER -> aggregateDomainStatus =
                         IF FirstPhase(target) = "evaluate" THEN "unknown" ELSE "ok"
<1> DEFINE e == [status |-> emailState.status, unavailable |-> emailState.unavailable]
           d == [status |-> delegationState.status, unavailable |-> delegationState.unavailable]
           k == [status |-> dnssecState.status, unavailable |-> dnssecState.networkError]
           n == [status |-> nsState.status, unavailable |-> nsState.unavailable]
           Known == {"ok", "warning", "failed", "mismatch", "hijacked"}
           present == {c \in CheckStates : c.status # "unknown"}
           statuses == {c.status : c \in {x \in present : ~x.unavailable}}
           anyOutage == Outage \/ TakenForOutage
<1>1. /\ e.status = emailState.status /\ (e.unavailable = emailState.unavailable)
      /\ d.status = delegationState.status /\ (d.unavailable = delegationState.unavailable)
      /\ k.status = dnssecState.status /\ (k.unavailable = dnssecState.networkError)
      /\ n.status = nsState.status /\ (n.unavailable = nsState.unavailable)
  OBVIOUS
<1>2. CheckStates = {e, d, k, n}
  BY DEF CheckStates
<1> HIDE DEF e, d, k, n
\* A check that is configured is present, and has its say.
<1>3. /\ target.email # NoEmail <=> e \in present
      /\ isDelegatedZone(target) <=> d \in present
      /\ target.dnssec <=> k \in present
      /\ target.nameservers # <<>> <=> n \in present
  BY <1>1, <1>2 DEF EmailResult, DelegationResult, DNSSECResult, NSResult, Result
<1>4. /\ e \in present => /\ e.status \in Known
                          /\ e.status = "ok" <=> ~EmailFault(target.email) /\ ~EmailTrouble(target.email)
                          /\ e.unavailable <=> EmailTrouble(target.email) /\ ~EmailFault(target.email)
      /\ d \in present => /\ d.status \in Known
                          /\ d.status = "ok" <=> ~DelegationFault(target.nameservers) /\ ~DelegationOutage
                          /\ d.unavailable <=> DelegationOutage /\ ~DelegationFault(target.nameservers)
      /\ k \in present => /\ k.status \in Known
                          /\ k.status = "ok" <=> ~(DNSSECFault \/ DoHOutage) /\ ~DNSSECOutage
                          /\ k.unavailable <=> DNSSECOutage /\ ~(DNSSECFault \/ DoHOutage)
      /\ n \in present => /\ n.status \in Known
                          /\ n.status = "ok" <=> ~(NSFault \/ KeysOutOfReach) /\ ~NSOutage
                          /\ n.unavailable <=> NSOutage /\ ~(NSFault \/ KeysOutOfReach)
  BY <1>1, <1>3 DEF EmailResult, DelegationResult, DNSSECResult, NSResult, Result
<1>5. \A c \in present : c \in {e, d, k, n}
  BY <1>2
<1>6. Issue <=>
        \/ e \in present /\ EmailFault(target.email)
        \/ d \in present /\ DelegationFault(target.nameservers)
        \/ k \in present /\ (DNSSECFault \/ DoHOutage)
        \/ n \in present /\ (NSFault \/ KeysOutOfReach)
  BY <1>3 DEF Issue, ConfirmedFault, TakenForFault
<1>7. anyOutage <=>
        \/ e \in present /\ EmailTrouble(target.email)
        \/ d \in present /\ DelegationOutage
        \/ k \in present /\ DNSSECOutage
        \/ n \in present /\ NSOutage
  BY <1>3 DEF Outage, TakenForOutage, EmailTrouble
<1> HIDE DEF anyOutage
<1>8. aggregateDomainStatus =
        CASE statuses \cap {"failed", "mismatch", "hijacked"} # {} -> "error"
          [] statuses \subseteq {"warning", "ok"} /\ "warning" \in statuses -> "warning"
          [] statuses \subseteq {"ok"} /\ \E c \in present : c.unavailable -> "unavailable"
          [] OTHER -> IF statuses = {} THEN "unknown" ELSE "ok"
  BY DEF aggregateDomainStatus
<1> HIDE DEF present
<1>9. /\ \A c \in present : c.status \in Known
      /\ Issue <=> \E c \in present : c.status # "ok" /\ ~c.unavailable
      /\ ~Issue => (anyOutage <=> \E c \in present : c.unavailable)
  <2>1. \A c \in present : c.status \in Known
    BY <1>4, <1>5
  <2>2. ASSUME Issue PROVE \E c \in present : c.status # "ok" /\ ~c.unavailable
    BY <2>2, <1>4, <1>6
  <2>3. ASSUME ~Issue, NEW c \in present, c.status # "ok"
        PROVE  c.unavailable
    BY <2>3, <1>4, <1>5, <1>6
  <2>4. ASSUME ~Issue, anyOutage PROVE \E c \in present : c.unavailable
    BY <2>4, <1>4, <1>6, <1>7
  <2>5. ASSUME ~Issue, NEW c \in present, c.unavailable PROVE anyOutage
    BY <2>5, <1>4, <1>5, <1>7
  <2> QED BY <2>1, <2>2, <2>3, <2>4, <2>5
<1>10. FirstPhase(target) = "evaluate" <=> present = {}
  <2>1. FirstPhase(target) = "evaluate" <=>
          target.email = NoEmail /\ ~isDelegatedZone(target) /\ ~target.dnssec
          /\ target.nameservers = <<>>
    BY DEF FirstPhase, AfterEmail, AfterDelegation, AfterDNSSEC
  <2> QED BY <2>1, <1>3, <1>5
<1>s. /\ \A c \in present : ~c.unavailable => c.status \in statuses
      /\ \A s \in statuses : \E c \in present : ~c.unavailable /\ c.status = s
  OBVIOUS
<1> HIDE DEF statuses
<1>11. CASE Issue
  <2>1. PICK s \in statuses : s # "ok"
    BY <1>9, <1>11, <1>s
  <2>2. statuses \subseteq Known
    BY <1>9, <1>s
  <2>3. CASE statuses \cap {"failed", "mismatch", "hijacked"} # {}
    <3>1. aggregateDomainStatus = "error"
      BY <1>8, <2>3
    <3> QED BY <1>11, <3>1
  <2>4. CASE statuses \cap {"failed", "mismatch", "hijacked"} = {}
    <3>1. statuses \subseteq {"warning", "ok"} /\ "warning" \in statuses
      BY <2>1, <2>2, <2>4
    <3>2. aggregateDomainStatus = "warning"
      BY <1>8, <2>4, <3>1
    <3> QED BY <1>11, <3>2
  <2> QED BY <2>3, <2>4
<1>12. CASE ~Issue /\ anyOutage
  <2>1. statuses \subseteq {"ok"}
    BY <1>9, <1>12, <1>s
  <2>2. \E c \in present : c.unavailable
    BY <1>9, <1>12
  <2>3. aggregateDomainStatus = "unavailable"
    BY <1>8, <2>1, <2>2
  <2> QED BY <1>12, <2>3 DEF anyOutage
<1>13. CASE ~Issue /\ ~anyOutage
  <2>1. statuses \subseteq {"ok"} /\ ~\E c \in present : c.unavailable
    BY <1>9, <1>13, <1>s
  <2>2. aggregateDomainStatus = IF statuses = {} THEN "unknown" ELSE "ok"
    BY <1>8, <2>1
  <2>3. statuses = {} <=> present = {}
    BY <2>1, <1>s
  <2> QED BY <1>10, <1>13, <2>2, <2>3 DEF anyOutage
<1> QED BY <1>11, <1>12, <1>13 DEF anyOutage

\* An issue is confirmed exactly when the queries have shown a fault, or left the
\* keys of a server out of reach.
LEMMA IssueIsFault ==
  ASSUME NSInv, Resolved
  PROVE  confirmedNSIssue(Snapshots) <=> NSFault \/ KeysOutOfReach
<1> DEFINE S == Snapshots
           n == Len(heard)
           Trouble(i) == \/ ~S[i].unresolved /\ (S[i].unreachable \/ S[i].partial)
                         \/ ~S[i].unreachable /\ ~InSync(S[i])
                         \/ KeyTrouble(S[i])
           Fault(i) == LET s == heard[i] IN
                       \/ KeysMissing(s)
                       \/ Reached(s) /\ ~Authoritative(s)
                       \/ /\ s.lookup # "failed"
                          /\ \/ s.lookup = "nxdomain" \/ ~Authoritative(s)
                             \/ \E j \in DOMAIN s.replies : ~Good(s.replies[j])
<1>1. /\ n \in Nat /\ DOMAIN heard = 1 .. n
      /\ \A i \in 1 .. n : Heard(heard[i])
  BY DEF NSInv
<1>2. DOMAIN S = 1 .. n /\ \A i \in 1 .. n : S[i] = NSSnapshot(heard[i])
  BY <1>1 DEF Snapshots
<1>3. \A i \in 1 .. n :
        /\ InSync(S[i]) <=> Authoritative(heard[i])
        /\ Authoritative(heard[i]) => SerialsHeard(heard[i]) = {S[i].serial}
        /\ Authoritative(heard[i]) => Reached(heard[i])
  BY <1>1, <1>2, SnapshotInSync
<1>4. \A i \in 1 .. n :
        /\ S[i].unreachable = ~Reached(heard[i])
        /\ S[i].partial = (heard[i].lookup # "complete" \/ queryError(heard[i]))
        /\ S[i].unresolved = (heard[i].lookup = "failed")
        /\ S[i].keyError = (heard[i].keys = Failure)
        /\ S[i].keys = heard[i].keys.records
  BY <1>2 DEF NSSnapshot
<1>5. \A i \in 1 .. n : /\ heard[i].keys \in KeyReplies
                        /\ heard[i].lookup \in {"complete", "nxdomain", "failed"}
  BY <1>1 DEF Heard, NSServers, Resolved
<1>6. \A a \in KeyReplies, b \in KeyReplies :
        /\ a = Failure \/ a.records = {} <=> ~Answered(a) \/ a.records = {}
        /\ a.records # {} /\ b.records # {} => (a = b <=> a.records = b.records)
  BY DEF KeyReplies, Unasked, Failure, Records, Reply, Answered
<1>7. \A i \in 1 .. n : Reached(heard[i]) /\ ~Authoritative(heard[i]) => queryError(heard[i])
  BY DEF Reached, Authoritative, queryError
<1>8. confirmedNSIssue(S) <=>
        \E i \in 1 .. n : Trouble(i) \/ SerialDiffers(S, i) \/ KeysDiffer(S, i)
  BY <1>2 DEF confirmedNSIssue
<1>9. NSFault \/ KeysOutOfReach <=> Disagreement \/ \E i \in 1 .. n : Fault(i)
  <2>1. NSFault <=>
          \/ Disagreement
          \/ \E i \in 1 .. n :
               LET s == heard[i] IN
               \/ Reached(s) /\ KeysMissing(s)
               \/ Reached(s) /\ ~Authoritative(s)
               \/ /\ s.lookup # "failed"
                  /\ \/ s.lookup = "nxdomain" \/ ~Authoritative(s)
                     \/ \E j \in DOMAIN s.replies : ~Good(s.replies[j])
    BY <1>1 DEF NSFault
  <2>2. KeysOutOfReach <=>
          \E i \in 1 .. n : /\ heard[i].lookup = "failed" /\ ~Reached(heard[i])
                            /\ KeysMissing(heard[i])
    BY <1>1 DEF KeysOutOfReach
  <2>3. \A i \in 1 .. n : ~Reached(heard[i]) => ~Authoritative(heard[i])
    BY <1>3
  <2> QED BY <2>1, <2>2, <2>3
<1> HIDE DEF S
<1>10. \A i \in 1 .. n : KeyTrouble(S[i]) <=> KeysMissing(heard[i])
  BY <1>4, <1>5, <1>6 DEF KeyTrouble, KeysMissing
<1>11. \A i \in 1 .. n : Trouble(i) <=> Fault(i)
  BY <1>3, <1>4, <1>5, <1>7, <1>10 DEF queryError
<1>12. ASSUME NEW m \in 1 .. n, InSync(S[m])
       PROVE  \E b \in 1 .. n : InSync(S[b]) /\ Baseline(S) = S[b]
  BY <1>1, <1>2, <1>12, BaselineInSync
<1>d. Disagreement <=>
        \E i, j \in 1 .. n :
          /\ Authoritative(heard[i]) /\ Authoritative(heard[j])
          /\ \/ SerialsHeard(heard[i]) # SerialsHeard(heard[j])
             \/ target.dnssec /\ heard[i].keys # heard[j].keys
  BY <1>1 DEF Disagreement
<1>13. ASSUME NEW m \in 1 .. n, SerialDiffers(S, m) \/ KeysDiffer(S, m)
       PROVE  Disagreement
  <2>1. InSync(S[m])
    BY <1>13 DEF SerialDiffers, KeysDiffer
  <2>2. PICK b \in 1 .. n : InSync(S[b]) /\ Baseline(S) = S[b]
    BY <2>1, <1>12
  <2>3. S[m].serial # S[b].serial \/ (target.dnssec /\ S[m].keys # S[b].keys)
    BY <1>13, <2>2 DEF SerialDiffers, KeysDiffer
  <2>4. S[m].serial # S[b].serial => SerialsHeard(heard[m]) # SerialsHeard(heard[b])
    BY <1>3, <2>1, <2>2
  <2>5. S[m].keys # S[b].keys => heard[m].keys # heard[b].keys
    BY <1>4
  <2> QED BY <1>3, <1>d, <2>1, <2>2, <2>3, <2>4, <2>5
<1>14. ASSUME NEW i \in 1 .. n, NEW j \in 1 .. n,
              Authoritative(heard[i]), Authoritative(heard[j]),
              \/ SerialsHeard(heard[i]) # SerialsHeard(heard[j])
              \/ target.dnssec /\ heard[i].keys # heard[j].keys
       PROVE  \E m \in 1 .. n : Trouble(m) \/ SerialDiffers(S, m) \/ KeysDiffer(S, m)
  <2>1. InSync(S[i]) /\ InSync(S[j])
    BY <1>3, <1>14
  <2>2. CASE S[i].serial # S[j].serial
    BY <2>1, <2>2 DEF SerialDiffers
  <2>3. CASE target.dnssec /\ S[i].keys # S[j].keys
    BY <2>1, <2>3 DEF KeysDiffer
  <2>4. CASE S[i].serial = S[j].serial /\ ~(target.dnssec /\ S[i].keys # S[j].keys)
    <3>1. SerialsHeard(heard[i]) = SerialsHeard(heard[j])
      BY <1>3, <1>14, <2>4
    <3>2. target.dnssec /\ heard[i].keys # heard[j].keys /\ S[i].keys = S[j].keys
      BY <1>14, <2>4, <3>1
    <3>3. heard[i].keys.records = {}
      BY <1>4, <1>5, <1>6, <3>2
    <3>4. KeyTrouble(S[i])
      BY <1>10, <3>2, <3>3 DEF KeysMissing
    <3> QED BY <3>4
  <2> QED BY <2>2, <2>3, <2>4
<1> HIDE DEF Trouble, Fault
<1>15. Disagreement => \E m \in 1 .. n : Trouble(m) \/ SerialDiffers(S, m) \/ KeysDiffer(S, m)
  BY <1>d, <1>14
<1>16. confirmedNSIssue(S) <=> NSFault \/ KeysOutOfReach
  BY <1>8, <1>9, <1>11, <1>13, <1>15
<1> QED BY <1>16 DEF S

\* A server is resolved before it is asked.
LEMMA ResolvesFirst ==
  ASSUME NSInv, Resolved, NSStep
  PROVE  Resolved'
<1>1. heard \in Seq(NSServers) /\ server \in NSServers
  BY DEF NSInv
<1>2. ASSUME NEW s, s.lookup # "none", NextNameserver(s)
      PROVE  Resolved'
  <2>1. heard' = Append(heard, s) /\ phase' \in {"evaluate", "servers"}
    BY <1>2 DEF NextNameserver
  <2>2. \A i \in DOMAIN heard' : heard'[i] = s \/ (i \in DOMAIN heard /\ heard'[i] = heard[i])
    BY <1>1, <2>1
  <2> QED BY <1>2, <2>1, <2>2 DEF Resolved
<1>3. CASE ResolveNameserver
  <2>1. PICK lookup \in {"complete", "nxdomain", "failed"}, n \in {0} \cup AddressCounts(target) :
          LET found == [server EXCEPT !.lookup = lookup, !.addresses = n] IN
          IF n = 0 THEN NextNameserver(found)
          ELSE server' = found /\ UNCHANGED heard
    BY <1>3 DEF ResolveNameserver
  <2> DEFINE found == [server EXCEPT !.lookup = lookup, !.addresses = n]
  <2>2. found.lookup # "none"
    BY <1>1 DEF NSServers
  <2> HIDE DEF found
  <2>3. CASE n = 0
    BY <1>2, <2>1, <2>2, <2>3 DEF found
  <2>4. CASE n # 0
    <3>1. server' = found /\ UNCHANGED heard
      BY <2>1, <2>4 DEF found
    <3> QED BY <2>2, <3>1 DEF Resolved
  <2> QED BY <2>3, <2>4
<1>4. CASE QuerySOA
  <2>1. PICK reply : LET asked == [server EXCEPT !.replies = Append(@, reply)] IN
          NextNameserver(asked) \/ (server' = asked /\ UNCHANGED heard)
    BY <1>4 DEF QuerySOA
  <2> DEFINE asked == [server EXCEPT !.replies = Append(@, reply)]
  <2>2. asked.lookup # "none"
    BY <1>1, <1>4 DEF NSServers, Resolved, QuerySOA
  <2> HIDE DEF asked
  <2>3. CASE NextNameserver(asked)
    BY <1>2, <2>2, <2>3
  <2>4. CASE server' = asked /\ UNCHANGED heard
    BY <2>2, <2>4 DEF Resolved
  <2> QED BY <2>1, <2>3, <2>4 DEF asked
<1>5. CASE QueryNSKeys
  <2>1. PICK reply : NextNameserver([server EXCEPT !.keys = reply])
    BY <1>5 DEF QueryNSKeys
  <2> DEFINE asked == [server EXCEPT !.keys = reply]
  <2>2. asked.lookup # "none"
    BY <1>1, <1>5 DEF NSServers, Resolved, QueryNSKeys
  <2> HIDE DEF asked
  <2> QED BY <1>2, <2>1, <2>2 DEF asked
<1> QED BY <1>3, <1>4, <1>5 DEF NSStep

LEMMA PromotedKnown ==
  ASSUME NEW findings
  PROVE  PromotedStatus(findings) \in {"ok", "warning", "failed"}
  BY DEF PromotedStatus

\* What the evaluation of each check reports of a fault and of an outage.
LEMMA DelegationReports ==
  ASSUME DelegationInv, Evaluate
  PROVE  DelegationResult'
<1>1. /\ UNCHANGED <<target, delegation>> /\ phase = "evaluate" /\ phase' = "done"
      /\ delegationState' = IF isDelegatedZone(target)
                            THEN EvaluateNSDelegation(target.nameservers)
                            ELSE delegationState
  BY DEF Evaluate
<1>2. CASE ~isDelegatedZone(target)
  <2>1. delegationState'.status = "unknown"
    BY <1>1, <1>2 DEF DelegationInv, NoVerdict
  <2> QED BY <1>1, <1>2, <2>1 DEF DelegationResult, Result
<1>3. CASE isDelegatedZone(target)
  <2>1. delegation \in DelegationReplies /\ delegation.err # "unasked"
        /\ Normalized(target.nameservers)
    BY <1>1, <1>3, TargetNormalized DEF DelegationInv
  <2>2. delegationState'.status = "ok"
          <=> ~DelegationOutage /\ ~DelegationFault(target.nameservers)
    BY <1>1, <1>3, <2>1, DelegationVerdict
  <2>3. delegationState'.unavailable <=> DelegationOutage
    BY <1>1, <1>3, <2>1, DelegationVerdict
  <2>4. delegationState'.status \in {"ok", "warning", "failed"}
    BY <1>1, <1>3, PromotedKnown DEF EvaluateNSDelegation
  <2>5. DelegationOutage => ~DelegationFault(target.nameservers)
    BY DEF DelegationOutage, DelegationFault, Answered
  <2>6. /\ DelegationOutage' <=> DelegationOutage
        /\ DelegationFault(target.nameservers)' <=> DelegationFault(target.nameservers)
    BY <1>1 DEF DelegationOutage, DelegationFault, Answered
  <2> QED
    BY <1>1, <1>3, <2>2, <2>3, <2>4, <2>5, <2>6 DEF DelegationResult, Result
<1> QED BY <1>2, <1>3

LEMMA DNSSECReports ==
  ASSUME DNSSECInv, Evaluate
  PROVE  DNSSECResult'
<1>1. /\ UNCHANGED <<target, ds, keys, signatures, doh>>
      /\ phase = "evaluate" /\ phase' = "done"
      /\ dnssecState' = IF target.dnssec THEN EvaluateDNSSEC ELSE dnssecState
  BY DEF Evaluate
<1>2. CASE ~target.dnssec
  <2>1. dnssecState'.status = "unknown"
    BY <1>1, <1>2 DEF DNSSECInv, NoChain
  <2> QED BY <1>1, <1>2, <2>1 DEF DNSSECResult, Result
<1>3. CASE target.dnssec
  <2>1. dnssecState' = EvaluateDNSSEC
    BY <1>1, <1>3
  <2>2. /\ dnssecState'.status \in {"ok", "failed"}
        /\ dnssecState'.networkError = (Failure \in {ds, keys})
        /\ dnssecState' # NoChain
    BY <2>1 DEF EvaluateDNSSEC, NoChain
  <2>3. DNSSECVerdictIsTheChains'
    BY <1>1, <1>3, <2>1, DNSSECVerdict
  <2>4. dnssecState'.status = "ok" <=> Intact' /\ Vouched'
    BY <2>2, <2>3 DEF DNSSECVerdictIsTheChains
  <2>5. /\ DNSSECOutage' <=> Failure \in {ds, keys} \/ DoHOutage'
        /\ DNSSECFault' <=> ~DNSSECOutage' /\ ~(Intact' /\ Vouched')
    BY <1>1 DEF DNSSECOutage, DNSSECFault
  <2>6. Intact' => Failure \notin {ds, keys}
    BY <1>1 DEF Intact, SignedBy, Answered, Failure, Reply
  <2>7. /\ DoHOutage' => Intact'
        /\ DoHOutage' => ~Vouched'
    BY DEF DoHOutage, Vouched, Answered, Failure, Reply
  <2>8. (Failure \in {ds, keys}) \in BOOLEAN
    OBVIOUS
  <2>9. dnssecState'.status = "ok" <=> ~(DNSSECFault' \/ DoHOutage') /\ ~DNSSECOutage'
    BY <2>4, <2>5, <2>6, <2>7
  <2>10. dnssecState'.networkError <=> DNSSECOutage' /\ ~(DNSSECFault' \/ DoHOutage')
    BY <2>2, <2>5, <2>6, <2>7, <2>8
  <2> QED
    BY <1>1, <1>3, <2>2, <2>9, <2>10 DEF DNSSECResult, Result
<1> QED BY <1>2, <1>3

LEMMA NSReports ==
  ASSUME NSInv, Resolved, Evaluate
  PROVE  NSResult'
<1>1. /\ UNCHANGED <<target, heard>> /\ phase = "evaluate" /\ phase' = "done"
      /\ nsState' = IF target.nameservers = <<>> THEN nsState ELSE EvaluateNSHealth
  BY DEF Evaluate
<1>2. CASE target.nameservers = <<>>
  <2>1. nsState'.status = "unknown"
    BY <1>1, <1>2 DEF NSInv
  <2> QED BY <1>1, <1>2, <2>1 DEF NSResult, Result
<1>3. CASE target.nameservers # <<>>
  <2>1. nsState' = EvaluateNSHealth
    BY <1>1, <1>3
  <2>2. nsState'.status \in {"ok", "warning", "failed"}
    BY <2>1, PromotedKnown DEF EvaluateNSHealth
  <2>3. ServersInSync'
    BY <1>1, <1>3, <2>1, NSVerdict
  <2>4. /\ Disagreement' <=> Disagreement
        /\ NSOutage' <=> NSOutage
        /\ NSFault' <=> NSFault
        /\ KeysOutOfReach' <=> KeysOutOfReach
        /\ \A s : (Authoritative(s)' <=> Authoritative(s)) /\ (Good(s)' <=> Good(s))
    BY <1>1 DEF Disagreement, NSOutage, NSFault, KeysOutOfReach, KeysMissing, Good,
                Authoritative, SerialsHeard, Reached, Answered
  <2>5. nsState'.status = "ok" <=>
          /\ \A i \in DOMAIN heard : /\ heard[i].lookup = "complete"
                                     /\ heard[i].replies # <<>> /\ Good(heard[i].replies[1])
                                     /\ target.dnssec => heard[i].keys.records # {}
          /\ ~Disagreement
    BY <1>1, <2>2, <2>3, <2>4 DEF ServersInSync
  <2>6. \A i \in DOMAIN heard :
          /\ Heard(heard[i]) /\ heard[i].keys \in KeyReplies
          /\ heard[i].lookup \in {"complete", "nxdomain", "failed"}
          /\ Authoritative(heard[i]) /\ ~queryError(heard[i])
               <=> heard[i].replies # <<>> /\ Good(heard[i].replies[1])
    <3>1. \A i \in DOMAIN heard : Heard(heard[i])
      BY DEF NSInv
    <3> QED BY <3>1, FirstAnswers DEF Heard, NSServers, Resolved
  <2>7. \A a \in KeyReplies : a.records # {} <=> ~(~Answered(a) \/ a.records = {})
    BY DEF KeyReplies, Unasked, Failure, Records, Reply, Answered
  <2>8. nsState'.status = "ok" <=> ~(NSFault \/ KeysOutOfReach) /\ ~NSOutage
    <3>0. \A i \in DOMAIN heard : Authoritative(heard[i]) => Reached(heard[i])
      BY <2>6, SnapshotInSync
    <3>1. NSFault \/ KeysOutOfReach \/ NSOutage <=>
            \/ Disagreement
            \/ \E i \in DOMAIN heard :
                 \/ target.dnssec /\ heard[i].keys.records = {}
                 \/ heard[i].lookup # "complete"
                 \/ ~Authoritative(heard[i]) \/ queryError(heard[i])
      BY <2>6, <2>7, <3>0 DEF NSFault, KeysOutOfReach, KeysMissing, NSOutage, queryError
    <3> QED BY <2>5, <2>6, <3>1
  <2>9. /\ nsState'.unavailable <=> /\ nsState'.status # "ok"
                                    /\ \E i \in DOMAIN Snapshots : Snapshots[i].unresolved
                                    /\ ~confirmedNSIssue(Snapshots)
    BY <2>1 DEF EvaluateNSHealth
  <2>10. (\E i \in DOMAIN Snapshots : Snapshots[i].unresolved) <=> NSOutage
    BY DEF Snapshots, NSSnapshot, NSOutage
  <2>11. confirmedNSIssue(Snapshots) <=> NSFault \/ KeysOutOfReach
    BY IssueIsFault
  <2>12. nsState'.unavailable <=> NSOutage /\ ~(NSFault \/ KeysOutOfReach)
    BY <2>8, <2>9, <2>10, <2>11
  <2> QED BY <1>1, <1>3, <2>2, <2>4, <2>8, <2>12 DEF NSResult, Result
<1> QED BY <1>2, <1>3

LEMMA InitListing == Init => ListingInv
<1> SUFFICES ASSUME Init PROVE ListingInv
  OBVIOUS
<1>1. EmailInv /\ DelegationInv /\ DNSSECInv /\ NSInv
  BY InitEmail, InitDelegation, InitDNSSEC, InitNS
<1>2. phase \notin {"soa", "nsKeys", "done"}
  BY Handover DEF Init
<1>3. heard = <<>>
  BY DEF Init, NSInit
<1> QED BY <1>1, <1>2, <1>3 DEF ListingInv, Resolved

LEMMA NextListing == ListingInv /\ [Next]_vars => ListingInv'
<1> SUFFICES ASSUME ListingInv, [Next]_vars PROVE ListingInv'
  OBVIOUS
<1>1. EmailInv' /\ DelegationInv' /\ DNSSECInv' /\ NSInv'
  BY NextEmail, NextDelegation, NextDNSSEC, NextNS DEF ListingInv
<1>2. CASE Gather
  <2>1. phase' # "done"
    BY <1>2, EmailStepPhases, DelegationStepPhases, DNSSECStepPhases, NSStepPhases, Handover
    DEF Gather, EmailPhases, DelegationPhases, DNSSECPhases, NSPhases
  <2>2. CASE NSStep
    BY <1>1, <2>1, <2>2, ResolvesFirst DEF ListingInv
  <2>3. CASE UNCHANGED nsVars /\ phase' \notin {"soa", "nsKeys"}
    BY <1>1, <2>1, <2>3 DEF ListingInv, Resolved, nsVars
  <2>4. NSStep \/ (UNCHANGED nsVars /\ phase' \notin {"soa", "nsKeys"})
    BY <1>2, EmailStepPhases, DelegationStepPhases, DNSSECStepPhases, Handover
    DEF Gather, EmailPhases, DelegationPhases, DNSSECPhases
  <2> QED BY <2>2, <2>3, <2>4
<1>3. CASE Evaluate
  <2>1. DelegationResult' /\ DNSSECResult' /\ NSResult'
    BY <1>3, DelegationReports, DNSSECReports, NSReports DEF ListingInv
  <2>2. Resolved'
    BY <1>3 DEF Evaluate, ListingInv, Resolved
  <2> QED BY <1>1, <2>1, <2>2 DEF ListingInv
<1>4. CASE UNCHANGED vars
  <2>1. Resolved' /\ phase' = phase
    BY <1>4 DEF vars, nsVars, ListingInv, Resolved
  <2>2. UNCHANGED <<target, delegation, delegationState, ds, keys, signatures, doh,
                    dnssecState, heard, nsState>>
    BY <1>4 DEF vars, nsVars, dnssecVars
  <2>3. DelegationResult => DelegationResult'
    BY <2>2 DEF DelegationResult, Result, DelegationOutage, DelegationFault, Answered
  <2>4. DNSSECResult => DNSSECResult'
    BY <2>2 DEF DNSSECResult, Result, DNSSECOutage, DoHOutage, DNSSECFault, Vouched, Intact,
                SignedBy, Answered
  <2>5. NSResult => NSResult'
    <3>1. UNCHANGED <<target, heard, nsState>>
      BY <2>2
    <3>2. /\ (NSFault' <=> NSFault) /\ (NSOutage' <=> NSOutage)
          /\ KeysOutOfReach' <=> KeysOutOfReach
      BY <3>1 DEF NSOutage, NSFault, KeysOutOfReach, KeysMissing, Disagreement, Good,
                  Authoritative, SerialsHeard, Reached, Answered
    <3> QED BY <3>1, <3>2 DEF NSResult, Result
  <2> QED BY <1>1, <2>1, <2>3, <2>4, <2>5 DEF ListingInv
<1> QED BY <1>2, <1>3, <1>4 DEF Next

\* The dashboard lists a domain under Issues exactly when some check has confirmed
\* a fault or met one of the two outages the code takes for a fault, whatever other
\* lookups failed; otherwise under Unavailable exactly when a lookup failed or the
\* DMARC policy is malformed; and as healthy or unknown when there was nothing of
\* all this (evaluateFastDomainChecksWithEmail in runtime.go and
\* aggregateDomainStatus in index.html).
THEOREM DomainsAreListedByFindings == Spec => []ListedByItsFindings
<1>1. ListingInv => ListedByItsFindings
  <2> SUFFICES ASSUME ListingInv, phase = "done" PROVE ListedByItsFindings
    BY DEF ListedByItsFindings
  <2>1. EmailResult
    <3>1. CASE target.email = NoEmail
      <4>1. emailState.status = "unknown"
        BY <3>1 DEF ListingInv, EmailInv, NoState
      <4> QED BY <3>1, <4>1 DEF EmailResult, Result
    <3>2. CASE target.email # NoEmail
      BY <3>2, EmailChecked DEF ListingInv, EmailResult, Result
    <3> QED BY <3>1, <3>2
  <2>2. DelegationResult /\ DNSSECResult /\ NSResult
    BY DEF ListingInv
  <2> QED BY <2>1, <2>2, ListedByResults DEF ListedByItsFindings
<1> QED BY <1>1, InitListing, NextListing, PTL DEF Spec
=============================================================================
