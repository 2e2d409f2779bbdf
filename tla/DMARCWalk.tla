------------------------------ MODULE DMARCWalk ------------------------------
(***************************************************************************)
(* fetchDMARCPolicy (dns.go): the policy of a domain is looked for at the  *)
(* domain itself and then towards the root, within a budget of queries.    *)
(* A node is named by its number of labels.  Of a record in the DMARC      *)
(* version only its psd tag matters ("u" when there is none), or that it   *)
(* is malformed; other records are as good as none.                        *)
(***************************************************************************)
EXTENDS DomainWorker

CONSTANTS
  PolicyAnswers,               \* sets of DMARC records a node may publish
  MaxDMARCQueries,             \* the literal bound of the loop
  MaxDMARCDiscoveryLabels,
  DMARCDiscoveryTargetLabels

ASSUME DMARCAssumption ==
  /\ DMARCDiscoveryTargetLabels \in Nat \ {0}
  /\ MaxDMARCDiscoveryLabels = DMARCDiscoveryTargetLabels + 1
  /\ MaxDMARCQueries = DMARCDiscoveryTargetLabels + 1
  /\ \A t \in Written : t.labels \in Nat \ {0}

VARIABLES
  node,     \* what each node asked so far has said
  walk,     \* the node to ask, the number of queries made, and the candidate
  policy    \* the result: an error, or the node whose record is taken (0: none)

dmarcVars == <<node, walk, policy>>

NoPolicy == [err |-> "none", at |-> 0]

DMARCInit ==
  /\ node = [k \in 1 .. target.labels |-> Unasked]
  /\ walk = [at |-> target.labels, queries |-> 0, candidate |-> 0]
  /\ policy = NoPolicy

\* selectDMARCPolicyRecord: several records are all discarded.
IsPolicy(reply) ==
  Answered(reply) /\ \E psd \in {"y", "n", "u"} : reply.records = {psd}
IsMalformed(reply) == Answered(reply) /\ reply.records = {"malformed"}

\* Mutant: a long name is resumed at the labels of the limit.
Parent_FromLimit(k) ==
  IF walk.queries = 0 /\ k > MaxDMARCDiscoveryLabels
  THEN MaxDMARCDiscoveryLabels ELSE k - 1

\* A long name is asked itself and then from its last labels on.
Parent(k) ==
  IF walk.queries = 0 /\ k > MaxDMARCDiscoveryLabels
  THEN DMARCDiscoveryTargetLabels ELSE k - 1

EndWalk(err, at) ==
  /\ policy' = [err |-> err, at |-> at]
  /\ phase' = "dkim"
  /\ UNCHANGED walk

WalkOn(candidate) ==
  IF walk.at = 1 \/ walk.queries + 1 = MaxDMARCQueries
  THEN EndWalk("none", candidate)
  ELSE /\ walk' = [at |-> Parent(walk.at), queries |-> walk.queries + 1,
                   candidate |-> candidate]
       /\ UNCHANGED <<policy, phase>>

\* Mutant: a record one label below a public suffix is not preferred to it.
TakePolicy_OwnSuffix(k, psd) ==
  CASE walk.queries = 0 \/ psd \in {"n", "y"} -> EndWalk("none", k)
    [] OTHER -> WalkOn(k)

\* The record found at node k ends the walk, or is the best one so far.
TakePolicy(k, psd) ==
  CASE walk.queries = 0 \/ psd = "n" -> EndWalk("none", k)
    [] walk.queries # 0 /\ psd = "y" ->
         EndWalk("none", IF walk.candidate = k + 1 THEN k + 1 ELSE k)
    [] OTHER -> WalkOn(k)

\* One pass of the loop.
QueryDMARC(reply) ==
  /\ phase = "dmarc"
  /\ node' = [node EXCEPT ![walk.at] = reply]
  /\ \/ reply.err = "failed" /\ EndWalk("failed", 0)
     \/ IsMalformed(reply) /\ EndWalk("malformed", 0)
     \/ IsPolicy(reply) /\ \E psd \in reply.records : TakePolicy(walk.at, psd)
     \/ /\ reply.err # "failed"
        /\ ~IsMalformed(reply)
        /\ ~IsPolicy(reply)
        /\ WalkOn(walk.candidate)

DMARCStep ==
  \E reply \in {NXDomain, Failure} \cup {Records(r) : r \in PolicyAnswers} :
    QueryDMARC(reply)
-----------------------------------------------------------------------------
(* What the walk is meant to find (RFC 9989, quoted in the code).          *)

\* The nodes a walk may ask: eight at most.
Path(n) ==
  {n} \cup 1 .. (IF n > MaxDMARCDiscoveryLabels THEN DMARCDiscoveryTargetLabels ELSE n)

\* A record that ends the walk: the domain's own, or one that says where the
\* organization begins.
Decisive(n, k) ==
  IsPolicy(node[k]) /\ (k = n \/ node[k].records \in {{"n"}, {"y"}})

\* The nodes above which nothing counts.
Scanned(n) == {k \in Path(n) : \A d \in Path(n) : Decisive(n, d) => d <= k}

\* The node one label below a public suffix, where an organization begins.
BelowSuffix(n, k) ==
  /\ {k - 1, k} \subseteq Scanned(n)
  /\ Decisive(n, k - 1) /\ node[k - 1].records = {"y"}
  /\ IsPolicy(node[k])

\* The policy at node k is that of the domain with n labels.
Governs(n, k) ==
  /\ k \in Scanned(n) /\ IsPolicy(node[k])
  /\ \/ BelowSuffix(n, k)
     \/ Decisive(n, k) /\ ~BelowSuffix(n, k + 1)
     \/ /\ \A d \in Path(n) : ~Decisive(n, d)
        /\ \A j \in Path(n) : IsPolicy(node[j]) => k <= j

Unreadable(k) == node[k].err = "failed" \/ IsMalformed(node[k])

\* The policy found is the one that governs the domain, within the budget of
\* queries and whatever public suffixes, discarded records and names that do
\* not exist lie on the way; a node that cannot be read is never passed over.
DMARCPolicyIsTheTrees ==
  LET n == target.labels IN
  phase # "dmarc" /\ node[n] # Unasked =>
    /\ policy.err # "none" <=> \E k \in Scanned(n) : Unreadable(k)
    /\ policy.err = "none" =>
         /\ \A k \in Scanned(n) : node[k] # Unasked
         /\ \A k \in Path(n) : Governs(n, k) <=> policy.at = k
=============================================================================
