----------------------------- MODULE Delegation -----------------------------
(***************************************************************************)
(* The check of a delegated zone (lookup.go): the nameservers of the       *)
(* parent zone are resolved and asked for the zone's delegation, which is  *)
(* compared with the configured nameservers.                               *)
(***************************************************************************)
EXTENDS Failover

CONSTANTS
  MaxParents,     \* bound: addresses of the parent's nameservers
  Referrals       \* lists of nameservers a parent may answer with

ASSUME DelegationAssumption == MaxParents \in Nat /\ Referrals \subseteq Seq(Hostnames)

VARIABLES
  delegation,        \* what the parent said
  delegationState    \* the result

\* A query that brought no list of nameservers.
Without(err) == Reply(err, <<>>)

NoVerdict == [status |-> "unknown", code |-> "none", unavailable |-> FALSE]

DelegationInit ==
  /\ delegation = Without("unasked")
  /\ delegationState = NoVerdict

\* resolveRootZoneResolvers: the parent's nameservers cannot be looked up, or
\* have no address, or some of their addresses are found.
ResolveParents ==
  /\ phase = "parents"
  /\ \/ /\ delegation' = Without("failed")
        /\ phase' = AfterDelegation(target)
        /\ UNCHANGED query
     \/ /\ \E n \in 1 .. MaxParents : StartQuery(n)
        /\ phase' = "delegation"
        /\ UNCHANGED delegation
  /\ UNCHANGED <<target, delegationState>>

\* The referral may be in the answer or in the authority section.
QueryDelegation ==
  /\ phase = "delegation"
  /\ \/ NextServer /\ UNCHANGED <<phase, delegation>>
     \/ /\ phase' = AfterDelegation(target)
        /\ \/ GiveUp /\ delegation' = Without("failed")
           \/ /\ EndQuery
              /\ delegation' \in {Without("nxdomain")} \cup {Records(list) : list \in Referrals}
  /\ UNCHANGED <<target, delegationState>>

DelegationStep == ResolveParents \/ QueryDelegation

-----------------------------------------------------------------------------
(* EvaluateNSDelegation.                                                   *)

ObservedFindings(servers, observed) ==
  [i \in DOMAIN observed |->
     Finding(observed[i] \notin Answering(servers) \ Hidden(servers), "failed",
             IF observed[i] \in Hidden(servers) THEN "ns_hidden_exposed"
             ELSE "unauthorized_ns")]

\* Mutant: a configured server is missed only when the parent lists no other.
MissingFindings_AnyObserved(servers, observed) ==
  [i \in DOMAIN servers |->
     Finding(~servers[i].hidden /\ observed = <<>>, "failed", "expected_ns_missing")]

MissingFindings(servers, observed) ==
  [i \in DOMAIN servers |->
     Finding(/\ ~servers[i].hidden
             /\ \A j \in DOMAIN observed : observed[j] # servers[i].hostname,
             "failed", "expected_ns_missing")]

evaluateNameserverDelegation(servers, observed) ==
  IF servers = <<>> THEN <<>>
  ELSE ObservedFindings(servers, observed) \o MissingFindings(servers, observed)

EvaluateNSDelegation(servers) ==
  LET findings == evaluateNameserverDelegation(servers, delegation.records) IN
  IF ~Answered(delegation) \/ delegation.records = <<>>
  THEN [status |-> "failed", code |-> "dns_lookup_failed",
        unavailable |-> delegation.err = "failed"]
  ELSE [status |-> PromotedStatus(findings), code |-> PromotedCode(findings),
        unavailable |-> FALSE]

-----------------------------------------------------------------------------
(* What the queries have shown.                                            *)

DelegationOutage == delegation.err = "failed"

\* The parent has answered, and not with the configured nameservers.
DelegationFault(servers) ==
  \/ delegation.err = "nxdomain"
  \/ /\ Answered(delegation)
     /\ LET observed == {delegation.records[i] : i \in DOMAIN delegation.records} IN
        observed = {} \/ (servers # <<>> /\ observed # Answering(servers))
=============================================================================
