---------------------------- MODULE DomainWorker ----------------------------
(***************************************************************************)
(* What the checks of one domain have in common: the domain as the         *)
(* configuration leaves it (config.go), the order in which its evidence is *)
(* gathered (gatherDomainEvidence in runtime.go), and what a query says.   *)
(* A query for text records is queryDNS: it says what the zone holds, that *)
(* the name does not exist, or that it failed (module DNSCheck shows from  *)
(* which observations).                                                    *)
(***************************************************************************)
EXTENDS Integers, Sequences, FiniteSets, ConditionTracker

CONSTANTS
  Written,             \* domains as they are written in the configuration
  NoEmail,             \* a domain without an email object
  NoProvider,          \* an email object without a provider
  Hostnames,           \* of nameservers
  MaxNetworkAttempts

ASSUME WorkerAssumption ==
  /\ MaxNetworkAttempts \in Nat \ {0}
  /\ \A t \in Written :
       t.nameservers \in Seq([hostname : Hostnames, hidden : BOOLEAN])

VARIABLES
  target,   \* the domain
  phase     \* which evidence is being gathered

-----------------------------------------------------------------------------
(* Configuration.  A domain is given by its number of labels and by the    *)
(* number of labels of its root_zone, 0 for a domain that is registered    *)
(* and not delegated.                                                      *)

isDelegatedZone(t) == t.rootZone # 0

Answering(servers) ==
  {servers[i].hostname : i \in {j \in DOMAIN servers : ~servers[j].hidden}}

Hidden(servers) ==
  {servers[i].hostname : i \in {j \in DOMAIN servers : servers[j].hidden}}

\* Mutant: a hostname may be listed twice.
normalizeDomainNameservers_Repeated(servers) ==
  servers # <<>> => Answering(servers) # {}

normalizeDomainNameservers(servers) ==
  /\ \A i, j \in DOMAIN servers : servers[i].hostname = servers[j].hostname => i = j
  /\ servers # <<>> => Answering(servers) # {}

normalizeDomainMetadata(t) == isDelegatedZone(t) => t.rootZone < t.labels

normalizeDomainEmail(email) == email.provider = NoProvider \/ email.mx = {}

Domains ==
  {t \in Written : /\ normalizeDomainNameservers(t.nameservers)
                   /\ normalizeDomainMetadata(t)
                   /\ t.email # NoEmail => normalizeDomainEmail(t.email)}

-----------------------------------------------------------------------------
(* What is gathered next: a check that is not configured is passed over.   *)

AfterDNSSEC(t) == IF t.nameservers # <<>> THEN "servers" ELSE "evaluate"
AfterDelegation(t) == IF t.dnssec THEN "resolvers" ELSE AfterDNSSEC(t)
AfterEmail(t) == IF isDelegatedZone(t) THEN "parents" ELSE AfterDelegation(t)
FirstPhase(t) == IF t.email # NoEmail THEN "mx" ELSE AfterEmail(t)

-----------------------------------------------------------------------------
(* What a query says.                                                      *)

Reply(err, records) == [err |-> err, records |-> records]
Records(records) == Reply("none", records)
NXDomain == Reply("nxdomain", {})
Failure == Reply("failed", {})
Unasked == Reply("unasked", {})

Answered(reply) == reply.err = "none"
=============================================================================
