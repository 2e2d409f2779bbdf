------------------------------- MODULE DNSSEC -------------------------------
(***************************************************************************)
(* The DNSSEC check of a domain (dns.go): the DS and the DNSKEY records    *)
(* are asked for one after the other, keys and signatures are verified     *)
(* locally, and a validating DoH resolver is asked to vouch for a key that *)
(* the parent's DS authenticates.  A key stands for its tag, algorithm and *)
(* digest: a DS record is the key it matches.  A signature verifies or is  *)
(* as good as none; it may be outside its period of validity.              *)
(***************************************************************************)
EXTENDS Failover

CONSTANTS
  Keys,
  DSAnswers(_),      \* sets of keys a domain's parent may have DS records for
  KeyAnswers(_),     \* key sets a domain may publish
  MaxResolvers       \* bound: configured resolvers

ASSUME DNSSECAssumption ==
  /\ MaxResolvers \in Nat
  /\ \A t \in Written : DSAnswers(t) \cup KeyAnswers(t) \subseteq SUBSET Keys

VARIABLES
  ds,            \* what the DS query said
  keys,          \* what the DNSKEY query said
  signatures,    \* key |-> "none", "expired" or "valid": over the key set
  doh,           \* what the DoH resolver said: the keys of an authenticated
                 \* answer, an answer without authentication, or Failure
  dnssecState    \* the result

dnssecVars == <<ds, keys, signatures, doh, dnssecState>>

Unauthenticated == Reply("unauthenticated", {})

NoChain == [status |-> "unknown", code |-> "none", networkError |-> FALSE]

DNSSECInit ==
  /\ ds = Unasked
  /\ keys = Unasked
  /\ signatures = [k \in {} |-> "none"]
  /\ doh = Unasked
  /\ dnssecState = NoChain

-----------------------------------------------------------------------------
(* validateDNSSEC.                                                         *)

ChooseResolver ==
  /\ phase = "resolvers"
  /\ \E n \in 1 .. MaxResolvers : StartQuery(n)
  /\ phase' = "ds"
  /\ UNCHANGED <<target, dnssecVars>>

QueryDS ==
  /\ phase = "ds"
  /\ \/ NextServer /\ UNCHANGED <<phase, ds>>
     \/ /\ phase' = AfterDNSSEC(target)
        /\ \/ GiveUp /\ ds' = Failure
           \/ EndQuery /\ ds' = NXDomain
     \/ /\ phase' = "dnskey"
        /\ StartQuery(query.servers)
        /\ ds' \in {Records(answer) : answer \in DSAnswers(target)}
  /\ UNCHANGED <<target, keys, signatures, doh, dnssecState>>

QueryDNSKEY ==
  /\ phase = "dnskey"
  /\ \/ NextServer /\ UNCHANGED <<phase, keys, signatures>>
     \/ /\ phase' = AfterDNSSEC(target)
        /\ UNCHANGED signatures
        /\ \/ GiveUp /\ keys' = Failure
           \/ EndQuery /\ keys' = NXDomain
     \/ /\ phase' = "doh"
        /\ EndQuery
        /\ \E published \in KeyAnswers(target) :
             /\ keys' = Records(published)
             /\ signatures' \in [published -> {"none", "expired", "valid"}]
  /\ UNCHANGED <<target, ds, doh, dnssecState>>

\* The answer counts only if the resolver has authenticated it.
QueryDoH ==
  /\ phase = "doh"
  /\ doh' \in {Failure, Unauthenticated} \cup
              {Records(answer) : answer \in KeyAnswers(target)}
  /\ phase' = AfterDNSSEC(target)
  /\ UNCHANGED <<target, query, ds, keys, signatures, dnssecState>>

DNSSECStep == ChooseResolver \/ QueryDS \/ QueryDNSKEY \/ QueryDoH

-----------------------------------------------------------------------------
(* EvaluateDNSSEC.                                                         *)

authenticatedKSKs == ds.records \cap keys.records

\* Mutant: any published key may have signed the key set.
keysToVerify_Published == keys.records

\* Without DS records the signatures are verified for the record only.
keysToVerify == IF ds.records = {} THEN keys.records ELSE authenticatedKSKs

RRSIGValid == \E k \in keysToVerify : signatures[k] = "valid"

verifyDNSSECDoH == Answered(doh) /\ doh.records \cap authenticatedKSKs # {}

DNSSECCode ==
  CASE Failure \in {ds, keys} -> "dnssec_network_error"
    [] Failure \notin {ds, keys} /\ NXDomain \in {ds, keys} -> "dns_lookup_failed"
    [] OTHER ->
       CASE ds.records = {} /\ keys.records = {} -> "dnssec_disabled"
         [] ds.records = {} /\ keys.records # {} -> "dnssec_no_ds"
         [] ds.records # {} /\ keys.records = {} -> "dnssec_no_dnskey"
         [] OTHER ->
            CASE authenticatedKSKs = {} -> "dnssec_ds_mismatch"
              [] authenticatedKSKs # {} /\ ~RRSIGValid -> "dnssec_rrsig_failed"
              [] authenticatedKSKs # {} /\ RRSIGValid /\ ~verifyDNSSECDoH ->
                   "dns_lookup_failed"
              [] OTHER -> "dnssec_verified"

EvaluateDNSSEC ==
  [status |-> IF DNSSECCode = "dnssec_verified" THEN "ok" ELSE "failed",
   code |-> DNSSECCode,
   networkError |-> Failure \in {ds, keys}]

-----------------------------------------------------------------------------
(* What the queries have shown.                                            *)

\* The parent vouches for a key that has validly signed the key set.
SignedBy(k) ==
  /\ Answered(ds) /\ k \in ds.records
  /\ Answered(keys) /\ k \in keys.records
  /\ signatures[k] = "valid"

Vouched ==
  /\ Answered(doh)
  /\ doh.records \cap ds.records \cap keys.records # {}

Intact == \E k \in Keys : SignedBy(k)

\* The chain is intact as far as it can be seen, and the DoH resolver that was
\* to vouch for it is out of reach.
DoHOutage == Intact /\ doh = Failure

\* Something could not be looked up that the verdict depends on.
DNSSECOutage == Failure \in {ds, keys} \/ DoHOutage

\* The lookups that the verdict depends on were answered, and the answers do
\* not make a chain of trust that the DoH resolver vouches for.
DNSSECFault == ~DNSSECOutage /\ ~(Intact /\ Vouched)

\* A domain is verified exactly when a key that the parent vouches for has
\* validly signed the published key set and the DoH resolver has seen such a
\* key; and while the DoH resolver says nothing, or something else, the code
\* still tells an intact local chain from one that is broken, and where.
DNSSECVerdictIsTheChains ==
  dnssecState # NoChain =>
    LET code == dnssecState.code
        answered == Answered(ds) /\ Answered(keys) IN
    /\ dnssecState.status = "ok" <=> Intact /\ Vouched
    /\ code = "dns_lookup_failed" <=>
         NXDomain \in {ds, keys} \/ (Intact /\ ~Vouched)
    /\ code = "dnssec_network_error" <=> Failure \in {ds, keys}
    /\ code = "dnssec_rrsig_failed" <=>
         answered /\ ~Intact /\ ds.records \cap keys.records # {}
    /\ code \in {"dnssec_disabled", "dnssec_no_ds"} <=> answered /\ ds.records = {}
=============================================================================
