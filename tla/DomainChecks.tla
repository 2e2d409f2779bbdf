---------------------------- MODULE DomainChecks ----------------------------
(***************************************************************************)
(* The worker of one domain (runtime.go): the evidence of every check that *)
(* is configured is gathered, then each check is evaluated by itself, and  *)
(* the dashboard lists the domain by the results of all of them.  (The     *)
(* registration and the CAA policy of a domain are checked elsewhere.)     *)
(***************************************************************************)
EXTENDS EmailCheck, Delegation, DNSSEC, NSHealth

vars == <<target, phase, dmarcVars, emailVars, query, delegation, delegationState,
          dnssecVars, nsVars>>

Init ==
  /\ target \in Domains
  /\ phase = FirstPhase(target)
  /\ DMARCInit /\ EmailInit
  /\ query = NoQuery /\ DelegationInit
  /\ DNSSECInit
  /\ NSInit

\* gatherDomainEvidence.
Gather ==
  \/ EmailStep /\ UNCHANGED <<query, delegation, delegationState, dnssecVars, nsVars>>
  \/ DelegationStep /\ UNCHANGED <<dmarcVars, emailVars, dnssecVars, nsVars>>
  \/ DNSSECStep /\ UNCHANGED <<dmarcVars, emailVars, delegation, delegationState, nsVars>>
  \/ NSStep /\ UNCHANGED <<dmarcVars, emailVars, query, delegation, delegationState,
                           dnssecVars>>

\* evaluateFastDomainChecksWithEmail.
Evaluate ==
  /\ phase = "evaluate"
  /\ phase' = "done"
  /\ emailState' = IF target.email = NoEmail THEN emailState
                   ELSE EvaluateEmailSecurity(target.email)
  /\ delegationState' = IF isDelegatedZone(target)
                        THEN EvaluateNSDelegation(target.nameservers)
                        ELSE delegationState
  /\ dnssecState' = IF target.dnssec THEN EvaluateDNSSEC ELSE dnssecState
  /\ nsState' = IF target.nameservers = <<>> THEN nsState ELSE EvaluateNSHealth
  /\ UNCHANGED <<target, dmarcVars, mx, spf, dkim, query, delegation, ds, keys,
                 signatures, doh, server, heard>>

Next == Gather \/ Evaluate

Spec == Init /\ [][Next]_vars

-----------------------------------------------------------------------------
(* The dashboard (index.html): checks without a result are left out.       *)

CheckStates ==
  { [status |-> emailState.status, unavailable |-> emailState.unavailable],
    [status |-> delegationState.status, unavailable |-> delegationState.unavailable],
    [status |-> dnssecState.status, unavailable |-> dnssecState.networkError],
    [status |-> nsState.status, unavailable |-> nsState.unavailable] }

\* Mutant: an outage of one check hides the findings of the others.
aggregateDomainStatus_OutageFirst ==
  LET present == {c \in CheckStates : c.status # "unknown"}
      statuses == {c.status : c \in present} IN
  CASE \E c \in present : c.unavailable -> "unavailable"
    [] OTHER -> IF statuses \cap {"failed", "mismatch", "hijacked"} # {} THEN "error"
                ELSE IF "warning" \in statuses THEN "warning"
                ELSE IF statuses = {} THEN "unknown" ELSE "ok"

aggregateDomainStatus ==
  LET present == {c \in CheckStates : c.status # "unknown"}
      statuses == {c.status : c \in {d \in present : ~d.unavailable}} IN
  CASE statuses \cap {"failed", "mismatch", "hijacked"} # {} -> "error"
    [] statuses \subseteq {"warning", "ok"} /\ "warning" \in statuses -> "warning"
    [] statuses \subseteq {"ok"} /\ \E c \in present : c.unavailable -> "unavailable"
    [] OTHER -> IF statuses = {} THEN "unknown" ELSE "ok"

-----------------------------------------------------------------------------
(* What the queries have shown, and where the code takes it for something   *)
(* else.                                                                    *)

ConfirmedFault ==
  \/ target.email # NoEmail /\ EmailFault(target.email)
  \/ isDelegatedZone(target) /\ DelegationFault(target.nameservers)
  \/ target.dnssec /\ DNSSECFault
  \/ target.nameservers # <<>> /\ NSFault

Outage ==
  \/ target.email # NoEmail /\ EmailOutage(target.email)
  \/ isDelegatedZone(target) /\ DelegationOutage
  \/ target.dnssec /\ DNSSECOutage
  \/ target.nameservers # <<>> /\ NSOutage

\* Outages that the code reports as faults: of the DoH resolver, and of the
\* lookup of a nameserver whose keys are to be compared.
TakenForFault ==
  \/ target.dnssec /\ DoHOutage
  \/ target.nameservers # <<>> /\ KeysOutOfReach

\* A fault that the code reports as an outage.
TakenForOutage == target.email # NoEmail /\ MalformedPolicy

Issue == ConfirmedFault \/ TakenForFault

\* The dashboard lists a domain under Issues exactly when some check has
\* confirmed a fault or met one of the outages taken for a fault, whatever
\* else of it or of other checks could not be looked up; otherwise under
\* Unavailable exactly when some lookup failed or the DMARC policy is
\* malformed; and as healthy when there was nothing of all this.  The three
\* exceptions are part of the claim: with the DoH resolver out of reach, with
\* keys out of reach, and with nothing but a malformed policy the dashboard
\* does not keep outages and findings apart.
ListedByItsFindings ==
  phase = "done" =>
    CASE Issue -> aggregateDomainStatus \in {"error", "warning"}
      [] ~Issue /\ (Outage \/ TakenForOutage) -> aggregateDomainStatus = "unavailable"
      [] OTHER -> aggregateDomainStatus =
                    IF FirstPhase(target) = "evaluate" THEN "unknown" ELSE "ok"

\* The delegation of a zone is accepted exactly when the parent publishes the
\* nameservers that are configured to answer and no others; the parent's
\* silence is an outage, its denial of the zone is not.
DelegationIsExact ==
  delegationState.status # "unknown" =>
    /\ delegationState.status = "ok" <=>
         ~DelegationOutage /\ ~DelegationFault(target.nameservers)
    /\ delegationState.unavailable <=> DelegationOutage
=============================================================================
