----------------------------- MODULE EmailCheck -----------------------------
(***************************************************************************)
(* The email check of a domain (dns.go, runtime.go): MX, SPF, DMARC and    *)
(* DKIM are looked up one after the other, each may fail by itself, and    *)
(* the findings, the condition and whether the check counts as             *)
(* unavailable are computed from what was found.                           *)
(***************************************************************************)
EXTENDS DMARCWalk, SequencesExt

CONSTANTS
  MXAnswers,             \* sets of mail exchangers a zone may publish
  Providers,             \* known provider |-> [mx, selectors]: the exchangers
                         \* under its suffixes, and its DKIM selectors
  MaxFindingsPerCheck

ASSUME EmailAssumption ==
  /\ MaxFindingsPerCheck \in Nat /\ MaxFindingsPerCheck >= 4
  /\ \A answer \in MXAnswers : IsFiniteSet(answer)
  /\ \A t \in Written : t.email # NoEmail => IsFiniteSet(t.email.mx)

VARIABLES
  mx,          \* what the MX query said ("nullmx": a null MX beside others)
  spf,         \* what the TXT query said: the SPF records, numbered
  dkim,        \* selector |-> "valid", "missing" or "failed"
  emailState   \* the result

emailVars == <<mx, spf, dkim, emailState>>

Condition(code, about) == [code |-> code, about |-> about]
NoState == [status |-> "unknown", condition |-> Condition("none", "none"),
            findings |-> <<>>, unavailable |-> FALSE]

providerSelectors(email) ==
  IF email.provider \in DOMAIN Providers THEN Providers[email.provider].selectors ELSE {}
Selectors(email) == providerSelectors(email) \cup email.selectors

EmailInit ==
  /\ mx = Unasked
  /\ spf = Unasked
  /\ dkim = [s \in {} |-> "missing"]
  /\ emailState = NoState

-----------------------------------------------------------------------------
(* FetchEmailSnapshot.                                                     *)

\* A name that does not exist has no exchangers.
QueryMX ==
  /\ phase = "mx"
  /\ \E reply \in {NXDomain, Failure, Reply("nullmx", {})} \cup
                  {Records(r) : r \in MXAnswers} :
       mx' = IF reply = NXDomain THEN Records({}) ELSE reply
  /\ phase' = "spf"
  /\ UNCHANGED <<target, spf, dkim, emailState, dmarcVars>>

QuerySPF ==
  /\ phase = "spf"
  /\ \E reply \in {NXDomain, Failure} \cup {Records(1 .. n) : n \in 0 .. 2} : spf' = reply
  /\ phase' = "dmarc"
  /\ UNCHANGED <<target, mx, dkim, emailState, dmarcVars>>

QueryDKIM ==
  /\ phase = "dkim"
  /\ dkim' \in [Selectors(target.email) -> {"valid", "missing", "failed"}]
  /\ phase' = AfterEmail(target)
  /\ UNCHANGED <<target, mx, spf, emailState, dmarcVars>>

EmailStep ==
  \/ QueryMX \/ QuerySPF \/ QueryDKIM
  \/ DMARCStep /\ UNCHANGED <<target, emailVars>>

-----------------------------------------------------------------------------
(* EvaluateEmailSecurity.                                                  *)

isProviderMXSafeDynamic(live, provider) == live # {} /\ live \subseteq provider.mx

MismatchedMX(email) ==
  SetToSeq({Condition("email_missing_mx", host) : host \in email.mx \ mx.records})
  \o SetToSeq({Condition("email_unauthorized_mx", host) : host \in mx.records \ email.mx})

evaluateEmailMX(email) ==
  CASE mx.err = "nullmx" -> <<"mismatch", <<Condition("email_invalid_null_mx", "mx")>>>>
    [] mx.err = "failed" -> <<"failed", <<Condition("dns_lookup_failed", "mx")>>>>
    [] Answered(mx) /\ mx.records = {} ->
         <<"failed", <<Condition("email_missing_mx", "mx")>>>>
    [] Answered(mx) /\ mx.records # {} /\ email.mx \notin {{}, mx.records} ->
         <<"mismatch", MismatchedMX(email)>>
    [] /\ Answered(mx) /\ mx.records # {} /\ email.mx = {}
       /\ email.provider \in DOMAIN Providers
       /\ ~isProviderMXSafeDynamic(mx.records, Providers[email.provider]) ->
         <<"hijacked", <<Condition("email_hijacked_mx", "mx")>>>>
    [] OTHER -> <<"ok", <<>>>>

evaluateEmailSPF ==
  IF ~Answered(spf) THEN <<Condition("dns_lookup_failed", "spf")>>
  ELSE CASE spf.records = {} -> <<Condition("email_missing_spf", "spf")>>
         [] Cardinality(spf.records) > 1 -> <<Condition("email_multiple_spf", "spf")>>
         [] OTHER -> <<>>

evaluateEmailDMARC ==
  CASE policy.err # "none" -> <<Condition("dns_lookup_failed", "dmarc")>>
    [] policy = NoPolicy -> <<Condition("email_missing_dmarc", "dmarc")>>
    [] OTHER -> <<>>

\* Mutant: one failed selector is forgiven when another one is missing.
evaluateDKIM_MissingFirst(email) ==
  LET Has(result) == \E s \in DOMAIN dkim : dkim[s] = result IN
  CASE Selectors(email) = {} \/ (Has("valid") /\ ~Has("failed")) -> <<>>
    [] Selectors(email) # {} /\ Has("missing") /\ ~Has("valid") ->
         <<Condition("email_missing_dkim", "dkim")>>
    [] OTHER -> <<Condition("dns_lookup_failed", "dkim")>>

\* A selector that could not be looked up may be the valid one.
evaluateDKIM(email) ==
  LET Has(result) == \E s \in DOMAIN dkim : dkim[s] = result IN
  CASE Selectors(email) = {} \/ (Has("valid") /\ ~Has("failed")) -> <<>>
    [] Selectors(email) # {} /\ Has("failed") -> <<Condition("dns_lookup_failed", "dkim")>>
    [] OTHER -> <<Condition("email_missing_dkim", "dkim")>>

Warnings(email) == evaluateEmailSPF \o evaluateEmailDMARC \o evaluateDKIM(email)

EmailConditions(email) == evaluateEmailMX(email)[2] \o Warnings(email)

\* A policy that cannot be had fails the check, whatever else is known.
EmailStatus(email) ==
  LET status == evaluateEmailMX(email)[1] IN
  CASE policy.err # "none" -> "failed"
    [] policy.err = "none" /\ status = "ok" /\ Warnings(email) # <<>> -> "warning"
    [] OTHER -> status

EmailCondition(email) ==
  CASE policy.err # "none" -> Condition("dns_lookup_failed", "dmarc")
    [] policy.err = "none" /\ EmailConditions(email) # <<>> -> Head(EmailConditions(email))
    [] OTHER -> Condition("email_verified", "none")

\* The conditions differ by code or target: there is nothing to deduplicate.
findingsFromConditions(conditions) ==
  SubSeq(conditions, 1, Min({Len(conditions), MaxFindingsPerCheck}))

\* Only failed lookups were found: evaluateFastDomainChecksWithEmail.
Inconclusive(findings) ==
  /\ spf # NXDomain
  /\ findings # <<>>
  /\ \A i \in DOMAIN findings : findings[i].code = "dns_lookup_failed"

EvaluateEmailSecurity(email) ==
  LET findings == findingsFromConditions(EmailConditions(email)) IN
  [status |-> EmailStatus(email),
   condition |-> EmailCondition(email),
   findings |-> findings,
   unavailable |-> EmailStatus(email) \in {"failed", "warning"} /\ Inconclusive(findings)]

-----------------------------------------------------------------------------
(* What the queries have shown.                                            *)

MXFault(email) ==
  \/ mx.err = "nullmx"
  \/ /\ Answered(mx)
     /\ \/ mx.records = {}
        \/ email.mx \notin {{}, mx.records}
        \/ /\ email.mx = {} /\ email.provider \in DOMAIN Providers
           /\ ~(mx.records \subseteq Providers[email.provider].mx)

DKIMFault(email) ==
  Selectors(email) # {} /\ \A s \in Selectors(email) : dkim[s] = "missing"

\* Something about the domain's mail is certainly wrong.
EmailFault(email) ==
  \/ MXFault(email)
  \/ spf = NXDomain
  \/ Answered(spf) /\ Cardinality(spf.records) # 1
  \/ policy = NoPolicy
  \/ DKIMFault(email)

\* Something could not be looked up.
EmailOutage(email) ==
  \/ mx.err = "failed"
  \/ spf.err = "failed"
  \/ policy.err = "failed"
  \/ \E s \in Selectors(email) : dkim[s] = "failed"

\* The policy was found and cannot be read: wrong for certain, but the code
\* reports it the way it reports a failed lookup.
MalformedPolicy == policy.err = "malformed"

Found(code) ==
  \E i \in DOMAIN emailState.findings : emailState.findings[i].code = code

\* The email check reports success exactly when every lookup succeeded and
\* nothing is wrong, and no outage of one lookup hides what another found:
\* each fault is among the findings, unless they were cut to their maximum.
\* The exception is a malformed policy, which is found like a failed lookup and
\* counts as one: by itself it makes the check unavailable.
EmailHidesNothing ==
  LET email == target.email IN
  email # NoEmail /\ emailState # NoState =>
    /\ emailState.status = "ok" <=>
         ~EmailFault(email) /\ ~EmailOutage(email) /\ ~MalformedPolicy
    /\ emailState.unavailable <=>
         (EmailOutage(email) \/ MalformedPolicy) /\ ~EmailFault(email)
    /\ Len(emailState.findings) < MaxFindingsPerCheck =>
         /\ MXFault(email) =>
              \E code \in {"email_invalid_null_mx", "email_missing_mx",
                           "email_unauthorized_mx", "email_hijacked_mx"} : Found(code)
         /\ policy = NoPolicy <=> Found("email_missing_dmarc")
         /\ DKIMFault(email) <=> Found("email_missing_dkim")
         /\ EmailOutage(email) \/ MalformedPolicy \/ spf = NXDomain <=>
              Found("dns_lookup_failed")
=============================================================================
