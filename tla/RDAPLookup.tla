----------------------------- MODULE RDAPLookup -----------------------------
(***************************************************************************)
(* The registration of one domain (lookup.go): the registry's RDAP servers *)
(* are asked one after the other, a registrar is asked where the registry  *)
(* tells little, WHOIS is asked where RDAP gave no answer, what both tiers *)
(* say is merged, and the result is evaluated.                             *)
(*                                                                         *)
(* Each of the four parties is asked in a retry loop (retryWithBackoff).   *)
(* A loop may give up at any retry: the server may ask for too long a      *)
(* delay, the deadline of the cycle may be too close, or the context may   *)
(* be done.  An answer has a kind:                                         *)
(*   data, notfound         a registration, a 404                          *)
(*   throttled, unavailable 429 (WHOIS: a rate limit), 408, 425, 500-504   *)
(*   refused, unusable      other statuses; no proper body, or of another  *)
(*                          domain                                         *)
(*   timeout, broken        network error that is transient, that is not   *)
(* A date is the number of days that are left when it is evaluated.        *)
(***************************************************************************)
EXTENDS Integers, FiniteSets, Sequences, Functions, ConditionTracker

CONSTANTS
  ServerLists,      \* what the bootstrap registry may list for the domain
  LinkLists,        \* registrar links a response may carry
  WHOISReferrals,   \* registrar servers a WHOIS response may name
  Allowed,          \* URLs and servers that may be contacted
  Tiers,            \* what a party may say of the domain
  Configs,          \* how the domain may be configured
  Holds,            \* EPP statuses of a suspended domain
  MaxNetworkAttempts,
  RDAPCriticalExpiryDays, DefaultRDAPExpiryWarningDays,
  NoDate, Garbled, NoName, NoTier

ASSUME RDAPLookupAssumption ==
  /\ MaxNetworkAttempts \in Nat \ {0, 1}
  /\ NoName \notin Allowed
  /\ RDAPCriticalExpiryDays \in Int /\ DefaultRDAPExpiryWarningDays \in Int
  /\ RDAPCriticalExpiryDays < DefaultRDAPExpiryWarningDays
  /\ NoDate \notin Int /\ Garbled \notin Int /\ NoDate # Garbled
  /\ \A t \in Tiers : t.expiration \in Int \cup {NoDate, Garbled}

VARIABLES
  config,      \* the configured domain
  servers,     \* what the bootstrap registry lists for it
  phase,       \* who is asked
  targets,     \* the URLs that are asked in turn
  attempt,     \* attempt of the retry loop
  last,        \* answer to it
  registry,    \* what the registry says
  registrar,   \* what the registrar says
  denied,      \* the WHOIS text reads like "not found"
  rdapErr,     \* why RDAP failed
  cancelled,   \* the context of the cycle is done
  snapshot,    \* the RDAPSnapshot
  verdict,     \* status and code of the check
  asked,       \* history: registry servers asked
  heard,       \* history: who said what
  cut          \* history: the registry's loop ended before its attempts did

inputs == <<config, servers>>
loop == <<targets, attempt, last>>
tiers == <<registry, registrar, denied>>
history == <<asked, heard, cut>>
vars == <<inputs, phase, loop, tiers, rdapErr, cancelled, snapshot, verdict, history>>

Parties == {"registry", "registrar", "whois", "referral"}

-----------------------------------------------------------------------------
(* Merging what the two tiers say.                                         *)

Readable(date) == date \notin {NoDate, Garbled}

\* Mutant: the later date.
synthesizeTierExpiration_Later(a, b) ==
  IF b = NoDate THEN a ELSE IF a = NoDate THEN b
  ELSE IF Readable(a) /\ Readable(b) THEN IF a <= b THEN b ELSE a
  ELSE IF Readable(b) THEN b ELSE a

\* The earlier of the dates of registry and registrar.
synthesizeTierExpiration(a, b) ==
  IF b = NoDate THEN a ELSE IF a = NoDate THEN b
  ELSE IF Readable(a) /\ Readable(b) THEN IF a <= b THEN a ELSE b
  ELSE IF Readable(b) THEN b ELSE a

Silent == [expiration |-> NoDate, registrar |-> NoName, nameservers |-> {}, status |-> {}]

ASSUME NoTierAssumption == NoTier \notin Tiers \cup {Silent}

\* Delegation is the registry's, the registrar's name its own.
synthesizeTierData(a, tier) ==
  LET b == IF tier = NoTier THEN Silent ELSE tier IN
  [expiration |-> synthesizeTierExpiration(a.expiration, b.expiration),
   registrar |-> IF b.registrar # NoName THEN b.registrar ELSE a.registrar,
   nameservers |-> IF a.nameservers # {} THEN a.nameservers ELSE b.nameservers,
   status |-> a.status \cup b.status]

Concluded(protocol, data) == [protocol |-> protocol, err |-> {}, data |-> data]
Failed(protocol, err) == [protocol |-> protocol, err |-> err, data |-> Silent]

\* Mutant: the words decide.
fetchWHOIS_Words(a, b, absent) ==
  LET data == synthesizeTierData(a, b) IN
  IF absent THEN Failed("WHOIS", {"notfound"}) ELSE Concluded("WHOIS", data)

\* A text that reads like "not found" means it only if there is no data.
fetchWHOIS(a, b, absent) ==
  LET data == synthesizeTierData(a, b) IN
  IF absent /\ data.expiration = NoDate /\ data.nameservers = {}
  THEN Failed("WHOIS", {"notfound"})
  ELSE IF data = Silent THEN Failed("WHOIS-Failed", rdapErr \cup {"failed"})
  ELSE Concluded("WHOIS", data)

-----------------------------------------------------------------------------
(* The retry loop.                                                         *)

\* Mutant: the last server is not asked after an unusable answer.
Retries_SkipsLast(kind) ==
  \/ kind \in {"timeout", "throttled", "unavailable"}
  \/ phase = "registrar" /\ kind \in {"notfound", "refused"} /\ Len(targets) > 1
  \/ phase = "registry" /\ kind = "refused" /\ attempt < Len(targets) - 1
  \/ kind = "unusable" /\ attempt < Len(targets) - 1

\* Whether another attempt is worth it.  The registry's 404 is an answer.
Retries(kind) ==
  \/ kind \in {"timeout", "throttled", "unavailable"}
  \/ phase = "registrar" /\ kind \in {"notfound", "refused"} /\ Len(targets) > 1
  \/ phase = "registry" /\ kind = "refused" /\ attempt < Len(targets)
  \/ kind = "unusable" /\ attempt < Len(targets)

MayRetry == Retries(last.kind) /\ attempt < MaxNetworkAttempts

Kinds ==
  CASE cancelled -> {"broken"}
    [] ~cancelled /\ phase \in {"whois", "referral"} -> {"throttled", "timeout", "broken"}
    [] OTHER -> {"notfound", "throttled", "unavailable", "refused", "unusable",
                 "timeout", "broken"}

Answer(kind, tier, links, absent) ==
  [kind |-> kind, tier |-> tier, links |-> links, absent |-> absent]

NoAnswer == Answer("none", NoTier, <<>>, FALSE)

Failures == {Answer(kind, NoTier, <<>>, FALSE) : kind \in Kinds}

RegistryData ==
  {Answer("data", said[1], said[2], FALSE) : said \in Tiers \X LinkLists}

RegistrarData == {Answer("data", tier, <<>>, FALSE) : tier \in Tiers}

WHOISData ==
  {Answer("data", tier, links, absent) :
     tier \in Tiers \cup {Silent}, absent \in BOOLEAN,
     links \in {<<>>} \cup {<<s>> : s \in WHOISReferrals}}

Answers ==
  Failures \cup
  IF cancelled THEN {}
  ELSE CASE phase = "registry" -> RegistryData
         [] phase = "registrar" -> RegistrarData
         [] OTHER -> WHOISData

Target == targets[((attempt - 1) % Len(targets)) + 1]

Unanswered == phase \in Parties /\ last = NoAnswer
Answered(party) == phase = party /\ last # NoAnswer

\* One request to the party whose turn it is.
Ask ==
  /\ Unanswered
  /\ last' \in Answers
  /\ asked' = IF phase = "registry" THEN Append(asked, Target) ELSE asked
  /\ heard' = LET says == IF last'.absent THEN "notfound" ELSE last'.kind IN
              heard \cup ({<<phase, says>>} \cap (Parties \X {"data", "notfound"}))
  /\ UNCHANGED <<inputs, phase, targets, attempt, tiers, rdapErr, cancelled,
                 snapshot, verdict, cut>>

\* After the delay.
Retry ==
  /\ phase \in Parties
  /\ last # NoAnswer
  /\ MayRetry
  /\ ~cancelled
  /\ attempt' = attempt + 1
  /\ last' = NoAnswer
  /\ UNCHANGED <<inputs, phase, targets, tiers, rdapErr, cancelled, snapshot,
                 verdict, history>>

Begin(party, urls) ==
  /\ phase' = party
  /\ targets' = urls
  /\ attempt' = 1
  /\ last' = NoAnswer

Finish(result) ==
  /\ snapshot' = result
  /\ Begin("evaluate", <<>>)

\* What classifyRDAPError recognises of a failure by its text: rate limits and
\* some network errors.  A loop whose context is done fails with that instead.
Errors(kind) ==
  CASE kind = "throttled" /\ attempt = MaxNetworkAttempts -> {"transient"}
    [] \/ kind = "timeout"
       \/ phase = "whois" /\ kind = "broken"
       \/ phase = "whois" /\ kind = "throttled" /\ attempt < MaxNetworkAttempts ->
         {"transient", "failed"}
    [] OTHER -> {"failed"}

-----------------------------------------------------------------------------
(* The registry's RDAP servers.                                            *)

Safe(urls) == SelectSeq(urls, LAMBDA u : u \in Allowed)

\* What SelectSeq returns, for the proofs, to which its definition is opaque.
ASSUME SafeAssumption == \A urls \in ServerLists : Safe(urls) \in Seq(Allowed)

\* Without a server that may be asked, or without a registry that lists one,
\* there is nothing but WHOIS.
SelectServers ==
  /\ phase = "servers"
  /\ IF Safe(servers) # <<>>
     THEN Begin("registry", Safe(servers)) /\ UNCHANGED rdapErr
     ELSE Begin("whois", <<>>) /\ \E err \in {"transient", "failed"} : rdapErr' = {err}
  /\ UNCHANGED <<inputs, tiers, cancelled, snapshot, verdict, history>>

Thin(tier) == tier.expiration = NoDate \/ tier.registrar = NoName

\* A registrar is asked only where the registry tells little.
RegistryAnswers ==
  /\ Answered("registry")
  /\ last.kind = "data"
  /\ registry' = last.tier
  /\ IF Thin(last.tier) /\ Safe(last.links) # <<>>
     THEN Begin("registrar", Safe(last.links)) /\ UNCHANGED snapshot
     ELSE Finish(Concluded("RDAP", synthesizeTierData(last.tier, NoTier)))
  /\ UNCHANGED <<inputs, registrar, denied, rdapErr, cancelled, verdict, history>>

RegistryDenies ==
  /\ Answered("registry")
  /\ last.kind = "notfound"
  /\ Finish(Failed("RDAP", {"notfound"}))
  /\ UNCHANGED <<inputs, tiers, rdapErr, cancelled, verdict, history>>

RegistryFails ==
  /\ Answered("registry")
  /\ last.kind \notin {"data", "notfound"}
  /\ \E err \in Errors(last.kind) : rdapErr' = {err}
  /\ cut' = (MayRetry \/ last.kind = "broken")
  /\ Begin("whois", <<>>)
  /\ UNCHANGED <<inputs, tiers, cancelled, snapshot, verdict, asked, heard>>

-----------------------------------------------------------------------------
(* The registrar.                                                          *)

RegistrarAnswers ==
  /\ Answered("registrar")
  /\ last.kind = "data"
  /\ registrar' = last.tier
  /\ Finish(Concluded("RDAP", synthesizeTierData(registry, last.tier)))
  /\ UNCHANGED <<inputs, registry, denied, rdapErr, cancelled, verdict, history>>

\* Mutant: WHOIS supplements what is missing.
RegistrarFails_AsksWHOIS ==
  /\ Answered("registrar")
  /\ last.kind # "data"
  /\ Begin("whois", <<>>)
  /\ UNCHANGED <<inputs, tiers, rdapErr, cancelled, snapshot, verdict, history>>

\* The registry's answer stands, however little it tells.
RegistrarFails ==
  /\ Answered("registrar")
  /\ last.kind # "data"
  /\ Finish(Concluded("RDAP", synthesizeTierData(registry, NoTier)))
  /\ UNCHANGED <<inputs, tiers, rdapErr, cancelled, verdict, history>>

-----------------------------------------------------------------------------
(* WHOIS.                                                                  *)

WHOISAnswers ==
  /\ Answered("whois")
  /\ last.kind = "data"
  /\ registry' = last.tier
  /\ denied' = last.absent
  /\ IF Safe(last.links) # <<>>
     THEN Begin("referral", Safe(last.links)) /\ UNCHANGED snapshot
     ELSE Finish(fetchWHOIS(last.tier, NoTier, last.absent))
  /\ UNCHANGED <<inputs, registrar, rdapErr, cancelled, verdict, history>>

WHOISFails ==
  /\ Answered("whois")
  /\ last.kind # "data"
  /\ \E err \in Errors(last.kind) : Finish(Failed("WHOIS-Failed", rdapErr \cup {err}))
  /\ UNCHANGED <<inputs, tiers, rdapErr, cancelled, verdict, history>>

\* A referral that fails, or that knows nothing of the domain, is ignored.
ReferralEnds ==
  /\ Answered("referral")
  /\ registrar' = IF last.kind = "data" /\ ~last.absent THEN last.tier ELSE NoTier
  /\ Finish(fetchWHOIS(registry, registrar', denied))
  /\ UNCHANGED <<inputs, registry, denied, rdapErr, cancelled, verdict, history>>

-----------------------------------------------------------------------------
(* Evaluation.                                                             *)

\* In the order of EvaluateRDAP.  What is wrong with the delegation, and
\* which EPP status suspends the domain, is not told apart.
Findings(c, data) ==
  LET date == data.expiration
      Within(days) == Readable(date) /\ date >= 0 /\ date <= days /\ ~c.allowExpiry
  IN
  << Finding(~Readable(date), "failed", "expiry_unavailable"),
     Finding(Readable(date) /\ date < 0, "failed", "expired"),
     Finding(Within(RDAPCriticalExpiryDays), "failed", "expiring_soon"),
     Finding(Within(DefaultRDAPExpiryWarningDays), "warning", "expiring_soon"),
     Finding(c.nameservers \notin {NoName, data.nameservers}, "failed", "delegation"),
     Finding(data.status \cap Holds # {}, "failed", "suspended"),
     Finding(c.locked /\ "locked" \notin data.status, "warning", "unlocked"),
     Finding(c.registrar \notin {NoName, data.registrar}, "failed", "registrar") >>

classifyRDAPError(c, err) ==
  CASE "notfound" \in err /\ c.allowExpiry -> <<"skipped", "none">>
    [] "notfound" \in err /\ ~c.allowExpiry -> <<"failed", "not_found">>
    [] "notfound" \notin err /\ "transient" \in err -> <<"warning", "http_error">>
    [] OTHER -> <<"failed", "http_error">>

EvaluateRDAP(c, s) ==
  LET findings == Findings(c, s.data) IN
  IF s.err # {} THEN classifyRDAPError(c, s.err)
  ELSE IF Readable(s.data.expiration) /\ s.data.expiration < 0 /\ c.allowExpiry
  THEN <<"skipped", "none">>
  ELSE <<PromotedStatus(findings), PromotedCode(findings)>>

Evaluate ==
  /\ phase = "evaluate"
  /\ verdict' = EvaluateRDAP(config, snapshot)
  /\ phase' = "done"
  /\ UNCHANGED <<inputs, loop, tiers, rdapErr, cancelled, snapshot, history>>

-----------------------------------------------------------------------------
\* The cycle times out or the process is stopped.
Cancel ==
  /\ ~cancelled
  /\ phase # "done"
  /\ cancelled' = TRUE
  /\ UNCHANGED <<inputs, phase, loop, tiers, rdapErr, snapshot, verdict, history>>

Init ==
  /\ config \in Configs
  /\ servers \in ServerLists
  /\ phase = "servers"
  /\ targets = <<>>
  /\ attempt = 1
  /\ last = NoAnswer
  /\ registry = NoTier
  /\ registrar = NoTier
  /\ denied = FALSE
  /\ rdapErr = {}
  /\ cancelled = FALSE
  /\ snapshot = Failed("", {})
  /\ verdict = <<"pending", "none">>
  /\ asked = <<>>
  /\ heard = {}
  /\ cut = FALSE

Step ==
  \/ SelectServers \/ Ask \/ Retry
  \/ RegistryAnswers \/ RegistryDenies \/ RegistryFails
  \/ RegistrarAnswers \/ RegistrarFails
  \/ WHOISAnswers \/ WHOISFails \/ ReferralEnds
  \/ Evaluate

Next == Step \/ Cancel

Spec == Init /\ [][Next]_vars

-----------------------------------------------------------------------------
(* Properties.                                                             *)

Believed == {registry, registrar} \ {NoTier}

\* A domain passes for expired or absent, which silences its other checks,
\* only on somebody's word: a date that has passed, a 404 of the registry, or,
\* RDAP having failed, a WHOIS registry that denies the domain while neither
\* tier shows a date or a nameserver of it.  An outage is never absence
\* (docs/protocols.md:14), nor is the ignorance of a registrar.
ExpiryIsConfirmed ==
  /\ "notfound" \in snapshot.err =>
       \/ <<"registry", "notfound">> \in heard
       \/ /\ <<"whois", "notfound">> \in heard
          /\ \A t \in Believed : t.expiration = NoDate /\ t.nameservers = {}
  /\ verdict[1] = "skipped" =>
       \/ "notfound" \in snapshot.err
       \/ \E t \in Believed : Readable(t.expiration) /\ t.expiration < 0

\* docs/protocols.md:14: WHOIS is asked only if the registry's RDAP said
\* nothing, and, unless the loop was cut short, after the first
\* MaxNetworkAttempts servers that may be asked all had their turn: a server
\* that is down or talks nonsense does not keep another one from answering.
WHOISIsTheLastResort ==
  phase \in {"whois", "referral"} =>
    /\ heard \cap {<<"registry", "data">>, <<"registry", "notfound">>} = {}
    /\ \/ cut
       \/ \A i \in DOMAIN Safe(servers) :
            i <= MaxNetworkAttempts => Safe(servers)[i] \in Range(asked)

\* docs/protocols.md:11: usable RDAP of the registry is retained, whatever
\* becomes of the registrar, and at whatever moment the cycle is cancelled.
PartialRDAPIsKept ==
  verdict[1] # "pending" /\ <<"registry", "data">> \in heard =>
    /\ snapshot.protocol = "RDAP"
    /\ snapshot.err = {}
    /\ snapshot.data.expiration # NoDate \/ registry.expiration = NoDate
    /\ registry.status \subseteq snapshot.data.status
    /\ registry.nameservers # {} => snapshot.data.nameservers = registry.nameservers

\* A healthy verdict hides nothing: no tier that was heard suspends the domain
\* or has a date for it that is due, and the delegation is the expected one by
\* the registry's word.
OkHidesNothing ==
  verdict[1] = "ok" =>
    /\ \E t \in Believed : Readable(t.expiration)
    /\ \A t \in Believed :
         /\ t.status \cap Holds = {}
         /\ Readable(t.expiration) =>
              t.expiration > IF config.allowExpiry THEN -1 ELSE DefaultRDAPExpiryWarningDays
    /\ registry.nameservers # {} /\ config.nameservers # NoName =>
         registry.nameservers = config.nameservers

=============================================================================
