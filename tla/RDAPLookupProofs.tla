-------------------------- MODULE RDAPLookupProofs --------------------------
(***************************************************************************)
(* Theorems about RDAPLookup, for any servers, links, tiers and            *)
(* configurations: a domain is called expired or absent on somebody's word *)
(* only, what the registry said by RDAP is kept, WHOIS is asked last, and  *)
(* a healthy verdict hides nothing.                                        *)
(***************************************************************************)
EXTENDS RDAPLookup, TLAPS

Known == Tiers \cup {Silent}
Over == {"evaluate", "done"}

\* What an answer that has arrived entails.
AnswerInv ==
  /\ last.kind = "data" => last.tier \in Known
  /\ last.absent \in BOOLEAN
  /\ last.absent => /\ phase \in {"whois", "referral"}
                    /\ <<phase, "notfound">> \in heard
  /\ phase = "registry" /\ last.kind = "notfound" => <<"registry", "notfound">> \in heard

\* Who has been believed so far.
TierInv ==
  /\ phase \in Parties \cup {"servers"} \cup Over
  /\ {registry, registrar} \subseteq Known \cup {NoTier}
  /\ phase \in {"servers", "registry", "whois"} => registry = NoTier /\ registrar = NoTier
  /\ phase \in {"registrar", "referral"} => registry # NoTier /\ registrar = NoTier
  /\ denied \in BOOLEAN
  /\ denied => <<"whois", "notfound">> \in heard

\* What a conclusion rests on.
ConclusionInv ==
  /\ rdapErr \subseteq {"transient", "failed"}
  /\ phase \notin Over => snapshot.err = {}
  /\ phase # "done" => verdict[1] = "pending"
  /\ phase \in Over /\ snapshot.err = {} /\ Readable(snapshot.data.expiration) =>
       \E t \in Believed : t.expiration = snapshot.data.expiration
  /\ ExpiryIsConfirmed

\* The snapshot keeps what the registry said.
Kept ==
  /\ snapshot.protocol = "RDAP"
  /\ snapshot.err = {}
  /\ snapshot.data.expiration # NoDate \/ registry.expiration = NoDate
  /\ registry.status \subseteq snapshot.data.status
  /\ registry.nameservers # {} => snapshot.data.nameservers = registry.nameservers

\* Once the registry has answered, nothing but its registrar is asked.
KeptInv ==
  <<"registry", "data">> \in heard =>
    \/ phase = "registry" /\ last.kind = "data"
    \/ phase = "registrar"
    \/ phase \in Over /\ Kept

IInv == AnswerInv /\ TierInv /\ ConclusionInv /\ KeptInv

-----------------------------------------------------------------------------
(* Merging.                                                                *)

LEMMA KnownDates ==
  ASSUME NEW t \in Known
  PROVE  t.expiration \in Int \cup {NoDate, Garbled} /\ t # NoTier
BY RDAPLookupAssumption, NoTierAssumption DEF Known, Silent

\* The merged date is one of the two, and missing only if both are.
LEMMA MergedDate ==
  ASSUME NEW a \in Int \cup {NoDate, Garbled}, NEW b \in Int \cup {NoDate, Garbled}
  PROVE  /\ synthesizeTierExpiration(a, b) \in {a, b}
         /\ synthesizeTierExpiration(a, b) = NoDate => a = NoDate /\ b = NoDate
BY RDAPLookupAssumption DEF synthesizeTierExpiration, Readable

\* What merging a registry's tier with one of a registrar, or none, returns.
LEMMA Merged ==
  ASSUME NEW a \in Known, NEW b \in Known \cup {NoTier}
  PROVE  LET data == synthesizeTierData(a, b) IN
         /\ a.status \subseteq data.status
         /\ a.nameservers # {} => data.nameservers = a.nameservers
         /\ data.nameservers = {} =>
              a.nameservers = {} /\ (b # NoTier => b.nameservers = {})
         /\ data.expiration = NoDate =>
              a.expiration = NoDate /\ (b # NoTier => b.expiration = NoDate)
         /\ Readable(data.expiration) =>
              \E t \in {a, b} \ {NoTier} : t.expiration = data.expiration
<1> DEFINE other == IF b = NoTier THEN Silent ELSE b
           data == synthesizeTierData(a, b)
<1>1. other \in Known
  BY DEF Known
<1>2. a.expiration \in Int \cup {NoDate, Garbled} /\ a # NoTier
  BY KnownDates
<1>3. other.expiration \in Int \cup {NoDate, Garbled}
  BY <1>1, KnownDates
<1>4. /\ data.expiration = synthesizeTierExpiration(a.expiration, other.expiration)
      /\ data.nameservers = IF a.nameservers # {} THEN a.nameservers ELSE other.nameservers
      /\ data.status = a.status \cup other.status
  BY DEF synthesizeTierData
<1>5. /\ data.expiration \in {a.expiration, other.expiration}
      /\ data.expiration = NoDate => a.expiration = NoDate /\ other.expiration = NoDate
  BY <1>2, <1>3, <1>4, MergedDate
<1>6. b = NoTier => other.expiration = NoDate
  BY DEF Silent
<1>7. Readable(data.expiration) =>
        \E t \in {a, b} \ {NoTier} : t.expiration = data.expiration
  <2> SUFFICES ASSUME Readable(data.expiration)
               PROVE  \E t \in {a, b} \ {NoTier} : t.expiration = data.expiration
    OBVIOUS
  <2>1. CASE data.expiration = a.expiration
    BY <2>1, <1>2
  <2>2. CASE data.expiration = other.expiration
    <3>1. b # NoTier
      BY <2>2, <1>6 DEF Readable
    <3> QED BY <3>1, <2>2
  <2> QED BY <2>1, <2>2, <1>5
<1> QED BY <1>4, <1>5, <1>7

\* WHOIS is read as absence only of a domain nothing is known of.
LEMMA WHOISRead ==
  ASSUME NEW a \in Known, NEW b \in Known \cup {NoTier}, NEW absent \in BOOLEAN,
         rdapErr \subseteq {"transient", "failed"}
  PROVE  LET s == fetchWHOIS(a, b, absent) IN
         /\ "notfound" \in s.err =>
              /\ absent
              /\ \A t \in {a, b} \ {NoTier} : t.expiration = NoDate /\ t.nameservers = {}
         /\ s.err = {} /\ Readable(s.data.expiration) =>
              \E t \in {a, b} \ {NoTier} : t.expiration = s.data.expiration
<1> DEFINE data == synthesizeTierData(a, b)
<1>1. CASE absent /\ data.expiration = NoDate /\ data.nameservers = {}
  <2>1. fetchWHOIS(a, b, absent) = Failed("WHOIS", {"notfound"})
    BY <1>1 DEF fetchWHOIS
  <2>2. \A t \in {a, b} \ {NoTier} : t.expiration = NoDate /\ t.nameservers = {}
    BY <1>1, Merged
  <2>3. fetchWHOIS(a, b, absent).err = {"notfound"}
    BY <2>1 DEF Failed
  <2> HIDE DEF data
  <2> QED BY <1>1, <2>2, <2>3
<1>2. CASE ~(absent /\ data.expiration = NoDate /\ data.nameservers = {}) /\ data = Silent
  BY <1>2 DEF fetchWHOIS, Failed
<1>3. CASE ~(absent /\ data.expiration = NoDate /\ data.nameservers = {}) /\ data # Silent
  <2>1. fetchWHOIS(a, b, absent) = Concluded("WHOIS", data)
    BY <1>3 DEF fetchWHOIS
  <2> QED BY <2>1, Merged DEF Concluded
<1> QED BY <1>1, <1>2, <1>3

-----------------------------------------------------------------------------
(* What an answer is.                                                      *)

LEMMA AnswerFacts ==
  ASSUME NEW ans \in Answers
  PROVE  /\ ans.kind = "data" => ans.tier \in Known
         /\ ans.absent \in BOOLEAN
         /\ ans.absent => ans.kind = "data" /\ phase \notin {"registry", "registrar"}
<1>1. "data" \notin Kinds
  BY DEF Kinds
<1>2. CASE ans \in Failures
  <2>1. PICK kind \in Kinds : ans = Answer(kind, NoTier, <<>>, FALSE)
    BY <1>2 DEF Failures
  <2>2. ans.kind = kind /\ ans.absent = FALSE
    BY <2>1 DEF Answer
  <2> QED BY <1>1, <2>2
<1>3. CASE ans \in RegistryData
  <2>1. PICK said \in Tiers \X LinkLists : ans = Answer("data", said[1], said[2], FALSE)
    BY <1>3 DEF RegistryData
  <2>2. ans.kind = "data" /\ ans.tier = said[1] /\ ans.absent = FALSE
    BY <2>1 DEF Answer
  <2> QED BY <2>2 DEF Known
<1>4. CASE ans \in RegistrarData
  <2>1. PICK tier \in Tiers : ans = Answer("data", tier, <<>>, FALSE)
    BY <1>4 DEF RegistrarData
  <2>2. ans.kind = "data" /\ ans.tier = tier /\ ans.absent = FALSE
    BY <2>1 DEF Answer
  <2> QED BY <2>2 DEF Known
<1>5. CASE ans \in WHOISData /\ phase \notin {"registry", "registrar"}
  <2>1. PICK tier \in Tiers \cup {Silent}, absent \in BOOLEAN,
             links \in {<<>>} \cup {<<s>> : s \in WHOISReferrals} :
               ans = Answer("data", tier, links, absent)
    BY <1>5 DEF WHOISData
  <2>2. ans.kind = "data" /\ ans.tier = tier /\ ans.absent = absent
    BY <2>1 DEF Answer
  <2> QED BY <1>5, <2>2 DEF Known
<1> QED BY <1>2, <1>3, <1>4, <1>5 DEF Answers

LEMMA NoAnswerFacts == NoAnswer.kind = "none" /\ NoAnswer.absent = FALSE
BY DEF NoAnswer, Answer

\* A check is skipped for absence or for a date that has passed.
LEMMA SkippedFor ==
  ASSUME NEW c, NEW s, EvaluateRDAP(c, s)[1] = "skipped"
  PROVE  \/ "notfound" \in s.err
         \/ /\ s.err = {}
            /\ Readable(s.data.expiration)
            /\ s.data.expiration < 0
<1>1. CASE s.err # {}
  <2>1. classifyRDAPError(c, s.err)[1] = "skipped"
    BY <1>1 DEF EvaluateRDAP
  <2> QED BY <2>1 DEF classifyRDAPError
<1>2. CASE s.err = {}
  <2>1. PromotedStatus(Findings(c, s.data)) # "skipped"
    BY DEF PromotedStatus
  <2> QED BY <1>2, <2>1 DEF EvaluateRDAP
<1> QED BY <1>1, <1>2

-----------------------------------------------------------------------------
(* The invariant is inductive.                                             *)

LEMMA InitHolds == Init => IInv
<1> SUFFICES ASSUME Init PROVE IInv
  OBVIOUS
<1>1. AnswerInv
  BY NoAnswerFacts DEF Init, AnswerInv
<1>2. TierInv
  BY DEF Init, TierInv
<1>3. ConclusionInv /\ KeptInv
  BY DEF Init, ConclusionInv, KeptInv, ExpiryIsConfirmed, Failed, Over
<1> QED BY <1>1, <1>2, <1>3 DEF IInv

\* While a lookup goes on nothing is concluded.
LEMMA GoingOn ==
  ASSUME IInv, phase' \notin Over, phase \notin Over,
         rdapErr' \subseteq {"transient", "failed"},
         UNCHANGED <<snapshot, verdict>>
  PROVE  ConclusionInv'
BY DEF IInv, ConclusionInv, ExpiryIsConfirmed, Over

\* What a lookup that ends now has to show.
LEMMA Ended ==
  ASSUME IInv, phase \notin Over, phase' = "evaluate",
         UNCHANGED <<rdapErr, verdict, heard>>,
         "notfound" \in snapshot'.err =>
           \/ <<"registry", "notfound">> \in heard
           \/ /\ <<"whois", "notfound">> \in heard
              /\ \A t \in Believed' : t.expiration = NoDate /\ t.nameservers = {},
         snapshot'.err = {} /\ Readable(snapshot'.data.expiration) =>
           \E t \in Believed' : t.expiration = snapshot'.data.expiration
  PROVE  ConclusionInv'
BY DEF IInv, ConclusionInv, ExpiryIsConfirmed, Over

LEMMA SelectServersKeeps == IInv /\ SelectServers => IInv'
<1> SUFFICES ASSUME IInv, SelectServers PROVE IInv'
  OBVIOUS
<1> USE DEF SelectServers, Begin, inputs, tiers, history
<1>1. phase' \in {"registry", "whois"} /\ phase = "servers" /\ last' = NoAnswer
  OBVIOUS
<1>2. AnswerInv'
  BY <1>1, NoAnswerFacts DEF AnswerInv
<1>3. TierInv'
  BY <1>1 DEF IInv, TierInv, Parties
<1>4. ConclusionInv'
  BY <1>1, GoingOn DEF IInv, ConclusionInv, Over
<1>5. KeptInv'
  BY <1>1 DEF IInv, KeptInv, Over
<1> QED BY <1>2, <1>3, <1>4, <1>5 DEF IInv

LEMMA AskKeeps == IInv /\ Ask => IInv'
<1> SUFFICES ASSUME IInv, Ask PROVE IInv'
  OBVIOUS
<1>1. /\ phase \in Parties /\ last = NoAnswer /\ last' \in Answers
      /\ UNCHANGED <<phase, registry, registrar, denied, rdapErr, snapshot, verdict>>
  BY DEF Ask, Unanswered, tiers
<1>2. /\ last'.kind = "data" => last'.tier \in Known
      /\ last'.absent \in BOOLEAN
      /\ last'.absent => last'.kind = "data" /\ phase \notin {"registry", "registrar"}
  BY <1>1, AnswerFacts
<1> DEFINE says == IF last'.absent THEN "notfound" ELSE last'.kind
<1>3. heard' = heard \cup ({<<phase, says>>} \cap (Parties \X {"data", "notfound"}))
  BY DEF Ask
<1>4. AnswerInv'
  BY <1>1, <1>2, <1>3 DEF AnswerInv, Parties
<1>5. TierInv'
  BY <1>1, <1>3 DEF IInv, TierInv
<1>6. ConclusionInv'
  BY <1>1, GoingOn DEF IInv, ConclusionInv, Over, Parties
<1>7. KeptInv'
  BY <1>1, <1>2, <1>3, NoAnswerFacts DEF IInv, KeptInv, Over, Parties
<1> QED BY <1>4, <1>5, <1>6, <1>7 DEF IInv

LEMMA RetryKeeps == IInv /\ Retry => IInv'
<1> SUFFICES ASSUME IInv, Retry PROVE IInv'
  OBVIOUS
<1>1. /\ phase \in Parties /\ last' = NoAnswer
      /\ UNCHANGED <<phase, registry, registrar, denied, rdapErr, snapshot, verdict, heard>>
  BY DEF Retry, tiers, history
<1>2. last.kind # "data"
  BY DEF Retry, MayRetry, Retries
<1>3. AnswerInv'
  BY <1>1, NoAnswerFacts DEF AnswerInv
<1>4. TierInv'
  BY <1>1 DEF IInv, TierInv
<1>5. ConclusionInv'
  BY <1>1, GoingOn DEF IInv, ConclusionInv, Over, Parties
<1>6. KeptInv'
  BY <1>1, <1>2 DEF IInv, KeptInv, Over, Parties
<1> QED BY <1>3, <1>4, <1>5, <1>6 DEF IInv

LEMMA RegistryAnswersKeeps == IInv /\ RegistryAnswers => IInv'
<1> SUFFICES ASSUME IInv, RegistryAnswers PROVE IInv'
  OBVIOUS
<1> DEFINE tier == last.tier
           data == synthesizeTierData(tier, NoTier)
<1>1. /\ phase = "registry" /\ last.kind = "data"
      /\ registry' = tier /\ last' = NoAnswer
      /\ UNCHANGED <<registrar, denied, rdapErr, verdict, heard>>
  BY DEF RegistryAnswers, Answered, Begin, Finish, history
<1>2. tier \in Known /\ tier # NoTier /\ registrar = NoTier
  BY <1>1, KnownDates DEF IInv, AnswerInv, TierInv
<1>3. \/ phase' = "registrar" /\ snapshot' = snapshot
      \/ phase' = "evaluate" /\ snapshot' = Concluded("RDAP", data)
  BY DEF RegistryAnswers, Begin, Finish
<1>4. AnswerInv'
  BY <1>1, NoAnswerFacts DEF AnswerInv
<1>5. TierInv'
  BY <1>1, <1>2, <1>3 DEF IInv, TierInv, Parties, Over
<1>6. CASE phase' = "registrar"
  <2>1. ConclusionInv'
    BY <1>1, <1>3, <1>6, GoingOn DEF IInv, ConclusionInv, Over
  <2>2. KeptInv'
    BY <1>6 DEF KeptInv
  <2> QED BY <1>4, <1>5, <2>1, <2>2 DEF IInv
<1>7. CASE phase' = "evaluate"
  <2>1. /\ snapshot'.protocol = "RDAP" /\ snapshot'.err = {} /\ snapshot'.data = data
    BY <1>3, <1>7 DEF Concluded
  <2>2. Believed' = {tier, NoTier} \ {NoTier}
    BY <1>1, <1>2 DEF Believed
  <2>3. ConclusionInv'
    BY <1>1, <1>2, <1>7, <2>1, <2>2, Ended, Merged DEF Over
  <2>4. KeptInv'
    BY <1>1, <1>2, <1>7, <2>1, Merged DEF KeptInv, Kept, Over
  <2> QED BY <1>4, <1>5, <2>3, <2>4 DEF IInv
<1> QED BY <1>3, <1>6, <1>7

LEMMA RegistryDeniesKeeps == IInv /\ RegistryDenies => IInv'
<1> SUFFICES ASSUME IInv, RegistryDenies PROVE IInv'
  OBVIOUS
<1>1. /\ phase = "registry" /\ last.kind = "notfound"
      /\ phase' = "evaluate" /\ last' = NoAnswer
      /\ snapshot'.err = {"notfound"}
      /\ UNCHANGED <<registry, registrar, denied, rdapErr, verdict, heard>>
  BY DEF RegistryDenies, Answered, Begin, Finish, Failed, tiers, history
<1>2. <<"registry", "notfound">> \in heard
  BY <1>1 DEF IInv, AnswerInv
<1>3. AnswerInv'
  BY <1>1, NoAnswerFacts DEF AnswerInv
<1>4. TierInv'
  BY <1>1 DEF IInv, TierInv, Parties, Over
<1>5. ConclusionInv'
  BY <1>1, <1>2, Ended DEF Over
<1>6. KeptInv'
  BY <1>1 DEF IInv, KeptInv, Over
<1> QED BY <1>3, <1>4, <1>5, <1>6 DEF IInv

LEMMA ErrorsFacts == \A kind : Errors(kind) \subseteq {"transient", "failed"}
BY DEF Errors

LEMMA RegistryFailsKeeps == IInv /\ RegistryFails => IInv'
<1> SUFFICES ASSUME IInv, RegistryFails PROVE IInv'
  OBVIOUS
<1>1. /\ phase = "registry" /\ last.kind # "data"
      /\ phase' = "whois" /\ last' = NoAnswer
      /\ UNCHANGED <<registry, registrar, denied, snapshot, verdict, heard>>
  BY DEF RegistryFails, Answered, Begin, tiers
<1>2. rdapErr' \subseteq {"transient", "failed"}
  BY ErrorsFacts DEF RegistryFails
<1>3. AnswerInv'
  BY <1>1, NoAnswerFacts DEF AnswerInv
<1>4. TierInv'
  BY <1>1 DEF IInv, TierInv, Parties
<1>5. ConclusionInv'
  BY <1>1, <1>2, GoingOn DEF Over
<1>6. KeptInv'
  BY <1>1 DEF IInv, KeptInv, Over
<1> QED BY <1>3, <1>4, <1>5, <1>6 DEF IInv

\* What the registry said is merged with what the registrar said, if anything.
LEMMA RegistrarKeeps ==
  ASSUME IInv, phase = "registrar", phase' = "evaluate", last' = NoAnswer,
         NEW b \in Known \cup {NoTier}, registrar' = b,
         snapshot' = Concluded("RDAP", synthesizeTierData(registry, b)),
         UNCHANGED <<registry, denied, rdapErr, verdict, heard>>
  PROVE  IInv'
<1>1. registry \in Known
  BY DEF IInv, TierInv
<1>2. /\ snapshot'.protocol = "RDAP" /\ snapshot'.err = {}
      /\ snapshot'.data = synthesizeTierData(registry, b)
  BY DEF Concluded
<1>3. Believed' = {registry, b} \ {NoTier}
  BY DEF Believed
<1>4. AnswerInv'
  BY NoAnswerFacts DEF AnswerInv
<1>5. TierInv'
  BY DEF IInv, TierInv, Parties, Over
<1>6. ConclusionInv'
  BY <1>1, <1>2, <1>3, Ended, Merged DEF Over
<1>7. KeptInv'
  BY <1>1, <1>2, Merged DEF KeptInv, Kept, Over
<1> QED BY <1>4, <1>5, <1>6, <1>7 DEF IInv

LEMMA RegistrarAnswersKeeps == IInv /\ RegistrarAnswers => IInv'
<1> SUFFICES ASSUME IInv, RegistrarAnswers PROVE IInv'
  OBVIOUS
<1>1. last.tier \in Known
  BY DEF IInv, AnswerInv, RegistrarAnswers
<1> QED BY <1>1, RegistrarKeeps DEF RegistrarAnswers, Answered, Finish, Begin, history

LEMMA RegistrarFailsKeeps == IInv /\ RegistrarFails => IInv'
<1> SUFFICES ASSUME IInv, RegistrarFails PROVE IInv'
  OBVIOUS
<1>1. phase = "registrar" /\ registrar = NoTier
  BY DEF IInv, TierInv, RegistrarFails, Answered
<1> QED BY <1>1, RegistrarKeeps DEF RegistrarFails, Finish, Begin, tiers, history

\* What a WHOIS lookup concludes from one or both of its tiers.
LEMMA WHOISKeeps ==
  ASSUME IInv, phase \in {"whois", "referral"}, phase' = "evaluate", last' = NoAnswer,
         NEW a \in Known, NEW b \in Known \cup {NoTier}, NEW absent \in BOOLEAN,
         absent => <<"whois", "notfound">> \in heard,
         registry' = a, registrar' = b, denied' = absent,
         snapshot' = fetchWHOIS(a, b, absent),
         UNCHANGED <<rdapErr, verdict, heard>>
  PROVE  IInv'
<1>1. rdapErr \subseteq {"transient", "failed"}
  BY DEF IInv, ConclusionInv
<1>2. Believed' = {a, b} \ {NoTier}
  BY DEF Believed
<1>3. AnswerInv'
  BY NoAnswerFacts DEF AnswerInv
<1>4. TierInv'
  BY DEF TierInv, Parties, Over
<1>5. ConclusionInv'
  BY <1>1, <1>2, Ended, WHOISRead DEF Over
<1>6. KeptInv'
  BY DEF IInv, KeptInv, Over
<1> QED BY <1>3, <1>4, <1>5, <1>6 DEF IInv

LEMMA WHOISAnswersKeeps == IInv /\ WHOISAnswers => IInv'
<1> SUFFICES ASSUME IInv, WHOISAnswers PROVE IInv'
  OBVIOUS
<1>1. /\ phase = "whois" /\ last.kind = "data" /\ last' = NoAnswer
      /\ registry' = last.tier /\ denied' = last.absent
      /\ UNCHANGED <<registrar, rdapErr, verdict, heard>>
  BY DEF WHOISAnswers, Answered, Begin, Finish, history
<1>2. /\ last.tier \in Known /\ last.tier # NoTier /\ last.absent \in BOOLEAN
      /\ last.absent => <<"whois", "notfound">> \in heard
      /\ registrar = NoTier
  BY <1>1, KnownDates DEF IInv, AnswerInv, TierInv
<1>3. CASE phase' = "referral" /\ snapshot' = snapshot
  <2>1. AnswerInv'
    BY <1>1, NoAnswerFacts DEF AnswerInv
  <2>2. TierInv'
    BY <1>1, <1>2, <1>3 DEF TierInv, Parties, Over
  <2>3. ConclusionInv'
    BY <1>1, <1>3, GoingOn DEF IInv, ConclusionInv, Over
  <2>4. KeptInv'
    BY <1>1 DEF IInv, KeptInv, Over
  <2> QED BY <2>1, <2>2, <2>3, <2>4 DEF IInv
<1>4. CASE phase' = "evaluate" /\ snapshot' = fetchWHOIS(last.tier, NoTier, last.absent)
  BY <1>1, <1>2, <1>4, WHOISKeeps
<1> QED BY <1>3, <1>4 DEF WHOISAnswers, Begin, Finish

LEMMA WHOISFailsKeeps == IInv /\ WHOISFails => IInv'
<1> SUFFICES ASSUME IInv, WHOISFails PROVE IInv'
  OBVIOUS
<1>1. PICK err \in Errors(last.kind) : Finish(Failed("WHOIS-Failed", rdapErr \cup {err}))
  BY DEF WHOISFails
<1>2. /\ phase = "whois" /\ phase' = "evaluate" /\ last' = NoAnswer
      /\ snapshot'.err = rdapErr \cup {err}
      /\ UNCHANGED <<registry, registrar, denied, rdapErr, verdict, heard>>
  BY <1>1 DEF WHOISFails, Answered, Finish, Begin, Failed, tiers, history
<1>3. "notfound" \notin snapshot'.err /\ snapshot'.err # {}
  BY <1>2, ErrorsFacts DEF IInv, ConclusionInv
<1>4. AnswerInv'
  BY <1>2, NoAnswerFacts DEF AnswerInv
<1>5. TierInv'
  BY <1>2 DEF IInv, TierInv, Parties, Over
<1>6. ConclusionInv'
  BY <1>2, <1>3, Ended DEF Over
<1>7. KeptInv'
  BY <1>2 DEF IInv, KeptInv, Over
<1> QED BY <1>4, <1>5, <1>6, <1>7 DEF IInv

LEMMA ReferralEndsKeeps == IInv /\ ReferralEnds => IInv'
<1> SUFFICES ASSUME IInv, ReferralEnds PROVE IInv'
  OBVIOUS
<1>1. registry \in Known /\ denied \in BOOLEAN /\ (denied => <<"whois", "notfound">> \in heard)
  BY DEF IInv, TierInv, ReferralEnds, Answered
<1>2. registrar' \in Known \cup {NoTier}
  BY DEF IInv, AnswerInv, ReferralEnds
<1>3. /\ phase = "referral" /\ phase' = "evaluate" /\ last' = NoAnswer
      /\ snapshot' = fetchWHOIS(registry, registrar', denied)
      /\ UNCHANGED <<registry, denied, rdapErr, verdict, heard>>
  BY DEF ReferralEnds, Answered, Finish, Begin, history
<1> QED BY <1>1, <1>2, <1>3, WHOISKeeps

LEMMA EvaluateKeeps == IInv /\ Evaluate => IInv'
<1> SUFFICES ASSUME IInv, Evaluate PROVE IInv'
  OBVIOUS
<1>1. /\ phase = "evaluate" /\ phase' = "done"
      /\ verdict' = EvaluateRDAP(config, snapshot)
      /\ UNCHANGED <<last, registry, registrar, denied, rdapErr, snapshot, heard>>
  BY DEF Evaluate, loop, tiers, history
<1>2. AnswerInv'
  BY <1>1 DEF IInv, AnswerInv
<1>3. TierInv'
  BY <1>1 DEF IInv, TierInv, Parties, Over
<1>4. Believed' = Believed
  BY <1>1 DEF Believed
<1>5. verdict'[1] = "skipped" =>
        \/ "notfound" \in snapshot.err
        \/ \E t \in Believed : Readable(t.expiration) /\ t.expiration < 0
  BY <1>1, SkippedFor DEF IInv, ConclusionInv, Over
<1>6. ConclusionInv'
  BY <1>1, <1>4, <1>5 DEF IInv, ConclusionInv, ExpiryIsConfirmed, Over
<1>7. KeptInv'
  BY <1>1 DEF IInv, KeptInv, Kept, Over
<1> QED BY <1>2, <1>3, <1>6, <1>7 DEF IInv

LEMMA NextHolds == IInv /\ [Next]_vars => IInv'
<1> SUFFICES ASSUME IInv, [Next]_vars PROVE IInv'
  OBVIOUS
<1>1. CASE Cancel \/ UNCHANGED vars
  <2>1. UNCHANGED <<phase, last, tiers, rdapErr, snapshot, verdict, heard>>
    BY <1>1 DEF Cancel, vars, loop, tiers, history
  <2> QED BY <2>1 DEF IInv, AnswerInv, TierInv, ConclusionInv, ExpiryIsConfirmed,
                      KeptInv, Kept, Believed, tiers
<1> QED BY <1>1, SelectServersKeeps, AskKeeps, RetryKeeps, RegistryAnswersKeeps,
           RegistryDeniesKeeps, RegistryFailsKeeps, RegistrarAnswersKeeps,
           RegistrarFailsKeeps, WHOISAnswersKeeps, WHOISFailsKeeps,
           ReferralEndsKeeps, EvaluateKeeps DEF Next, Step

-----------------------------------------------------------------------------
(* Theorems.                                                               *)

\* IInv holds in every state of a lookup.
THEOREM LookupInvariant == Spec => []IInv
BY InitHolds, NextHolds, PTL DEF Spec

\* For any servers, tiers and configurations: a domain passes for absent or
\* expired only on the word of a party that was heard.
THEOREM ExpiryNeedsEvidence == Spec => []ExpiryIsConfirmed
<1>1. IInv => ExpiryIsConfirmed
  BY DEF IInv, ConclusionInv
<1> QED BY <1>1, LookupInvariant, PTL

\* For any servers, tiers and configurations: the verdict on a domain of which
\* the registry's RDAP answered is based on that answer.
THEOREM RDAPIsKept == Spec => []PartialRDAPIsKept
<1>1. IInv => PartialRDAPIsKept
  BY DEF IInv, ConclusionInv, KeptInv, Kept, PartialRDAPIsKept, Over
<1> QED BY <1>1, LookupInvariant, PTL

-----------------------------------------------------------------------------
(* Whom the registry's loop has asked, and what a snapshot is merged from: *)
(* two further parts of the invariant.                                     *)

AnswerKinds == {"data", "notfound", "throttled", "unavailable", "refused", "unusable",
                "timeout", "broken"}

\* In each attempt the loop has asked the next server, round and round.
RoundRobin(n) ==
  /\ asked \in Seq(Allowed)
  /\ Len(asked) = n
  /\ \A i \in 1 .. n : asked[i] = targets[((i - 1) % Len(targets)) + 1]

EveryServerHadItsTurn ==
  \A i \in DOMAIN Safe(servers) :
    i <= MaxNetworkAttempts => Safe(servers)[i] \in Range(asked)

ResortInv ==
  /\ servers \in ServerLists
  /\ phase = "servers" => asked = <<>>
  /\ phase = "registry" =>
       /\ targets = Safe(servers) /\ targets # <<>>
       /\ attempt \in 1 .. MaxNetworkAttempts
       /\ RoundRobin(IF last = NoAnswer THEN attempt - 1 ELSE attempt)
       /\ last = NoAnswer \/ last.kind \in AnswerKinds
  /\ <<"registry", "notfound">> \in heard =>
       phase \in Over \/ (phase = "registry" /\ last.kind = "notfound")
  /\ phase \in {"whois", "referral"} => cut \/ EveryServerHadItsTurn

\* The verdict evaluates what the tiers say.
MergeInv ==
  /\ phase \in Over /\ snapshot.err = {} =>
       registry \in Known /\ snapshot.data = synthesizeTierData(registry, registrar)
  /\ phase = "done" => verdict = EvaluateRDAP(config, snapshot)

-----------------------------------------------------------------------------
LEMMA AnswerIsSome == \A ans \in Answers : ans # NoAnswer /\ ans.kind \in AnswerKinds
<1> SUFFICES ASSUME NEW ans \in Answers PROVE ans.kind \in AnswerKinds
  BY NoAnswerFacts DEF AnswerKinds
<1>1. Kinds \subseteq AnswerKinds /\ "data" \in AnswerKinds
  BY DEF Kinds, AnswerKinds
<1>2. CASE ans \in Failures
  <2>1. PICK kind \in Kinds : ans = Answer(kind, NoTier, <<>>, FALSE)
    BY <1>2 DEF Failures
  <2> QED BY <1>1, <2>1 DEF Answer
<1>3. CASE ans \in RegistryData \cup RegistrarData \cup WHOISData
  BY <1>1, <1>3 DEF RegistryData, RegistrarData, WHOISData, Answer
<1> QED BY <1>2, <1>3 DEF Answers

LEMMA TurnIsATarget ==
  ASSUME NEW n \in Nat \ {0}, NEW i \in Nat \ {0}
  PROVE  /\ ((i - 1) % n) + 1 \in 1 .. n
         /\ i <= n => ((i - 1) % n) + 1 = i
<1>1. (i - 1) % n \in 0 .. (n - 1)
  OBVIOUS
<1>2. i <= n => (i - 1) % n = i - 1
  OBVIOUS
<1> QED BY <1>1, <1>2

LEMMA ServersAreASequence ==
  ASSUME servers \in ServerLists
  PROVE  Safe(servers) \in Seq(Allowed) /\ Len(Safe(servers)) \in Nat
BY SafeAssumption

\* One more server had its turn.
LEMMA AskGoesRound ==
  ASSUME IInv, ResortInv, Ask, phase = "registry"
  PROVE  RoundRobin(attempt)'
<1>1. /\ targets \in Seq(Allowed) /\ targets # <<>> /\ Len(targets) \in Nat \ {0}
      /\ attempt \in Nat \ {0}
      /\ last = NoAnswer /\ asked' = Append(asked, Target)
      /\ targets' = targets /\ attempt' = attempt
  BY ServersAreASequence, RDAPLookupAssumption DEF ResortInv, Ask, Unanswered
<1>2. RoundRobin(attempt - 1)
  BY <1>1 DEF ResortInv
<1>3. Target \in Allowed
  BY <1>1, TurnIsATarget DEF Target
<1>4. /\ asked' \in Seq(Allowed) /\ Len(asked') = attempt
      /\ \A i \in 1 .. attempt - 1 : asked'[i] = asked[i]
      /\ asked'[attempt] = Target
  BY <1>1, <1>2, <1>3 DEF RoundRobin
<1>5. ASSUME NEW i \in 1 .. attempt
      PROVE  asked'[i] = targets[((i - 1) % Len(targets)) + 1]
  <2>1. CASE i = attempt
    BY <1>4, <2>1 DEF Target
  <2>2. CASE i # attempt
    <3>1. i \in 1 .. attempt - 1
      BY <1>1, <2>2
    <3> QED BY <1>2, <1>4, <3>1 DEF RoundRobin
  <2> QED BY <2>1, <2>2
<1> QED BY <1>1, <1>4, <1>5 DEF RoundRobin

\* A loop that ends although it was not cut short had enough attempts for
\* every server.
LEMMA EndedByAttempts ==
  ASSUME IInv, ResortInv, RegistryFails, ~cut'
  PROVE  EveryServerHadItsTurn'
<1>1. /\ phase = "registry" /\ last # NoAnswer
      /\ last.kind \notin {"data", "notfound", "broken"}
      /\ ~MayRetry
      /\ UNCHANGED <<servers, asked>>
  BY DEF RegistryFails, Answered, inputs
<1>2. /\ targets = Safe(servers) /\ targets # <<>> /\ Len(targets) \in Nat \ {0}
      /\ targets \in Seq(Allowed)
      /\ attempt \in 1 .. MaxNetworkAttempts
      /\ RoundRobin(attempt)
  BY <1>1, ServersAreASequence DEF ResortInv
<1>3. last.kind \in {"timeout", "throttled", "unavailable", "refused", "unusable"}
  BY <1>1 DEF ResortInv, AnswerKinds
<1>4. MaxNetworkAttempts \in Nat /\ (attempt = MaxNetworkAttempts \/ attempt >= Len(targets))
  BY <1>1, <1>2, <1>3, RDAPLookupAssumption DEF MayRetry, Retries
<1> SUFFICES ASSUME NEW i \in DOMAIN Safe(servers), i <= MaxNetworkAttempts
             PROVE  Safe(servers)[i] \in Range(asked)
  BY <1>1 DEF EveryServerHadItsTurn
<1>5. i \in 1 .. attempt /\ i \in Nat \ {0} /\ i <= Len(targets)
  BY <1>2, <1>4
<1>6. asked[i] = targets[((i - 1) % Len(targets)) + 1]
  BY <1>2, <1>5 DEF RoundRobin
<1>7. ((i - 1) % Len(targets)) + 1 = i
  BY <1>2, <1>5, TurnIsATarget
<1>8. asked[i] = Safe(servers)[i] /\ i \in DOMAIN asked
  BY <1>2, <1>5, <1>6, <1>7 DEF RoundRobin
<1> QED BY <1>8 DEF Range

LEMMA InitResort == Init => ResortInv /\ MergeInv
BY DEF Init, ResortInv, MergeInv, Over

LEMMA ResortStep == IInv /\ ResortInv /\ [Next]_vars => ResortInv'
<1> SUFFICES ASSUME IInv, ResortInv, [Next]_vars PROVE ResortInv'
  OBVIOUS
<1>1. servers' = servers
  BY DEF Next, Step, vars, inputs, SelectServers, Ask, Retry, RegistryAnswers, RegistryDenies,
         RegistryFails, RegistrarAnswers, RegistrarFails, WHOISAnswers, WHOISFails,
         ReferralEnds, Evaluate, Cancel
<1>2. CASE SelectServers
  <2>1. UNCHANGED <<asked, heard, cut>> /\ phase = "servers" /\ asked = <<>>
    BY <1>2 DEF SelectServers, history, ResortInv
  <2>2. <<"registry", "notfound">> \notin heard
    BY <2>1 DEF ResortInv, Over
  <2>3. CASE Safe(servers) # <<>>
    <3>1. /\ phase' = "registry" /\ targets' = Safe(servers) /\ attempt' = 1
          /\ last' = NoAnswer
      BY <1>2, <2>3 DEF SelectServers, Begin
    <3>2. attempt' \in 1 .. MaxNetworkAttempts
      BY <3>1, RDAPLookupAssumption
    <3>3. RoundRobin(attempt - 1)'
      BY <2>1, <3>1 DEF RoundRobin
    <3> QED BY <1>1, <2>1, <2>2, <2>3, <3>1, <3>2, <3>3 DEF ResortInv
  <2>4. CASE Safe(servers) = <<>>
    <3>1. phase' = "whois"
      BY <1>2, <2>4 DEF SelectServers, Begin
    <3>2. EveryServerHadItsTurn'
      BY <1>1, <2>4 DEF EveryServerHadItsTurn
    <3> QED BY <1>1, <2>1, <2>2, <3>1, <3>2 DEF ResortInv
  <2> QED BY <2>3, <2>4
<1>3. CASE Ask
  <2>1. /\ phase \in Parties /\ phase' = phase /\ last = NoAnswer /\ last' \in Answers
        /\ UNCHANGED <<targets, attempt, cut>>
    BY <1>3 DEF Ask, Unanswered
  <2>2. last' # NoAnswer /\ last'.kind \in AnswerKinds
    BY <2>1, AnswerIsSome
  <2> DEFINE says == IF last'.absent THEN "notfound" ELSE last'.kind
  <2>3. heard' = heard \cup ({<<phase, says>>} \cap (Parties \X {"data", "notfound"}))
    BY <1>3 DEF Ask
  <2>4. phase = "registry" => ~last'.absent
    BY <2>1, AnswerFacts
  <2>5. <<"registry", "notfound">> \in heard' => phase = "registry" /\ last'.kind = "notfound"
    BY <2>1, <2>3, <2>4, NoAnswerFacts DEF ResortInv, Over, Parties
  <2>6. CASE phase = "registry"
    <3>1. RoundRobin(attempt)'
      BY <1>3, <2>6, AskGoesRound
    <3> QED BY <1>1, <2>1, <2>2, <2>5, <2>6, <3>1 DEF ResortInv
  <2>7. CASE phase # "registry"
    <3>1. asked' = asked
      BY <1>3, <2>7 DEF Ask
    <3>2. EveryServerHadItsTurn' <=> EveryServerHadItsTurn
      BY <1>1, <3>1 DEF EveryServerHadItsTurn
    <3> QED BY <1>1, <2>1, <2>5, <2>7, <3>1, <3>2 DEF ResortInv, Parties
  <2> QED BY <2>6, <2>7
<1>4. CASE Retry
  <2>1. /\ phase' = phase /\ attempt' = attempt + 1 /\ last # NoAnswer /\ last' = NoAnswer
        /\ attempt < MaxNetworkAttempts /\ Retries(last.kind)
        /\ UNCHANGED <<targets, asked, heard, cut>>
    BY <1>4 DEF Retry, MayRetry, history
  <2>2. ~(phase = "registry" /\ last.kind = "notfound")
    BY <2>1 DEF Retries
  <2>3. EveryServerHadItsTurn' <=> EveryServerHadItsTurn
    BY <1>1, <2>1 DEF EveryServerHadItsTurn
  <2>4. CASE phase = "registry"
    <3>1. attempt \in 1 .. MaxNetworkAttempts /\ RoundRobin(attempt)
      BY <2>1, <2>4 DEF ResortInv
    <3>2. attempt' \in 1 .. MaxNetworkAttempts /\ attempt' - 1 = attempt
      BY <2>1, <3>1, RDAPLookupAssumption
    <3>3. RoundRobin(attempt - 1)'
      BY <2>1, <3>1, <3>2 DEF RoundRobin
    <3> QED BY <1>1, <2>1, <2>2, <2>4, <3>2, <3>3 DEF ResortInv
  <2>5. CASE phase # "registry"
    BY <1>1, <2>1, <2>2, <2>3, <2>5 DEF ResortInv
  <2> QED BY <2>4, <2>5
<1>5. CASE RegistryFails
  <2>1. /\ phase = "registry" /\ phase' = "whois" /\ last.kind # "notfound"
        /\ UNCHANGED <<asked, heard>>
    BY <1>5 DEF RegistryFails, Answered, Begin
  <2>2. cut' \/ EveryServerHadItsTurn'
    BY <1>5, EndedByAttempts
  <2> QED BY <1>1, <2>1, <2>2 DEF ResortInv, Over
<1>6. CASE RegistryAnswers \/ RegistryDenies \/ RegistrarAnswers \/ RegistrarFails
  <2>1. /\ phase \in {"registry", "registrar"} /\ phase' \in {"registrar", "evaluate"}
        /\ phase = "registry" /\ phase' = "registrar" => last.kind = "data"
        /\ phase' = "registrar" => phase = "registry"
        /\ UNCHANGED <<asked, heard, cut>>
    BY <1>6 DEF RegistryAnswers, RegistryDenies, RegistrarAnswers, RegistrarFails, Answered,
                Begin, Finish, history
  <2> QED BY <1>1, <2>1 DEF ResortInv, Over
<1>7. CASE WHOISAnswers \/ WHOISFails \/ ReferralEnds \/ Evaluate
  <2>1. /\ phase \in {"whois", "referral", "evaluate"}
        /\ phase' \in {"referral", "evaluate", "done"}
        /\ phase' = "referral" => phase = "whois"
        /\ UNCHANGED <<asked, heard, cut>>
    BY <1>7 DEF WHOISAnswers, WHOISFails, ReferralEnds, Evaluate, Answered, Begin, Finish,
                history
  <2>2. EveryServerHadItsTurn' <=> EveryServerHadItsTurn
    BY <1>1, <2>1 DEF EveryServerHadItsTurn
  <2> QED BY <1>1, <2>1, <2>2 DEF ResortInv, Over
<1>8. CASE Cancel \/ UNCHANGED vars
  <2>1. UNCHANGED <<servers, phase, targets, attempt, last, asked, heard, cut>>
    BY <1>8 DEF Cancel, vars, inputs, loop, history
  <2> QED BY <2>1 DEF ResortInv, RoundRobin, EveryServerHadItsTurn
<1> QED BY <1>2, <1>3, <1>4, <1>5, <1>6, <1>7, <1>8 DEF Next, Step

LEMMA MergeStep == IInv /\ MergeInv /\ [Next]_vars => MergeInv'
<1> SUFFICES ASSUME IInv, MergeInv, [Next]_vars PROVE MergeInv'
  OBVIOUS
<1>1. CASE phase' \notin Over
  BY <1>1 DEF MergeInv, Over
<1>2. ASSUME phase' = "evaluate", NEW a \in Known, registry' = a,
             \/ snapshot'.err # {}
             \/ snapshot'.data = synthesizeTierData(registry', registrar')
      PROVE  MergeInv'
  BY <1>2 DEF MergeInv
<1>3. CASE RegistryAnswers
  <2>1. CASE phase' = "evaluate"
    <3>1. /\ registry' = last.tier /\ registrar' = NoTier
          /\ snapshot' = Concluded("RDAP", synthesizeTierData(last.tier, NoTier))
          /\ last.tier \in Known
      BY <1>3, <2>1 DEF RegistryAnswers, Answered, Begin, Finish, IInv, TierInv, AnswerInv
    <3> QED BY <1>2, <2>1, <3>1 DEF Concluded
  <2>2. CASE phase' # "evaluate"
    BY <1>1, <1>3, <2>2 DEF RegistryAnswers, Begin, Finish, Over
  <2> QED BY <2>1, <2>2
<1>4. CASE RegistryDenies \/ WHOISFails
  <2>1. PICK protocol, err : err # {} /\ Finish(Failed(protocol, err))
    <3>1. CASE RegistryDenies
      BY <3>1 DEF RegistryDenies
    <3>2. CASE WHOISFails
      <4>1. PICK err \in Errors(last.kind) : Finish(Failed("WHOIS-Failed", rdapErr \cup {err}))
        BY <3>2 DEF WHOISFails
      <4> QED BY <4>1
    <3> QED BY <1>4, <3>1, <3>2
  <2>2. phase' = "evaluate" /\ snapshot'.err # {}
    BY <2>1 DEF Begin, Finish, Failed
  <2> QED BY <2>2 DEF MergeInv
<1>5. CASE RegistrarAnswers
  <2>1. /\ phase' = "evaluate" /\ registry' = registry /\ registrar' = last.tier
        /\ snapshot' = Concluded("RDAP", synthesizeTierData(registry, last.tier))
        /\ registry \in Known
    BY <1>5 DEF RegistrarAnswers, Answered, Begin, Finish, IInv, TierInv
  <2> QED BY <1>2, <2>1 DEF Concluded
<1>6. CASE RegistrarFails
  <2>1. /\ phase' = "evaluate" /\ registry' = registry /\ registrar' = NoTier
        /\ snapshot' = Concluded("RDAP", synthesizeTierData(registry, NoTier))
        /\ registry \in Known
    BY <1>6 DEF RegistrarFails, Answered, Begin, Finish, IInv, TierInv, tiers
  <2> QED BY <1>2, <2>1 DEF Concluded
<1>7. \A a, b, absent : \/ fetchWHOIS(a, b, absent).err # {}
                        \/ fetchWHOIS(a, b, absent).data = synthesizeTierData(a, b)
  BY DEF fetchWHOIS, Failed, Concluded
<1>8. CASE WHOISAnswers
  <2>1. CASE phase' = "evaluate"
    <3>1. /\ registry' = last.tier /\ registrar' = NoTier
          /\ snapshot' = fetchWHOIS(last.tier, NoTier, last.absent)
          /\ last.tier \in Known
      BY <1>8, <2>1 DEF WHOISAnswers, Answered, Begin, Finish, IInv, TierInv, AnswerInv
    <3> QED BY <1>2, <1>7, <2>1, <3>1
  <2>2. CASE phase' # "evaluate"
    BY <1>1, <1>8, <2>2 DEF WHOISAnswers, Begin, Finish, Over
  <2> QED BY <2>1, <2>2
<1>9. CASE ReferralEnds
  <2>1. /\ phase' = "evaluate" /\ registry' = registry
        /\ snapshot' = fetchWHOIS(registry, registrar', denied)
        /\ registry \in Known
    BY <1>9 DEF ReferralEnds, Answered, Begin, Finish, IInv, TierInv
  <2> QED BY <1>2, <1>7, <2>1
<1>10. CASE Evaluate
  BY <1>10 DEF Evaluate, MergeInv, tiers, inputs, Over
<1>11. CASE SelectServers \/ RegistryFails
  <2>1. phase' \in {"registry", "whois"}
    BY <1>11 DEF SelectServers, RegistryFails, Begin
  <2> QED BY <1>1, <2>1 DEF Over
<1>12. CASE Ask \/ Retry
  <2>1. phase' \in Parties
    BY <1>12 DEF Ask, Unanswered, Retry
  <2> QED BY <1>1, <2>1 DEF Over, Parties
<1>13. CASE Cancel \/ UNCHANGED vars
  BY <1>13 DEF Cancel, vars, tiers, inputs, MergeInv
<1> QED BY <1>3, <1>4, <1>5, <1>6, <1>8, <1>9, <1>10, <1>11, <1>12, <1>13 DEF Next, Step

\* Whom the registry's loop has asked, and what a snapshot is merged from.
THEOREM ResortInvariant == Spec => [](IInv /\ ResortInv /\ MergeInv)
<1>1. IInv /\ ResortInv /\ MergeInv /\ [Next]_vars => ResortInv' /\ MergeInv'
  BY ResortStep, MergeStep
<1> QED BY LookupInvariant, InitResort, <1>1, PTL DEF Spec

\* WHOIS is asked only when RDAP said nothing and every server that may be
\* asked had its turn, or the loop was cut short.
THEOREM WHOISComesLast == Spec => []WHOISIsTheLastResort
<1>1. IInv /\ ResortInv /\ MergeInv => WHOISIsTheLastResort
  <2> SUFFICES ASSUME IInv, ResortInv, phase \in {"whois", "referral"}
               PROVE  /\ heard \cap {<<"registry", "data">>, <<"registry", "notfound">>} = {}
                      /\ cut \/ EveryServerHadItsTurn
    BY DEF WHOISIsTheLastResort, EveryServerHadItsTurn
  <2>1. <<"registry", "data">> \notin heard
    BY DEF IInv, KeptInv, Over
  <2>2. <<"registry", "notfound">> \notin heard
    BY DEF ResortInv, Over
  <2> QED BY <2>1, <2>2 DEF ResortInv
<1> QED BY ResortInvariant, <1>1, PTL

-----------------------------------------------------------------------------
(* A healthy verdict.                                                      *)

\* What no finding means.
LEMMA NoFinding ==
  ASSUME NEW c, NEW data, PromotedStatus(Findings(c, data)) = "ok"
  PROVE  /\ Readable(data.expiration)
         /\ ~(data.expiration < 0)
         /\ c.allowExpiry
              \/ ~(data.expiration >= 0 /\ data.expiration <= DefaultRDAPExpiryWarningDays)
         /\ c.nameservers \in {NoName, data.nameservers}
         /\ data.status \cap Holds = {}
<1> DEFINE findings == Findings(c, data)
<1>1. Raised(findings, "failed") = {} /\ Raised(findings, "warning") = {}
  BY DEF PromotedStatus
<1>2. ASSUME NEW i \in 1 .. 8, findings[i].status \in {"failed", "warning"}, i \in DOMAIN findings
      PROVE  ~findings[i].when
  BY <1>1, <1>2 DEF Raised
<1>3. DOMAIN findings = 1 .. 8
  BY DEF Findings
<1>4. /\ findings[1] = Finding(~Readable(data.expiration), "failed", "expiry_unavailable")
      /\ findings[2] = Finding(Readable(data.expiration) /\ data.expiration < 0,
                               "failed", "expired")
      /\ findings[4] = Finding(/\ Readable(data.expiration) /\ data.expiration >= 0
                               /\ data.expiration <= DefaultRDAPExpiryWarningDays
                               /\ ~c.allowExpiry, "warning", "expiring_soon")
      /\ findings[5] = Finding(c.nameservers \notin {NoName, data.nameservers},
                               "failed", "delegation")
      /\ findings[6] = Finding(data.status \cap Holds # {}, "failed", "suspended")
  BY DEF Findings
<1> HIDE DEF findings
<1>5. /\ ~findings[1].when /\ ~findings[2].when /\ ~findings[4].when
      /\ ~findings[5].when /\ ~findings[6].when
  BY <1>2, <1>3, <1>4 DEF Finding
<1>6. ~(~Readable(data.expiration))
  <2> DEFINE when == ~Readable(data.expiration)
  <2>1. findings[1] = Finding(when, "failed", "expiry_unavailable")
    BY <1>4
  <2> HIDE DEF when
  <2>2. findings[1].when = when
    BY <2>1 DEF Finding
  <2>3. ~when
    BY <1>5, <2>2
  <2> QED BY <2>3 DEF when
<1>7. ~(Readable(data.expiration) /\ data.expiration < 0)
  <2> DEFINE when == Readable(data.expiration) /\ data.expiration < 0
  <2>1. findings[2] = Finding(when, "failed", "expired")
    BY <1>4
  <2> HIDE DEF when
  <2>2. findings[2].when = when
    BY <2>1 DEF Finding
  <2>3. ~when
    BY <1>5, <2>2
  <2> QED BY <2>3 DEF when
<1>8. ~(/\ Readable(data.expiration) /\ data.expiration >= 0
        /\ data.expiration <= DefaultRDAPExpiryWarningDays
        /\ ~c.allowExpiry)
  <2> DEFINE when == /\ Readable(data.expiration) /\ data.expiration >= 0
                    /\ data.expiration <= DefaultRDAPExpiryWarningDays
                    /\ ~c.allowExpiry
  <2>1. findings[4] = Finding(when, "warning", "expiring_soon")
    BY <1>4
  <2> HIDE DEF when
  <2>2. findings[4].when = when
    BY <2>1 DEF Finding
  <2>3. ~when
    BY <1>5, <2>2
  <2> QED BY <2>3 DEF when
<1>9. ~(c.nameservers \notin {NoName, data.nameservers})
  <2> DEFINE when == c.nameservers \notin {NoName, data.nameservers}
  <2>1. findings[5] = Finding(when, "failed", "delegation")
    BY <1>4
  <2> HIDE DEF when
  <2>2. findings[5].when = when
    BY <2>1 DEF Finding
  <2>3. ~when
    BY <1>5, <2>2
  <2> QED BY <2>3 DEF when
<1>10. ~(data.status \cap Holds # {})
  <2> DEFINE when == data.status \cap Holds # {}
  <2>1. findings[6] = Finding(when, "failed", "suspended")
    BY <1>4
  <2> HIDE DEF when
  <2>2. findings[6].when = when
    BY <2>1 DEF Finding
  <2>3. ~when
    BY <1>5, <2>2
  <2> QED BY <2>3 DEF when
<1> QED BY <1>6, <1>7, <1>8, <1>9, <1>10

\* The merged date is the earlier one.
LEMMA MergedIsEarlier ==
  ASSUME NEW a \in Known, NEW b \in Known \cup {NoTier},
         Readable(synthesizeTierData(a, b).expiration)
  PROVE  LET date == synthesizeTierData(a, b).expiration IN
         /\ date \in Int
         /\ \A t \in {a, b} \ {NoTier} : Readable(t.expiration) =>
              t.expiration \in Int /\ t.expiration >= date
<1> DEFINE other == IF b = NoTier THEN Silent ELSE b
<1>1. /\ a.expiration \in Int \cup {NoDate, Garbled}
      /\ other.expiration \in Int \cup {NoDate, Garbled}
      /\ b # NoTier => other = b
  BY KnownDates DEF Known
<1>2. synthesizeTierData(a, b).expiration
        = synthesizeTierExpiration(a.expiration, other.expiration)
  BY DEF synthesizeTierData
<1> HIDE DEF other
<1>3. ASSUME NEW x \in Int \cup {NoDate, Garbled}, NEW y \in Int \cup {NoDate, Garbled},
             Readable(synthesizeTierExpiration(x, y))
      PROVE  /\ synthesizeTierExpiration(x, y) \in Int
             /\ Readable(x) => x \in Int /\ x >= synthesizeTierExpiration(x, y)
             /\ Readable(y) => y \in Int /\ y >= synthesizeTierExpiration(x, y)
  BY <1>3, RDAPLookupAssumption DEF synthesizeTierExpiration, Readable
<1> QED BY <1>1, <1>2, <1>3

\* A healthy verdict hides nothing, for any servers, tiers and configurations.
THEOREM OkIsOk == Spec => []OkHidesNothing
<1>1. IInv /\ ResortInv /\ MergeInv => OkHidesNothing
  <2> SUFFICES ASSUME IInv, MergeInv, verdict[1] = "ok"
               PROVE  /\ \E t \in Believed : Readable(t.expiration)
                      /\ \A t \in Believed :
                           /\ t.status \cap Holds = {}
                           /\ Readable(t.expiration) =>
                                t.expiration > IF config.allowExpiry THEN -1
                                               ELSE DefaultRDAPExpiryWarningDays
                      /\ registry.nameservers # {} /\ config.nameservers # NoName =>
                           registry.nameservers = config.nameservers
    BY DEF OkHidesNothing
  <2> DEFINE data == snapshot.data
  <2>1. phase = "done" /\ EvaluateRDAP(config, snapshot)[1] = "ok"
    BY DEF IInv, ConclusionInv, MergeInv
  <2>2. snapshot.err = {}
    <3>1. classifyRDAPError(config, snapshot.err)[1] # "ok"
      BY DEF classifyRDAPError
    <3> QED BY <2>1, <3>1 DEF EvaluateRDAP
  <2>3. PromotedStatus(Findings(config, data)) = "ok"
    BY <2>1, <2>2 DEF EvaluateRDAP
  <2>4. /\ registry \in Known /\ data = synthesizeTierData(registry, registrar)
        /\ registrar \in Known \cup {NoTier}
        /\ Believed = {registry, registrar} \ {NoTier}
    BY <2>1, <2>2 DEF MergeInv, IInv, TierInv, Over, Believed
  <2>5. /\ Readable(data.expiration)
        /\ ~(data.expiration < 0)
        /\ config.allowExpiry
             \/ ~(data.expiration >= 0 /\ data.expiration <= DefaultRDAPExpiryWarningDays)
        /\ config.nameservers \in {NoName, data.nameservers}
        /\ data.status \cap Holds = {}
    BY <2>3, NoFinding
  <2> HIDE DEF data
  <2>6. \E t \in Believed : Readable(t.expiration)
    BY <2>4, <2>5, Merged
  <2>7. /\ data.expiration \in Int
        /\ \A t \in Believed : Readable(t.expiration) =>
             t.expiration \in Int /\ t.expiration >= data.expiration
    BY <2>4, <2>5, MergedIsEarlier
  <2>8. \A t \in Believed : Readable(t.expiration) =>
          t.expiration > IF config.allowExpiry THEN -1 ELSE DefaultRDAPExpiryWarningDays
    BY <2>5, <2>7, RDAPLookupAssumption
  <2>9. \A t \in Believed : t.status \subseteq data.status
    BY <2>4 DEF synthesizeTierData
  <2>10. registry.nameservers # {} => data.nameservers = registry.nameservers
    BY <2>4, Merged
  <2> QED BY <2>5, <2>6, <2>8, <2>9, <2>10
<1> QED BY ResortInvariant, <1>1, PTL
=============================================================================
