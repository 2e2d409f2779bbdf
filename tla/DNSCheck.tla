------------------------------ MODULE DNSCheck ------------------------------
(***************************************************************************)
(* One check of a configured DNS record (dns.go): the configured task is   *)
(* normalised, resolvers are asked one after the other until two distinct  *)
(* ones have given usable evidence, an alias that is published as          *)
(* addresses has its expected names resolved in the same way, and the      *)
(* evidence is evaluated.                                                  *)
(*                                                                         *)
(* The zone does not change during a check.  An honest resolver answers    *)
(* what the zone holds or fails (timeout, SERVFAIL, refusal, a response    *)
(* that does not match the question, a context that is done); a faulty one *)
(* answers anything.  An error is the set of the kinds it wraps, so        *)
(* errors.Is(err, ErrNXDOMAIN) is "nxdomain" \in err and nil is {}.        *)
(* Record lists are sorted and compacted by the code and are sets here.    *)
(***************************************************************************)
EXTENDS Integers, FiniteSets, Sequences, Functions, FiniteSetsExt

CONSTANTS
  Tasks,               \* DNS tasks as they are written in the configuration
  ResolverLists,       \* lists of global resolvers
  EndpointOf,          \* entry |-> lower-case address with its port
  Hosts,               \* names that can be queried
  RData,               \* record type |-> the values such records have
  Zones,               \* what the zone may hold: host |-> record sets
  NoName,              \* the host does not exist
  Fits,                \* <<expected, found>> with expected a prefix or part
  TagOf,               \* CAA value |-> its tag
  MaxNetworkAttempts,
  NoList,              \* a nil list
  NoResolver           \* no custom resolver

ASSUME DNSCheckAssumption ==
  /\ MaxNetworkAttempts \in Nat \ {0, 1}
  /\ ResolverLists \subseteq Seq(DOMAIN EndpointOf) \ {<<>>}
  /\ NoResolver \notin DOMAIN EndpointOf
  /\ {"A", "AAAA"} \subseteq DOMAIN RData
  /\ Zones \subseteq [Hosts -> {NoName} \cup [DOMAIN RData -> SUBSET UNION
                                              {RData[q] : q \in DOMAIN RData}]]

VARIABLES
  configured,    \* the task as configured
  resolvers,     \* app.resolvers()
  zone,          \* what the zone holds
  faulty,        \* endpoints that may answer anything
  phase,         \* what is being collected
  lookup,        \* the lookup in progress at one resolver
  observations,  \* what the resolvers asked so far have said
  snapshot,      \* the DNSSnapshot
  index,         \* position in the expected values
  partial,       \* the A records of an expected name, its AAAA not asked yet
  verdict        \* status of the check

inputs == <<configured, resolvers, zone, faulty>>
vars == <<inputs, phase, lookup, observations, snapshot, index, partial, verdict>>

-----------------------------------------------------------------------------
(* Configuration.                                                          *)

Elements(list) == IF list = NoList THEN {} ELSE Range(list)

IPs == RData["A"] \cup RData["AAAA"]

\* An alias is expected to be published as names or as addresses.
ASSUME TaskAssumption ==
  /\ NoList # <<>>
  /\ \A t \in Tasks :
       /\ DOMAIN t = {"host", "type", "expected", "match", "custom", "domainCAA"}
       /\ t.host \in Hosts
       /\ t.type \in DOMAIN RData \cup {"IP", "ALIAS"}
       /\ t.expected = NoList \/ t.expected \in Seq(Elements(t.expected))
       /\ t.custom \in DOMAIN EndpointOf \cup {NoResolver}
       /\ t.type \in {"ALIAS", "CNAME"} => Elements(t.expected) \subseteq Hosts \cup IPs

\* The list under construction starts as a nil slice, so that nothing
\* remains of a list without values.
normalizeDNSTaskExpected(list) == IF list = <<>> THEN NoList ELSE list

\* A task must have a list, and an empty one only with exact matching.
validTask(t) ==
  /\ t.expected # NoList
  /\ t.expected = <<>> => t.match = "exact"

task == [configured EXCEPT !.expected = normalizeDNSTaskExpected(@)]

\* The expected values to loop over: none of a nil list.
expectedValues == IF task.expected = NoList THEN <<>> ELSE task.expected

\* FetchDNSSnapshot and the resolution of expected names.
ResolversFor(p) ==
  IF task.custom # NoResolver THEN <<task.custom>> ELSE resolvers

Resolvers == ResolversFor(phase)

needed == IF Len(Resolvers) > 1 THEN 2 ELSE 1

-----------------------------------------------------------------------------
(* Answers and lookups.                                                    *)

Data(records) == [records |-> records, err |-> {}]
NXDomain == [records |-> {}, err |-> {"nxdomain"}]
Failure == [records |-> {}, err |-> {"failure"}]

Truth(host, qtype) ==
  IF zone[host] = NoName THEN NXDomain ELSE Data(zone[host][qtype])

Answers(endpoint, host, qtype) ==
  IF endpoint \in faulty
  THEN {NXDomain, Failure} \cup {Data(records) : records \in SUBSET RData[qtype]}
  ELSE {Truth(host, qtype), Failure}

\* resolveTargetWithResolvers for the record, queryDNS for an expected name.
Queries(p) ==
  CASE p = "expectedA" -> <<"A">>
    [] p = "expectedAAAA" -> <<"AAAA">>
    [] p = "record" ->
         IF task.type \in {"IP", "ALIAS"} THEN <<"A", "AAAA">> ELSE <<task.type>>

Host == IF phase = "record" THEN task.host ELSE expectedValues[index]

\* CNAME flattening: the name has no CNAME but one is expected.
Flattens(qtype, answer) ==
  /\ phase = "record"
  /\ qtype = "CNAME"
  /\ answer = Data({})
  /\ Elements(task.expected) # {}

NoLookup == [resolver |-> NoResolver, todo |-> <<>>, records |-> {}, err |-> {}]

EndpointsOf(list) == {EndpointOf[list[i]] : i \in DOMAIN list}
observed == {EndpointOf[observations[i].resolver] : i \in DOMAIN observations}

\* Mutant: entries are compared as they are written.
Unseen_ByEntry ==
  {i \in DOMAIN Resolvers :
     \A j \in DOMAIN observations : observations[j].resolver # Resolvers[i]}

\* Mutant: duplicate entries use up the attempts.
Unseen_CountsEntries ==
  {i \in DOMAIN Resolvers : /\ EndpointOf[Resolvers[i]] \notin observed
                            /\ i <= MaxNetworkAttempts}

\* Entries that name an endpoint nobody has asked yet.
Unseen == {i \in DOMAIN Resolvers : EndpointOf[Resolvers[i]] \notin observed}

Usable(o) == o.err = {} \/ "nxdomain" \in o.err

\* The usable observations: a set, since each is of an endpoint of its own.
selected == {o \in Range(observations) : Usable(o)}

Collected ==
  \/ Cardinality(selected) = needed
  \/ Len(observations) = MaxNetworkAttempts
  \/ Unseen = {}

Collecting == phase \in {"record", "expectedA", "expectedAAAA"}

\* The next turn of the loop in collectDNSObservations.
StartLookup ==
  /\ Collecting
  /\ lookup = NoLookup
  /\ ~Collected
  /\ Unseen # {}
  /\ lookup' = [resolver |-> Resolvers[Min(Unseen)], todo |-> Queries(phase),
                records |-> {}, err |-> {}]
  /\ UNCHANGED <<inputs, phase, observations, snapshot, index, partial, verdict>>

\* queryDNSOne: one query to one resolver, which is not repeated.
Exchange ==
  /\ lookup.todo # <<>>
  /\ LET qtype == Head(lookup.todo) IN
     \E answer \in Answers(EndpointOf[lookup.resolver], Host, qtype) :
       lookup' = [lookup EXCEPT
         !.todo = IF Flattens(qtype, answer) THEN <<"A", "AAAA">> ELSE Tail(@),
         !.records = @ \cup answer.records,
         !.err = @ \cup answer.err]
  /\ UNCHANGED <<inputs, phase, observations, snapshot, index, partial, verdict>>

\* The lookup returns.  Addresses found beside an error are returned with it,
\* except those of a flattened CNAME.
Observe ==
  /\ lookup # NoLookup
  /\ lookup.todo = <<>>
  /\ observations' = Append(observations,
       [resolver |-> lookup.resolver,
        records |-> IF lookup.err # {} /\ task.type = "CNAME" THEN {} ELSE lookup.records,
        err |-> lookup.err])
  /\ lookup' = NoLookup
  /\ UNCHANGED <<inputs, phase, snapshot, index, partial, verdict>>

-----------------------------------------------------------------------------
(* Comparing what was observed.                                            *)

\* Mutant: all causes are joined.
incompleteResolverCause_JoinsAll(errs) == {"incomplete"} \cup UNION errs

\* NXDOMAIN of some is not passed on as absence.
incompleteResolverCause(errs) ==
  {"incomplete"} \cup UNION {err \in errs : "nxdomain" \notin err}

\* queryDNS and FetchDNSSnapshot.  One resolver is believed; two have to
\* agree.
Decision ==
  LET first == observations[1]
      errs == {o.err : o \in selected}
      found == {o.records : o \in selected}
      Failed(err) == [records |-> first.records, err |-> err]
  IN
  IF needed = 1 THEN [records |-> first.records, err |-> first.err]
  ELSE IF Cardinality(selected) < needed
  THEN Failed(incompleteResolverCause({o.err : o \in Range(observations)}))
  ELSE CASE {} \notin errs -> Failed(UNION errs)
         [] errs = {{}} /\ Cardinality(found) = 1 -> Data(UNION found)
         [] errs = {{}} /\ Cardinality(found) # 1 -> Failed({"disagreement"})
         [] OTHER -> Failed(incompleteResolverCause(errs))

Decided == Collecting /\ lookup = NoLookup /\ Collected

\* An alias that is published as addresses is compared by address.
DecideRecord ==
  /\ phase = "record"
  /\ Decided
  /\ snapshot' = [records |-> Decision.records, err |-> Decision.err,
                  observations |-> observations, expected |-> {}]
  /\ phase' = IF /\ Decision.err = {}
                 /\ task.type \in {"ALIAS", "CNAME"}
                 /\ Decision.records \cap IPs # {}
              THEN "expected" ELSE "evaluate"
  /\ observations' = <<>>
  /\ UNCHANGED <<inputs, lookup, index, partial, verdict>>

\* The loop over target.Expected.
NextExpected ==
  /\ phase = "expected"
  /\ \/ /\ index \notin DOMAIN expectedValues
        /\ phase' = "evaluate"
        /\ UNCHANGED <<snapshot, index>>
     \/ /\ index \in DOMAIN expectedValues
        /\ expectedValues[index] \in IPs
        /\ snapshot' = [snapshot EXCEPT !.expected = @ \cup {expectedValues[index]}]
        /\ index' = index + 1
        /\ UNCHANGED phase
     \/ /\ index \in DOMAIN expectedValues
        /\ expectedValues[index] \notin IPs
        /\ phase' = "expectedA"
        /\ UNCHANGED <<snapshot, index>>
  /\ UNCHANGED <<inputs, lookup, observations, partial, verdict>>

\* queryIPRecords asks for the AAAA records whatever became of the A records.
DecideA ==
  /\ phase = "expectedA"
  /\ Decided
  /\ partial' = Decision
  /\ phase' = "expectedAAAA"
  /\ observations' = <<>>
  /\ UNCHANGED <<inputs, lookup, snapshot, index, verdict>>

DecideAAAA ==
  /\ phase = "expectedAAAA"
  /\ Decided
  /\ LET err == partial.err \cup Decision.err IN
     IF err # {}
     THEN /\ snapshot' = [snapshot EXCEPT !.err = err]
          /\ phase' = "evaluate"
          /\ UNCHANGED index
     ELSE /\ snapshot' = [snapshot EXCEPT !.expected =
                            @ \cup partial.records \cup Decision.records]
          /\ index' = index + 1
          /\ phase' = "expected"
  /\ observations' = <<>>
  /\ partial' = Data({})
  /\ UNCHANGED <<inputs, lookup, verdict>>

-----------------------------------------------------------------------------
(* Evaluation.                                                             *)

\* A domain policy says nothing about the tags it does not name.
caaTagIsUnconstrained(found, expected) ==
  \A e \in expected : TagOf[e] # TagOf[found]

validateRecords(t, expected, found) ==
  CASE t.match = "text" -> \A e \in expected : \E f \in found : <<e, f>> \in Fits
    [] t.match = "any_of" -> found \cap expected # {}
    [] t.match = "exact" ->
         /\ expected \subseteq found
         /\ \A f \in found \ expected :
              t.domainCAA /\ caaTagIsUnconstrained(f, expected)

EvaluateDNS(t, records, err, expected) ==
  LET absence == t.expected = <<>> /\ "nxdomain" \in err IN
  IF err # {} /\ ~absence THEN "failed"
  ELSE IF validateRecords(t, IF expected # {} THEN expected ELSE Elements(t.expected),
                          IF absence THEN {} ELSE records)
       THEN "ok" ELSE "mismatch"

Evaluate ==
  /\ phase = "evaluate"
  /\ verdict' = EvaluateDNS(task, snapshot.records, snapshot.err, snapshot.expected)
  /\ phase' = "done"
  /\ UNCHANGED <<inputs, lookup, observations, snapshot, index, partial>>

-----------------------------------------------------------------------------
Init ==
  /\ configured \in {t \in Tasks : validTask(t)}
  /\ resolvers \in ResolverLists
  /\ zone \in Zones
  /\ faulty \in {{}} \cup {{EndpointOf[r]} : r \in DOMAIN EndpointOf}
  /\ phase = "record"
  /\ lookup = NoLookup
  /\ observations = <<>>
  /\ snapshot = [records |-> {}, err |-> {}, observations |-> <<>>, expected |-> {}]
  /\ index = 1
  /\ partial = Data({})
  /\ verdict = "pending"

Next ==
  \/ StartLookup \/ Exchange \/ Observe
  \/ DecideRecord \/ NextExpected \/ DecideA \/ DecideAAAA
  \/ Evaluate

Spec == Init /\ [][Next]_vars

-----------------------------------------------------------------------------
(* Properties.                                                             *)

\* What an honest resolver that does not fail reports of the record.
TrueRecords ==
  LET data == zone[task.host] IN
  CASE task.type \in {"IP", "ALIAS"} -> data["A"] \cup data["AAAA"]
    [] task.type = "CNAME" /\ data["CNAME"] = {} /\ Elements(task.expected) # {} ->
         data["A"] \cup data["AAAA"]
    [] OTHER -> data[task.type]

\* The expected names, when they are compared by address.
ExpectedNames ==
  IF task.type \in {"ALIAS", "CNAME"} /\ TrueRecords \cap IPs # {}
  THEN Elements(task.expected) \ IPs ELSE {}

TrueExpected ==
  IF task.type \in {"ALIAS", "CNAME"} /\ TrueRecords \cap IPs # {}
  THEN (Elements(task.expected) \cap IPs) \cup
       UNION {zone[n]["A"] \cup zone[n]["AAAA"] : n \in ExpectedNames}
  ELSE {}

TrueVerdict ==
  IF \/ zone[task.host] = NoName
     \/ \E n \in ExpectedNames : zone[n] = NoName
  THEN "failed"
  ELSE EvaluateDNS(task, TrueRecords, {}, TrueExpected)

\* With more than one global resolver, a single faulty one never decides what
\* a check reports: whatever it answers to any query of the check, and
\* whichever others fail, a verdict on the records is the one the zone
\* deserves.  This is what the two observations of queryDNS and
\* FetchDNSSnapshot are for.
OneFaultyNeverDecides ==
  Len(Resolvers) > 1 /\ verdict \in {"ok", "mismatch"} => verdict = TrueVerdict

\* A single resolver cannot make a name absent: an error that passes for
\* NXDOMAIN (errors.Is) means that the host or an expected name of it does not
\* exist, even where failures, A and AAAA results are joined.
AbsenceIsCorroborated ==
  /\ Len(Resolvers) > 1
  /\ "nxdomain" \in snapshot.err
  => \/ zone[task.host] = NoName
     \/ \E n \in Elements(task.expected) \cap Hosts : zone[n] = NoName

\* The endpoints a check may ask: the first distinct ones of the list.
FirstEndpoints ==
  {EndpointOf[Resolvers[i]] : i \in
    {i \in DOMAIN Resolvers :
       Cardinality(EndpointsOf(SubSeq(Resolvers, 1, i))) <= MaxNetworkAttempts}}

\* A record check gives up for want of evidence only when every distinct
\* endpoint within the attempts was asked: a duplicate entry, or a resolver
\* that failed first, costs no other resolver its turn.
EvidenceIsExhausted ==
  LET said == snapshot.observations IN
  /\ said # <<>>
  /\ Len(Resolvers) > 1
  /\ Cardinality({o \in Range(said) : Usable(o)}) < 2
  => {EndpointOf[said[i].resolver] : i \in DOMAIN said} = FirstEndpoints

\* src/README.md:202 and TestEvaluateDNSExplicitEmptyAcceptsNXDOMAIN: a task
\* with an explicit empty list monitors for absence, and NXDOMAIN is absence.
ExplicitAbsenceAcceptsNXDOMAIN ==
  /\ verdict # "pending"
  /\ configured.expected = <<>>
  /\ "nxdomain" \in snapshot.err
  => verdict = "ok"
=============================================================================
