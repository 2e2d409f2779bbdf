--------------------------- MODULE DNSCheckProofs ---------------------------
(***************************************************************************)
(* Theorems about DNSCheck, for any task, any lists of resolvers, any zone *)
(* and any one faulty endpoint: what two observations are worth, and when  *)
(* a check may give up looking for them.                                   *)
(***************************************************************************)
EXTENDS DNSCheck, SetFacts, FiniteSetTheorems, SequenceTheorems, TLAPS

Values == UNION {RData[q] : q \in DOMAIN RData}
Errors == SUBSET {"nxdomain", "failure"}
Said == [resolver : DOMAIN EndpointOf, records : SUBSET Values, err : Errors]
Lookups == [resolver : DOMAIN EndpointOf, todo : Seq(DOMAIN RData),
            records : SUBSET Values, err : Errors]

\* What a check starts from and never changes.
Given ==
  /\ configured \in Tasks
  /\ resolvers \in ResolverLists
  /\ zone \in Zones
  /\ \A e, f \in faulty : e = f

Comparing == phase \in {"expected", "expectedA", "expectedAAAA"}

\* Expected names are resolved for aliases only, and every collection starts
\* afresh.
Typed ==
  /\ phase \in {"record", "expected", "expectedA", "expectedAAAA", "evaluate", "done"}
  /\ lookup = NoLookup \/ lookup \in Lookups
  /\ observations \in Seq(Said)
  /\ index \in Nat \ {0}
  /\ Comparing => task.type \in {"ALIAS", "CNAME"}
  /\ phase \in {"expectedA", "expectedAAAA"} =>
       index \in DOMAIN expectedValues /\ expectedValues[index] \notin IPs
  /\ ~Collecting => lookup = NoLookup /\ observations = <<>>

-----------------------------------------------------------------------------
(* The task and the resolvers.                                             *)

LEMMA TaskFacts ==
  ASSUME Given
  PROVE  /\ task.host \in Hosts
         /\ task.type \in DOMAIN RData \cup {"IP", "ALIAS"}
         /\ task.expected # <<>>
         /\ expectedValues \in Seq(Elements(task.expected))
         /\ Elements(task.expected) = Range(expectedValues)
         /\ task.type \in {"ALIAS", "CNAME"} => Elements(task.expected) \subseteq Hosts \cup IPs
<1>1. /\ task.host = configured.host
      /\ task.type = configured.type
      /\ task.expected = normalizeDNSTaskExpected(configured.expected)
  BY TaskAssumption DEF Given, task
<1>2. /\ task.host \in Hosts
      /\ task.type \in DOMAIN RData \cup {"IP", "ALIAS"}
  BY <1>1, TaskAssumption DEF Given
<1>3. /\ configured.expected = NoList \/ configured.expected \in Seq(Elements(configured.expected))
      /\ NoList # <<>>
      /\ configured.type \in {"ALIAS", "CNAME"} =>
           Elements(configured.expected) \subseteq Hosts \cup IPs
  BY TaskAssumption DEF Given
<1>4. CASE configured.expected \in {NoList, <<>>}
  <2>1. task.expected = NoList
    BY <1>1, <1>3, <1>4 DEF normalizeDNSTaskExpected
  <2>2. Elements(task.expected) = {} /\ expectedValues = <<>>
    BY <2>1 DEF Elements, expectedValues
  <2> QED BY <1>2, <1>3, <2>1, <2>2 DEF Range
<1>5. CASE configured.expected \notin {NoList, <<>>}
  <2>1. task.expected = configured.expected
    BY <1>1, <1>5 DEF normalizeDNSTaskExpected
  <2>2. expectedValues = task.expected /\ Elements(task.expected) = Range(task.expected)
    BY <2>1, <1>5 DEF Elements, expectedValues
  <2> QED BY <1>1, <1>2, <1>3, <1>5, <2>1, <2>2
<1> QED BY <1>4, <1>5

LEMMA ResolverFacts ==
  ASSUME Given
  PROVE  Resolvers \in Seq(DOMAIN EndpointOf) /\ Resolvers # <<>>
<1>1. task.custom = configured.custom
  BY TaskAssumption DEF Given, task
<1>2. task.custom \in DOMAIN EndpointOf \cup {NoResolver}
  BY <1>1, TaskAssumption DEF Given
<1>3. resolvers \in Seq(DOMAIN EndpointOf) /\ resolvers # <<>>
  BY DNSCheckAssumption DEF Given
<1>4. CASE task.custom = NoResolver
  BY <1>3, <1>4 DEF Resolvers, ResolversFor
<1>5. CASE task.custom # NoResolver
  <2>1. <<task.custom>> \in Seq(DOMAIN EndpointOf) /\ <<task.custom>> # <<>>
    BY <1>2, <1>5
  <2> QED BY <1>5, <2>1 DEF Resolvers, ResolversFor
<1> QED BY <1>4, <1>5

\* Every name that is asked for is one.
LEMMA HostFacts ==
  ASSUME Given, Typed, Collecting
  PROVE  Host \in Hosts
<1>1. CASE phase = "record"
  BY <1>1, TaskFacts DEF Host
<1>2. CASE phase # "record"
  <2>1. /\ index \in DOMAIN expectedValues
        /\ expectedValues[index] \notin IPs
        /\ task.type \in {"ALIAS", "CNAME"}
    BY <1>2 DEF Typed, Collecting, Comparing
  <2>2. expectedValues[index] \in Elements(task.expected)
    BY <2>1, TaskFacts DEF Range
  <2> QED BY <1>2, <2>1, <2>2, TaskFacts DEF Host
<1> QED BY <1>1, <1>2

LEMMA QueryFacts ==
  ASSUME Given, Typed, Collecting
  PROVE  Queries(phase) \in Seq(DOMAIN RData) /\ Queries(phase) # <<>>
<1>1. {"A", "AAAA"} \subseteq DOMAIN RData
  BY DNSCheckAssumption
<1>2. task.type \notin {"IP", "ALIAS"} => task.type \in DOMAIN RData
  BY TaskFacts
<1>3. \A q, r \in DOMAIN RData : /\ <<q>> \in Seq(DOMAIN RData) /\ <<q>> # <<>>
                                 /\ <<q, r>> \in Seq(DOMAIN RData) /\ <<q, r>> # <<>>
  OBVIOUS
<1>4. CASE phase = "record" /\ task.type \in {"IP", "ALIAS"}
  BY <1>1, <1>3, <1>4 DEF Queries
<1>5. CASE phase = "record" /\ task.type \notin {"IP", "ALIAS"}
  BY <1>2, <1>3, <1>5 DEF Queries
<1>6. CASE phase \in {"expectedA", "expectedAAAA"}
  BY <1>1, <1>3, <1>6 DEF Queries
<1> QED BY <1>4, <1>5, <1>6 DEF Collecting

\* Answers are records or an error, and an honest one that is not a failure
\* is the truth.
LEMMA AnswerFacts ==
  ASSUME Given, NEW host \in Hosts, NEW qtype \in DOMAIN RData, NEW endpoint,
         NEW answer \in Answers(endpoint, host, qtype)
  PROVE  /\ answer.records \in SUBSET Values
         /\ answer.err \in Errors
         /\ endpoint \notin faulty =>
              /\ "nxdomain" \in answer.err => zone[host] = NoName
              /\ answer.err = {} => /\ zone[host] # NoName
                                    /\ answer = Data(zone[host][qtype])
<1>1. zone[host] # NoName => zone[host][qtype] \in SUBSET Values
  BY DNSCheckAssumption DEF Given, Values
<1>2. RData[qtype] \subseteq Values
  BY DEF Values
<1>3. CASE endpoint \in faulty
  BY <1>2, <1>3 DEF Answers, NXDomain, Failure, Data, Errors
<1>4. CASE endpoint \notin faulty
  BY <1>1, <1>4 DEF Answers, Truth, NXDomain, Failure, Data, Errors
<1> QED BY <1>3, <1>4

-----------------------------------------------------------------------------
(* Types.                                                                  *)

LEMMA InputsStay ==
  ASSUME UNCHANGED inputs
  PROVE  /\ task' = task
         /\ expectedValues' = expectedValues
         /\ Resolvers' = Resolvers
         /\ needed' = needed
         /\ zone' = zone /\ faulty' = faulty
         /\ Given => Given'
BY DEF inputs, task, expectedValues, Resolvers, ResolversFor, needed, Given

LEMMA UnseenFacts ==
  ASSUME Given, Unseen # {}
  PROVE  /\ Min(Unseen) \in Unseen
         /\ Min(Unseen) \in DOMAIN Resolvers
         /\ \A i \in Unseen : Min(Unseen) <= i
         /\ Resolvers[Min(Unseen)] \in DOMAIN EndpointOf
         /\ EndpointOf[Resolvers[Min(Unseen)]] \notin observed
<1>1. Unseen \in SUBSET Nat
  BY ResolverFacts DEF Unseen
<1>2. \E x \in Unseen : \A y \in Unseen : x <= y
  BY <1>1, NatLeastElement
<1>3. Min(Unseen) \in Unseen /\ \A i \in Unseen : Min(Unseen) <= i
  BY <1>2 DEF Min
<1> QED BY <1>3, ResolverFacts DEF Unseen

LEMMA NextTyped ==
  ASSUME Given, Typed, [Next]_vars
  PROVE  Given' /\ Typed'
<1>1. UNCHANGED inputs
  BY DEF Next, vars, StartLookup, Exchange, Observe, DecideRecord, NextExpected, DecideA,
         DecideAAAA, Evaluate
<1>2. Given' /\ task' = task /\ expectedValues' = expectedValues
  BY <1>1, InputsStay
<1> USE DEF Typed, Comparing, Collecting
<1>3. CASE StartLookup
  <2>1. lookup' \in Lookups
    <3>1. Resolvers[Min(Unseen)] \in DOMAIN EndpointOf
      BY <1>3, UnseenFacts DEF StartLookup
    <3>2. Queries(phase) \in Seq(DOMAIN RData)
      BY <1>3, QueryFacts DEF StartLookup
    <3> QED BY <1>3, <3>1, <3>2 DEF StartLookup, Lookups, Errors
  <2> QED BY <1>2, <1>3, <2>1 DEF StartLookup
<1>4. CASE Exchange
  <2>1. lookup \in Lookups /\ Collecting /\ lookup.todo # <<>>
    BY <1>4 DEF Exchange, NoLookup
  <2> DEFINE qtype == Head(lookup.todo)
  <2>2. /\ qtype \in DOMAIN RData /\ Tail(lookup.todo) \in Seq(DOMAIN RData)
        /\ <<"A", "AAAA">> \in Seq(DOMAIN RData)
    BY <2>1, DNSCheckAssumption DEF Lookups
  <2>3. PICK answer \in Answers(EndpointOf[lookup.resolver], Host, qtype) :
          lookup' = [lookup EXCEPT
            !.todo = IF Flattens(qtype, answer) THEN <<"A", "AAAA">> ELSE Tail(@),
            !.records = @ \cup answer.records,
            !.err = @ \cup answer.err]
    BY <1>4 DEF Exchange
  <2>4. answer.records \in SUBSET Values /\ answer.err \in Errors
    BY <2>1, <2>2, HostFacts, AnswerFacts
  <2> HIDE DEF qtype
  <2>5. lookup' \in Lookups
    BY <2>1, <2>2, <2>3, <2>4 DEF Lookups, Errors
  <2> QED BY <1>2, <1>4, <2>1, <2>5 DEF Exchange
<1>5. CASE Observe
  <2>1. lookup \in Lookups /\ Collecting
    BY <1>5 DEF Observe
  <2>2. [resolver |-> lookup.resolver,
         records |-> IF lookup.err # {} /\ task.type = "CNAME" THEN {} ELSE lookup.records,
         err |-> lookup.err] \in Said
    BY <2>1 DEF Lookups, Said
  <2>3. observations' \in Seq(Said)
    BY <1>5, <2>2 DEF Observe
  <2> QED BY <1>2, <1>5, <2>1, <2>3 DEF Observe
<1>6. CASE DecideRecord
  BY <1>2, <1>6 DEF DecideRecord, Decided
<1>7. CASE NextExpected
  BY <1>2, <1>7 DEF NextExpected
<1>8. CASE DecideA
  BY <1>2, <1>8 DEF DecideA, Decided
<1>9. CASE DecideAAAA
  BY <1>2, <1>9 DEF DecideAAAA, Decided
<1>10. CASE Evaluate
  BY <1>2, <1>10 DEF Evaluate
<1>11. CASE UNCHANGED vars
  BY <1>2, <1>11 DEF vars
<1> QED BY <1>3, <1>4, <1>5, <1>6, <1>7, <1>8, <1>9, <1>10, <1>11 DEF Next

-----------------------------------------------------------------------------
(* What honest resolvers say.                                              *)

Honest(o) == EndpointOf[o.resolver] \notin faulty

\* What a lookup is after.
AskedTruth ==
  CASE phase = "record" -> TrueRecords
    [] phase = "expectedA" -> zone[Host]["A"]
    [] phase = "expectedAAAA" -> zone[Host]["AAAA"]

\* An observation that is neither a failure nor wrong.
Known(o) ==
  /\ "nxdomain" \in o.err => zone[Host] = NoName
  /\ o.err = {} => zone[Host] # NoName /\ o.records = AskedTruth

\* The resolvers asked are endpoints of their own, and the honest ones said
\* what the zone holds.
ObservedInv ==
  /\ \A i, j \in DOMAIN observations :
       EndpointOf[observations[i].resolver] = EndpointOf[observations[j].resolver] => i = j
  /\ lookup # NoLookup => EndpointOf[lookup.resolver] \notin observed
  /\ \A i \in DOMAIN observations : Honest(observations[i]) => Known(observations[i])

CanFlatten ==
  phase = "record" /\ zone[Host]["CNAME"] = {} /\ Elements(task.expected) # {}

Remaining(todo) == UNION {zone[Host][todo[i]] : i \in DOMAIN todo}

\* What was found and what is still to be asked is the truth, unless the CNAME
\* that will be flattened has not been asked yet.
LookupInv ==
  lookup # NoLookup /\ Honest(lookup) =>
    /\ "nxdomain" \in lookup.err => zone[Host] = NoName
    /\ lookup.err = {} =>
         /\ zone[Host] = NoName => lookup.todo = Queries(phase)
         /\ zone[Host] # NoName =>
              \/ /\ lookup.records \cup Remaining(lookup.todo) = AskedTruth
                 /\ CanFlatten => \A i \in DOMAIN lookup.todo : lookup.todo[i] # "CNAME"
              \/ /\ lookup.todo = <<"CNAME">>
                 /\ lookup.records = {}
                 /\ CanFlatten /\ task.type = "CNAME"

LEMMA QueriesCoverTruth ==
  ASSUME Collecting
  PROVE  \/ /\ Remaining(Queries(phase)) = AskedTruth
            /\ CanFlatten => \A i \in DOMAIN Queries(phase) : Queries(phase)[i] # "CNAME"
         \/ /\ Queries(phase) = <<"CNAME">>
            /\ CanFlatten /\ task.type = "CNAME"
<1>1. \A q : Remaining(<<q>>) = zone[Host][q]
  BY DEF Remaining
<1>2. Remaining(<<"A", "AAAA">>) = zone[Host]["A"] \cup zone[Host]["AAAA"]
  BY DEF Remaining
<1>3. CASE phase = "expectedA"
  <2>1. Queries(phase) = <<"A">> /\ AskedTruth = zone[Host]["A"] /\ ~CanFlatten
    BY <1>3 DEF Queries, AskedTruth, CanFlatten
  <2> QED BY <1>1, <2>1
<1>6. CASE phase = "expectedAAAA"
  <2>1. Queries(phase) = <<"AAAA">> /\ AskedTruth = zone[Host]["AAAA"] /\ ~CanFlatten
    BY <1>6 DEF Queries, AskedTruth, CanFlatten
  <2> QED BY <1>1, <2>1
<1>4. CASE phase = "record" /\ task.type \in {"IP", "ALIAS"}
  BY <1>2, <1>4 DEF Queries, AskedTruth, TrueRecords, Host
<1>5. CASE phase = "record" /\ task.type \notin {"IP", "ALIAS"}
  <2>1. Queries(phase) = <<task.type>>
    BY <1>5 DEF Queries
  <2>2. CASE CanFlatten /\ task.type = "CNAME"
    BY <2>1, <2>2
  <2>3. CASE ~(CanFlatten /\ task.type = "CNAME")
    <3>1. AskedTruth = zone[Host][task.type]
      BY <1>5, <2>3 DEF AskedTruth, TrueRecords, CanFlatten, Host
    <3> QED BY <1>1, <2>1, <2>3, <3>1
  <2> QED BY <2>2, <2>3
<1> QED BY <1>3, <1>4, <1>5, <1>6 DEF Collecting

LEMMA RemainingTail ==
  ASSUME NEW todo \in Seq(DOMAIN RData), todo # <<>>
  PROVE  /\ Remaining(todo) = zone[Host][Head(todo)] \cup Remaining(Tail(todo))
         /\ \A i \in DOMAIN Tail(todo) : \E j \in DOMAIN todo : Tail(todo)[i] = todo[j]
         /\ \E j \in DOMAIN todo : Head(todo) = todo[j]
<1>1. /\ Len(todo) \in Nat \ {0} /\ Len(Tail(todo)) = Len(todo) - 1
      /\ DOMAIN todo = 1 .. Len(todo)
      /\ DOMAIN Tail(todo) = 1 .. Len(todo) - 1
      /\ Head(todo) = todo[1]
      /\ \A i \in 1 .. Len(todo) - 1 : Tail(todo)[i] = todo[i + 1]
  OBVIOUS
<1>2. \A j \in DOMAIN todo : j = 1 \/ (j - 1 \in DOMAIN Tail(todo) /\ Tail(todo)[j - 1] = todo[j])
  BY <1>1
<1>3. 1 \in DOMAIN todo /\ \A i \in DOMAIN Tail(todo) : i + 1 \in DOMAIN todo
  BY <1>1
<1>4. \A v : v \in Remaining(todo) => v \in zone[Host][Head(todo)] \cup Remaining(Tail(todo))
  <2> SUFFICES ASSUME NEW v, NEW j \in DOMAIN todo, v \in zone[Host][todo[j]]
               PROVE  v \in zone[Host][Head(todo)] \cup Remaining(Tail(todo))
    BY DEF Remaining
  <2>1. CASE j = 1
    BY <1>1, <2>1
  <2>2. CASE j - 1 \in DOMAIN Tail(todo) /\ Tail(todo)[j - 1] = todo[j]
    BY <2>2 DEF Remaining
  <2> QED BY <1>2, <2>1, <2>2
<1>5. \A v : v \in zone[Host][Head(todo)] \cup Remaining(Tail(todo)) => v \in Remaining(todo)
  BY <1>1, <1>2, <1>3 DEF Remaining
<1> QED BY <1>1, <1>3, <1>4, <1>5

LEMMA StartLooksUp ==
  ASSUME Given, Typed, ObservedInv, StartLookup
  PROVE  ObservedInv' /\ LookupInv'
<1>1. UNCHANGED <<inputs, phase, observations, index>>
  BY DEF StartLookup
<1>2. /\ Host' = Host /\ AskedTruth' = AskedTruth /\ Queries(phase)' = Queries(phase)
      /\ CanFlatten' = CanFlatten /\ observed' = observed /\ task' = task /\ zone' = zone
      /\ \A o : Honest(o)' = Honest(o) /\ Known(o)' = Known(o)
  BY <1>1, InputsStay DEF Host, AskedTruth, TrueRecords, Queries, CanFlatten, observed, inputs,
                          Honest, Known
<1>3. /\ lookup' = [resolver |-> Resolvers[Min(Unseen)], todo |-> Queries(phase),
                    records |-> {}, err |-> {}]
      /\ Collecting
      /\ EndpointOf[Resolvers[Min(Unseen)]] \notin observed
  BY UnseenFacts DEF StartLookup
<1>4. ObservedInv'
  BY <1>1, <1>2, <1>3 DEF ObservedInv
<1>5. \A todo : Remaining(todo)' = Remaining(todo)
  BY <1>2 DEF Remaining
<1> QED BY <1>2, <1>3, <1>4, <1>5, QueriesCoverTruth DEF LookupInv

LEMMA ExchangeFinds ==
  ASSUME Given, Typed, ObservedInv, LookupInv, Exchange
  PROVE  ObservedInv' /\ LookupInv'
<1>1. UNCHANGED <<inputs, phase, observations, index>>
  BY DEF Exchange
<1>2. /\ Host' = Host /\ AskedTruth' = AskedTruth /\ Queries(phase)' = Queries(phase)
      /\ CanFlatten' = CanFlatten /\ observed' = observed /\ task' = task /\ zone' = zone
      /\ \A o : Honest(o)' = Honest(o) /\ Known(o)' = Known(o)
  BY <1>1, InputsStay DEF Host, AskedTruth, TrueRecords, Queries, CanFlatten, observed, inputs,
                          Honest, Known
<1>3. \A todo : Remaining(todo)' = Remaining(todo)
  BY <1>2 DEF Remaining
<1>4. lookup # NoLookup /\ lookup \in Lookups /\ Collecting /\ lookup.todo # <<>>
  BY DEF Exchange, NoLookup, Typed
<1> DEFINE qtype == Head(lookup.todo)
           answers == Answers(EndpointOf[lookup.resolver], Host, qtype)
<1>5. PICK answer \in answers :
        lookup' = [lookup EXCEPT
          !.todo = IF Flattens(qtype, answer) THEN <<"A", "AAAA">> ELSE Tail(@),
          !.records = @ \cup answer.records,
          !.err = @ \cup answer.err]
  BY DEF Exchange
<1>6. qtype \in DOMAIN RData
  BY <1>4 DEF Lookups
<1>7. Host \in Hosts
  BY <1>4, HostFacts
<1> HIDE DEF qtype
<1>8. /\ lookup'.resolver = lookup.resolver
      /\ lookup'.todo = IF Flattens(qtype, answer) THEN <<"A", "AAAA">> ELSE Tail(lookup.todo)
      /\ lookup'.records = lookup.records \cup answer.records
      /\ lookup'.err = lookup.err \cup answer.err
  BY <1>4, <1>5 DEF Lookups
<1>9. ObservedInv'
  BY <1>1, <1>2, <1>4, <1>8 DEF ObservedInv
<1>10. LookupInv'
  <2> SUFFICES ASSUME Honest(lookup)
               PROVE  /\ "nxdomain" \in lookup'.err => zone[Host] = NoName
                      /\ lookup'.err = {} =>
                         /\ zone[Host] # NoName
                         /\ lookup'.records \cup Remaining(lookup'.todo) = AskedTruth
                         /\ CanFlatten => \A i \in DOMAIN lookup'.todo : lookup'.todo[i] # "CNAME"
    BY <1>2, <1>3, <1>8 DEF LookupInv, Honest
  <2>1. /\ "nxdomain" \in answer.err => zone[Host] = NoName
        /\ answer.err = {} => /\ zone[Host] # NoName
                              /\ answer = Data(zone[Host][qtype])
    BY <1>5, <1>6, <1>7, AnswerFacts DEF Honest
  <2>2. "nxdomain" \in lookup'.err => zone[Host] = NoName
    BY <1>4, <1>8, <2>1 DEF LookupInv
  <2>3. ASSUME lookup'.err = {}
        PROVE  /\ zone[Host] # NoName
               /\ lookup'.records \cup Remaining(lookup'.todo) = AskedTruth
               /\ CanFlatten => \A i \in DOMAIN lookup'.todo : lookup'.todo[i] # "CNAME"
    <3>1. lookup.err = {} /\ zone[Host] # NoName /\ answer = Data(zone[Host][qtype])
      BY <1>8, <2>1, <2>3
    <3>2. answer.records = zone[Host][qtype]
      BY <3>1 DEF Data
    <3>3. Flattens(qtype, answer) <=> qtype = "CNAME" /\ CanFlatten
      <4>1. answer = Data({}) <=> zone[Host][qtype] = {}
        BY <3>1 DEF Data
      <4> QED BY <4>1 DEF Flattens, CanFlatten
    <3>4. /\ Remaining(lookup.todo) = zone[Host][qtype] \cup Remaining(Tail(lookup.todo))
          /\ \A i \in DOMAIN Tail(lookup.todo) :
               \E j \in DOMAIN lookup.todo : Tail(lookup.todo)[i] = lookup.todo[j]
          /\ \E j \in DOMAIN lookup.todo : qtype = lookup.todo[j]
      BY <1>4, RemainingTail DEF Lookups, qtype
    <3>5. CASE /\ lookup.records \cup Remaining(lookup.todo) = AskedTruth
               /\ CanFlatten => \A i \in DOMAIN lookup.todo : lookup.todo[i] # "CNAME"
      <4>1. ~Flattens(qtype, answer)
        BY <3>3, <3>4, <3>5
      <4>2. lookup'.todo = Tail(lookup.todo)
        BY <1>8, <4>1
      <4>3. lookup'.records \cup Remaining(lookup'.todo) = AskedTruth
        BY <1>8, <3>2, <3>4, <3>5, <4>2
      <4> QED BY <3>1, <3>4, <3>5, <4>2, <4>3
    <3>6. CASE /\ lookup.todo = <<"CNAME">> /\ lookup.records = {}
               /\ CanFlatten /\ task.type = "CNAME"
      <4>1. qtype = "CNAME"
        BY <3>6 DEF qtype
      <4>2. lookup'.todo = <<"A", "AAAA">>
        BY <1>8, <3>3, <3>6, <4>1
      <4>3. Remaining(<<"A", "AAAA">>) = zone[Host]["A"] \cup zone[Host]["AAAA"]
        BY DEF Remaining
      <4>4. lookup'.records = {}
        BY <1>8, <3>2, <3>6, <4>1 DEF CanFlatten
      <4>5. AskedTruth = zone[Host]["A"] \cup zone[Host]["AAAA"]
        BY <3>6 DEF AskedTruth, TrueRecords, CanFlatten, Host
      <4> QED BY <3>1, <4>2, <4>3, <4>4, <4>5
    <3> QED BY <1>4, <3>1, <3>5, <3>6 DEF LookupInv
  <2> QED BY <2>2, <2>3
<1> QED BY <1>9, <1>10

LEMMA ObservationAppended ==
  ASSUME Typed, Observe
  PROVE  LET o == observations'[Len(observations) + 1] IN
         /\ o \in Said /\ o.resolver = lookup.resolver /\ o.err = lookup.err
         /\ lookup.err = {} => o.records = lookup.records
         /\ Len(observations') = Len(observations) + 1
         /\ observations' \in Seq(Said)
         /\ DOMAIN observations' = DOMAIN observations \cup {Len(observations) + 1}
         /\ Len(observations) + 1 \notin DOMAIN observations
         /\ \A i \in DOMAIN observations : observations'[i] = observations[i]
         /\ observed' = observed \cup {EndpointOf[lookup.resolver]}
<1> DEFINE said == [resolver |-> lookup.resolver,
                    records |-> IF lookup.err # {} /\ task.type = "CNAME"
                                THEN {} ELSE lookup.records,
                    err |-> lookup.err]
<1>1. lookup \in Lookups
  BY DEF Observe, Typed
<1>2. said \in Said
  BY <1>1 DEF Lookups, Said
<1>3. observations \in Seq(Said) /\ observations' = Append(observations, said)
  BY DEF Observe, Typed
<1>4. /\ said.resolver = lookup.resolver /\ said.err = lookup.err
      /\ lookup.err = {} => said.records = lookup.records
  OBVIOUS
<1> HIDE DEF said
<1>5. /\ observations' \in Seq(Said)
      /\ Len(observations') = Len(observations) + 1
      /\ DOMAIN observations' = 1 .. Len(observations) + 1
      /\ DOMAIN observations = 1 .. Len(observations)
      /\ Len(observations) \in Nat
      /\ observations'[Len(observations) + 1] = said
      /\ \A i \in DOMAIN observations : observations'[i] = observations[i]
  BY <1>2, <1>3
<1>6. DOMAIN observations' = DOMAIN observations \cup {Len(observations) + 1}
  BY <1>5
<1>7. observed' = observed \cup {EndpointOf[lookup.resolver]}
  BY <1>4, <1>5, <1>6 DEF observed
<1> QED BY <1>2, <1>4, <1>5, <1>6, <1>7

LEMMA ObserveLearns ==
  ASSUME Given, Typed, ObservedInv, LookupInv, Observe
  PROVE  ObservedInv' /\ LookupInv'
<1>1. UNCHANGED <<inputs, phase, index>>
  BY DEF Observe
<1>2. /\ Host' = Host /\ AskedTruth' = AskedTruth /\ zone' = zone
      /\ \A o : Honest(o)' = Honest(o) /\ Known(o)' = Known(o)
  BY <1>1, InputsStay DEF Host, AskedTruth, TrueRecords, inputs, Honest, Known
<1> DEFINE last == Len(observations) + 1
           o == observations'[last]
<1>3. lookup \in Lookups /\ Collecting /\ lookup # NoLookup /\ lookup.todo = <<>>
  BY DEF Observe, Typed
<1>4. /\ o.resolver = lookup.resolver /\ o.err = lookup.err
      /\ lookup.err = {} => o.records = lookup.records
      /\ DOMAIN observations' = DOMAIN observations \cup {last}
      /\ \A i \in DOMAIN observations : observations'[i] = observations[i]
      /\ observed' = observed \cup {EndpointOf[lookup.resolver]}
  BY ObservationAppended
<1> HIDE DEF last, o
<1>5. Honest(o) => Known(o)
  <2> SUFFICES ASSUME Honest(o) PROVE Known(o)
    OBVIOUS
  <2>1. Honest(lookup)
    BY <1>4 DEF Honest
  <2>2. "nxdomain" \in o.err => zone[Host] = NoName
    BY <1>3, <1>4, <2>1 DEF LookupInv
  <2>3. ASSUME o.err = {} PROVE zone[Host] # NoName /\ o.records = AskedTruth
    <3>1. zone[Host] # NoName
      BY <1>3, <1>4, <2>1, <2>3, QueryFacts DEF LookupInv
    <3>2. lookup.records \cup Remaining(lookup.todo) = AskedTruth
      BY <1>3, <1>4, <2>1, <2>3, <3>1 DEF LookupInv
    <3>3. Remaining(lookup.todo) = {}
      BY <1>3 DEF Remaining
    <3> QED BY <1>4, <2>3, <3>1, <3>2, <3>3
  <2> QED BY <2>2, <2>3 DEF Known
<1>6. EndpointOf[lookup.resolver] \notin observed
  BY <1>3 DEF ObservedInv
<1>7. \A i \in DOMAIN observations : EndpointOf[observations[i].resolver] # EndpointOf[o.resolver]
  BY <1>4, <1>6 DEF observed
<1>8. \A i, j \in DOMAIN observations' :
        EndpointOf[observations'[i].resolver] = EndpointOf[observations'[j].resolver] => i = j
  <2>1. observations'[last] = o
    BY DEF o
  <2> QED BY <1>4, <1>7, <2>1 DEF ObservedInv
<1>9. \A i \in DOMAIN observations' : Honest(observations'[i]) => Known(observations'[i])
  BY <1>4, <1>5 DEF ObservedInv, o
<1>10. lookup' = NoLookup
  BY DEF Observe
<1> QED BY <1>2, <1>8, <1>9, <1>10 DEF ObservedInv, LookupInv

-----------------------------------------------------------------------------
(* What two observations are worth.                                        *)

LEMMA EvidenceIsFinite ==
  ASSUME Typed
  PROVE  /\ IsFiniteSet(Range(observations))
         /\ IsFiniteSet(selected)
         /\ IsFiniteSet({o.records : o \in selected})
<1>1. /\ DOMAIN observations = 1 .. Len(observations) /\ Len(observations) \in Nat
      /\ observations = [i \in DOMAIN observations |-> observations[i]]
  BY DEF Typed
<1>2. IsFiniteSet(DOMAIN observations)
  BY <1>1, FS_Interval
<1>3. IsFiniteSet(Range(observations))
  BY <1>1, <1>2, ImageIsFinite DEF Range
<1>4. IsFiniteSet(selected)
  <2>1. selected \in SUBSET Range(observations)
    BY DEF selected
  <2> QED BY <1>3, <2>1, FS_Subset
<1> DEFINE f == [o \in selected |-> o.records]
<1>5. IsFiniteSet({f[o] : o \in selected})
  <2>1. DOMAIN f = selected /\ f = [o \in selected |-> f[o]]
    OBVIOUS
  <2> HIDE DEF f
  <2> QED BY <1>4, <2>1, ImageIsFinite
<1>6. {f[o] : o \in selected} = {o.records : o \in selected}
  OBVIOUS
<1> QED BY <1>3, <1>4, <1>5, <1>6

\* Of two usable observations one is of a resolver that is not faulty.
LEMMA OneIsHonest ==
  ASSUME Given, Typed, ObservedInv, ~(Cardinality(selected) < 2)
  PROVE  \E o \in selected : Honest(o) /\ Known(o) /\ Usable(o)
<1>1. PICK x, y \in selected : x # y
  BY EvidenceIsFinite, TwoElements
<1>2. PICK i, j \in DOMAIN observations : observations[i] = x /\ observations[j] = y
  BY <1>1 DEF selected, Range
<1>3. EndpointOf[x.resolver] # EndpointOf[y.resolver]
  BY <1>1, <1>2 DEF ObservedInv
<1>4. Honest(x) \/ Honest(y)
  BY <1>3 DEF Given, Honest
<1>5. (Honest(x) => Known(x)) /\ (Honest(y) => Known(y))
  BY <1>2 DEF ObservedInv
<1> QED BY <1>1, <1>4, <1>5 DEF selected

LEMMA DecisionIsSound ==
  ASSUME Given, Typed, ObservedInv, Decided, Len(Resolvers) > 1
  PROVE  /\ "nxdomain" \in Decision.err => zone[Host] = NoName
         /\ Decision.err = {} => zone[Host] # NoName /\ Decision.records = AskedTruth
<1> DEFINE errs == {o.err : o \in selected}
           found == {o.records : o \in selected}
           heard == {o.err : o \in Range(observations)}
<1>1. needed = 2
  BY DEF needed
<1>2. \A set : "nxdomain" \notin incompleteResolverCause(set) /\ incompleteResolverCause(set) # {}
  BY DEF incompleteResolverCause
<1>3. CASE Cardinality(selected) < 2
  <2>1. Decision.err = incompleteResolverCause(heard)
    BY <1>1, <1>3 DEF Decision
  <2> HIDE DEF heard
  <2> QED BY <1>2, <2>1
<1>4. CASE ~(Cardinality(selected) < 2)
  <2>1. PICK o \in selected : Known(o) /\ Usable(o)
    BY <1>4, OneIsHonest
  <2>2. Decision = CASE {} \notin errs -> [records |-> observations[1].records, err |-> UNION errs]
                     [] errs = {{}} /\ Cardinality(found) = 1 -> Data(UNION found)
                     [] errs = {{}} /\ Cardinality(found) # 1 ->
                          [records |-> observations[1].records, err |-> {"disagreement"}]
                     [] OTHER -> [records |-> observations[1].records,
                                  err |-> incompleteResolverCause(errs)]
    BY <1>1, <1>4 DEF Decision
  <2>3. o.err \in errs /\ o.records \in found /\ IsFiniteSet(found)
    BY EvidenceIsFinite
  <2> HIDE DEF errs, found
  <2>4. CASE {} \notin errs
    <3>1. "nxdomain" \in o.err
      BY <2>1, <2>3, <2>4 DEF Usable
    <3>2. Decision.err = UNION errs
      BY <2>2, <2>4
    <3> QED BY <2>1, <2>3, <3>1, <3>2 DEF Known
  <2>5. CASE errs = {{}} /\ Cardinality(found) = 1
    <3>1. Decision = Data(UNION found)
      BY <2>2, <2>5
    <3>2. PICK r : found = {r}
      BY <2>3, <2>5, FS_Singleton
    <3>3. UNION found = o.records
      BY <2>3, <3>2
    <3>4. o.err = {}
      BY <2>3, <2>5
    <3> QED BY <2>1, <3>1, <3>3, <3>4 DEF Known, Data
  <2>6. CASE errs = {{}} /\ Cardinality(found) # 1
    BY <2>2, <2>6
  <2>7. CASE {} \in errs /\ errs # {{}}
    BY <1>2, <2>2, <2>7
  <2> QED BY <2>4, <2>5, <2>6, <2>7
<1> QED BY <1>3, <1>4

-----------------------------------------------------------------------------
(* What becomes of the snapshot.                                           *)

\* The expected values before a position, and what resolving them gives.
Before(k) == {expectedValues[i] : i \in {j \in DOMAIN expectedValues : j < k}}
Resolved(k) ==
  (Before(k) \cap IPs) \cup
  UNION {zone[n]["A"] \cup zone[n]["AAAA"] : n \in Before(k) \ IPs}

\* What the check has established when no error stopped it.
SnapshotInv ==
  /\ DOMAIN snapshot = {"records", "err", "observations", "expected"}
  /\ phase = "record" => index = 1 /\ "nxdomain" \notin snapshot.err
  /\ phase # "done" => verdict = "pending"
  /\ phase = "done" =>
       verdict = EvaluateDNS(task, snapshot.records, snapshot.err, snapshot.expected)
  /\ Len(Resolvers) > 1 =>
       /\ AbsenceIsCorroborated
       /\ Comparing =>
            /\ snapshot.err = {}
            /\ snapshot.records = TrueRecords /\ TrueRecords \cap IPs # {}
            /\ snapshot.expected = Resolved(index)
            /\ zone[task.host] # NoName
            /\ \A n \in Before(index) \ IPs : zone[n] # NoName
       /\ phase = "expectedAAAA" =>
            /\ "nxdomain" \in partial.err => zone[Host] = NoName
            /\ partial.err = {} => zone[Host] # NoName /\ partial.records = zone[Host]["A"]
       /\ phase \in {"evaluate", "done"} /\ snapshot.err = {} =>
            /\ snapshot.records = TrueRecords /\ snapshot.expected = TrueExpected
            /\ zone[task.host] # NoName
            /\ \A n \in ExpectedNames : zone[n] # NoName

LEMMA TruthStays ==
  ASSUME UNCHANGED inputs
  PROVE  /\ task' = task /\ expectedValues' = expectedValues /\ zone' = zone
         /\ Resolvers' = Resolvers
         /\ TrueRecords' = TrueRecords
         /\ ExpectedNames' = ExpectedNames
         /\ TrueExpected' = TrueExpected
         /\ \A k : Before(k)' = Before(k) /\ Resolved(k)' = Resolved(k)
<1>1. /\ task' = task /\ expectedValues' = expectedValues /\ zone' = zone
      /\ Resolvers' = Resolvers
  BY InputsStay
<1>2. TrueRecords' = TrueRecords
  BY <1>1 DEF TrueRecords
<1>3. ExpectedNames' = ExpectedNames
  BY <1>1, <1>2 DEF ExpectedNames
<1>4. TrueExpected' = TrueExpected
  BY <1>1, <1>2, <1>3 DEF TrueExpected
<1>5. \A k : Before(k)' = Before(k)
  BY <1>1 DEF Before
<1>6. \A k : Resolved(k)' = Resolved(k)
  BY <1>1, <1>5 DEF Resolved
<1> QED BY <1>1, <1>2, <1>3, <1>4, <1>5, <1>6

LEMMA ResolvedFacts ==
  ASSUME Given, Typed
  PROVE  /\ Before(1) = {} /\ Resolved(1) = {}
         /\ index \in DOMAIN expectedValues =>
              /\ Before(index + 1) = Before(index) \cup {expectedValues[index]}
              /\ expectedValues[index] \in IPs =>
                   Resolved(index + 1) = Resolved(index) \cup {expectedValues[index]}
              /\ LET n == expectedValues[index] IN
                 n \notin IPs =>
                   Resolved(index + 1) = Resolved(index) \cup zone[n]["A"] \cup zone[n]["AAAA"]
         /\ index \notin DOMAIN expectedValues => Before(index) = Elements(task.expected)
<1>1. /\ expectedValues \in Seq(Elements(task.expected))
      /\ Elements(task.expected) = Range(expectedValues)
  BY TaskFacts
<1>2. /\ Len(expectedValues) \in Nat /\ DOMAIN expectedValues = 1 .. Len(expectedValues)
      /\ index \in Nat \ {0}
  BY <1>1 DEF Typed
<1>3. Before(1) = {}
  BY <1>2 DEF Before
<1>4. Resolved(1) = {}
  BY <1>3 DEF Resolved
<1>5. ASSUME index \in DOMAIN expectedValues
      PROVE  Before(index + 1) = Before(index) \cup {expectedValues[index]}
  <2>1. {j \in DOMAIN expectedValues : j < index + 1} =
          {j \in DOMAIN expectedValues : j < index} \cup {index}
    BY <1>2, <1>5
  <2> QED BY <2>1 DEF Before
<1>6. ASSUME index \in DOMAIN expectedValues, expectedValues[index] \in IPs
      PROVE  Resolved(index + 1) = Resolved(index) \cup {expectedValues[index]}
  <2>1. Before(index + 1) \ IPs = Before(index) \ IPs
    BY <1>5, <1>6
  <2> QED BY <1>5, <1>6, <2>1 DEF Resolved
<1>7. ASSUME index \in DOMAIN expectedValues, expectedValues[index] \notin IPs
      PROVE  LET n == expectedValues[index] IN
             Resolved(index + 1) = Resolved(index) \cup zone[n]["A"] \cup zone[n]["AAAA"]
  <2> DEFINE n == expectedValues[index]
  <2>1. Before(index + 1) \ IPs = (Before(index) \ IPs) \cup {n}
    BY <1>5, <1>7
  <2>2. Before(index + 1) \cap IPs = Before(index) \cap IPs
    BY <1>5, <1>7
  <2> HIDE DEF n
  <2>3. Resolved(index + 1) = Resolved(index) \cup zone[n]["A"] \cup zone[n]["AAAA"]
    BY <2>1, <2>2 DEF Resolved
  <2> QED BY <2>3 DEF n
<1>8. ASSUME index \notin DOMAIN expectedValues
      PROVE  Before(index) = Elements(task.expected)
  <2>1. {j \in DOMAIN expectedValues : j < index} = DOMAIN expectedValues
    BY <1>2, <1>8
  <2> QED BY <1>1, <2>1 DEF Before, Range
<1> QED BY <1>3, <1>4, <1>5, <1>6, <1>7, <1>8

LEMMA DecideRecordSettles ==
  ASSUME Given, Typed, ObservedInv, SnapshotInv, DecideRecord
  PROVE  SnapshotInv'
<1>1. /\ phase = "record" /\ Decided /\ Collecting
      /\ UNCHANGED <<inputs, index, verdict>>
      /\ snapshot' = [records |-> Decision.records, err |-> Decision.err,
                      observations |-> observations, expected |-> {}]
      /\ phase' = IF /\ Decision.err = {}
                     /\ task.type \in {"ALIAS", "CNAME"}
                     /\ Decision.records \cap IPs # {}
                  THEN "expected" ELSE "evaluate"
  BY DEF DecideRecord, Collecting
<1>2. UNCHANGED inputs /\ index = 1 /\ index' = 1 /\ verdict' = "pending"
  BY <1>1 DEF SnapshotInv
<1>3. /\ snapshot'.records = Decision.records /\ snapshot'.err = Decision.err
      /\ snapshot'.expected = {}
      /\ DOMAIN snapshot' = {"records", "err", "observations", "expected"}
  BY <1>1
<1>4. phase' \in {"expected", "evaluate"}
  BY <1>1
<1>5. ASSUME Len(Resolvers) > 1
      PROVE  /\ AbsenceIsCorroborated'
             /\ Comparing' =>
                  /\ snapshot'.err = {}
                  /\ snapshot'.records = TrueRecords /\ TrueRecords \cap IPs # {}
                  /\ zone[task.host] # NoName
             /\ snapshot'.err = {} =>
                  /\ snapshot'.records = TrueRecords
                  /\ zone[task.host] # NoName
             /\ phase' = "evaluate" /\ snapshot'.err = {} =>
                  TrueExpected = {} /\ ExpectedNames = {}
  <2>1. Host = task.host /\ AskedTruth = TrueRecords
    BY <1>1 DEF Host, AskedTruth
  <2>2. /\ "nxdomain" \in Decision.err => zone[task.host] = NoName
        /\ Decision.err = {} => zone[task.host] # NoName /\ Decision.records = TrueRecords
    BY <1>1, <1>5, <2>1, DecisionIsSound
  <2>3. AbsenceIsCorroborated'
    BY <1>2, <1>3, <2>2, TruthStays DEF AbsenceIsCorroborated
  <2>4. phase' = "evaluate" /\ snapshot'.err = {} => TrueExpected = {} /\ ExpectedNames = {}
    BY <1>1, <1>3, <2>2 DEF TrueExpected, ExpectedNames
  <2> QED BY <1>1, <1>3, <2>2, <2>3, <2>4 DEF Comparing
<1>6. /\ task' = task /\ zone' = zone /\ Resolvers' = Resolvers /\ TrueRecords' = TrueRecords
      /\ ExpectedNames' = ExpectedNames /\ TrueExpected' = TrueExpected
      /\ Before(1)' = {} /\ Resolved(1)' = {}
  BY <1>2, TruthStays, ResolvedFacts
<1>7. Before(index)' = {} /\ Resolved(index)' = {}
  <2>1. Before(index)' = Before(1)' /\ Resolved(index)' = Resolved(1)'
    BY <1>2 DEF Before, Resolved
  <2> QED BY <1>6, <2>1
<1> QED BY <1>2, <1>3, <1>4, <1>5, <1>6, <1>7 DEF SnapshotInv

LEMMA NextExpectedSettles ==
  ASSUME Given, Typed, SnapshotInv, NextExpected
  PROVE  SnapshotInv'
<1>1. /\ phase = "expected" /\ Comparing /\ UNCHANGED <<inputs, partial, verdict>>
      /\ verdict = "pending" /\ phase' \in {"expected", "expectedA", "evaluate"}
  BY DEF NextExpected, Comparing, SnapshotInv
<1>2. UNCHANGED inputs /\ task.type \in {"ALIAS", "CNAME"}
  BY <1>1 DEF Typed
<1> DEFINE K == Len(Resolvers) > 1
<1>3. CASE index \notin DOMAIN expectedValues
  <2>1. phase' = "evaluate" /\ snapshot' = snapshot /\ verdict' = "pending"
    BY <1>1, <1>3 DEF NextExpected
  <2>2. K => /\ ExpectedNames = Before(index) \ IPs
             /\ TrueExpected = Resolved(index)
    <3>1. Before(index) = Elements(task.expected)
      BY <1>3, ResolvedFacts
    <3> QED BY <1>1, <1>2, <3>1 DEF SnapshotInv, ExpectedNames, TrueExpected, Resolved
  <2>3. AbsenceIsCorroborated' = AbsenceIsCorroborated
    BY <1>2, <2>1, TruthStays DEF AbsenceIsCorroborated
  <2>4. ~Comparing'
    BY <2>1 DEF Comparing
  <2> QED BY <1>1, <1>2, <2>1, <2>2, <2>3, <2>4, TruthStays DEF SnapshotInv
<1>4. CASE index \in DOMAIN expectedValues /\ expectedValues[index] \in IPs
  <2>1. /\ phase' = "expected" /\ index' = index + 1 /\ verdict' = "pending"
        /\ snapshot' = [snapshot EXCEPT !.expected = @ \cup {expectedValues[index]}]
    BY <1>1, <1>4 DEF NextExpected
  <2>2. /\ DOMAIN snapshot' = {"records", "err", "observations", "expected"}
        /\ snapshot'.records = snapshot.records /\ snapshot'.err = snapshot.err
        /\ snapshot'.expected = snapshot.expected \cup {expectedValues[index]}
    BY <2>1 DEF SnapshotInv
  <2>3. /\ Before(index + 1) = Before(index) \cup {expectedValues[index]}
        /\ Resolved(index + 1) = Resolved(index) \cup {expectedValues[index]}
    BY <1>4, ResolvedFacts
  <2>4. /\ Before(index)' = Before(index) \cup {expectedValues[index]}
        /\ Resolved(index)' = Resolved(index) \cup {expectedValues[index]}
    <3>1. Before(index)' = Before(index + 1)
      BY <1>2, <2>1, TruthStays DEF Before
    <3>2. Resolved(index)' = Resolved(index + 1)
      BY <1>2, <3>1, TruthStays DEF Resolved
    <3> QED BY <2>3, <3>1, <3>2
  <2>5. AbsenceIsCorroborated' = AbsenceIsCorroborated
    BY <1>2, <2>2, TruthStays DEF AbsenceIsCorroborated
  <2>6. Comparing' /\ ~(phase' \in {"expectedAAAA", "evaluate", "done", "record"})
    BY <2>1 DEF Comparing
  <2>7. K => /\ AbsenceIsCorroborated
             /\ snapshot'.err = {}
             /\ snapshot'.records = TrueRecords /\ TrueRecords \cap IPs # {}
             /\ snapshot'.expected = Resolved(index)'
             /\ zone[task.host] # NoName
             /\ \A n \in Before(index)' \ IPs : zone[n] # NoName
    BY <1>1, <1>4, <2>2, <2>4 DEF SnapshotInv
  <2> QED BY <1>2, <2>1, <2>2, <2>5, <2>6, <2>7, TruthStays DEF SnapshotInv
<1>5. CASE index \in DOMAIN expectedValues /\ expectedValues[index] \notin IPs
  <2>1. phase' = "expectedA" /\ index' = index /\ snapshot' = snapshot /\ verdict' = "pending"
    BY <1>1, <1>5 DEF NextExpected
  <2>2. Before(index)' = Before(index) /\ Resolved(index)' = Resolved(index)
    BY <1>2, <2>1, TruthStays DEF Before, Resolved
  <2>3. AbsenceIsCorroborated' = AbsenceIsCorroborated
    BY <1>2, <2>1, TruthStays DEF AbsenceIsCorroborated
  <2> QED BY <1>1, <1>2, <2>1, <2>2, <2>3, TruthStays DEF SnapshotInv
<1> QED BY <1>3, <1>4, <1>5

LEMMA DecideASettles ==
  ASSUME Given, Typed, ObservedInv, SnapshotInv, DecideA
  PROVE  SnapshotInv'
<1>1. /\ phase = "expectedA" /\ phase' = "expectedAAAA" /\ Decided /\ partial' = Decision
      /\ UNCHANGED <<snapshot, index, verdict>> /\ Comparing /\ Comparing'
  BY DEF DecideA, Comparing
<1>2. UNCHANGED inputs
  BY DEF DecideA
<1>3. /\ Before(index)' = Before(index) /\ Resolved(index)' = Resolved(index)
      /\ Host' = Host
  BY <1>1, <1>2, TruthStays DEF Before, Resolved, Host
<1>4. AbsenceIsCorroborated' = AbsenceIsCorroborated
  BY <1>1, <1>2, TruthStays DEF AbsenceIsCorroborated
<1>5. Len(Resolvers) > 1 =>
        /\ "nxdomain" \in partial'.err => zone[Host] = NoName
        /\ partial'.err = {} => zone[Host] # NoName /\ partial'.records = zone[Host]["A"]
  BY <1>1, DecisionIsSound DEF AskedTruth
<1> QED BY <1>1, <1>2, <1>3, <1>4, <1>5, TruthStays DEF SnapshotInv

LEMMA DecideAAAASettles ==
  ASSUME Given, Typed, ObservedInv, SnapshotInv, DecideAAAA
  PROVE  SnapshotInv'
<1> DEFINE err == partial.err \cup Decision.err
           K == Len(Resolvers) > 1
           n == expectedValues[index]
<1>1. /\ phase = "expectedAAAA" /\ Decided /\ UNCHANGED verdict /\ verdict = "pending"
      /\ Comparing
  BY DEF DecideAAAA, Comparing, SnapshotInv
<1>2. UNCHANGED inputs
  BY DEF DecideAAAA
<1>3. /\ index \in DOMAIN expectedValues /\ n \notin IPs /\ task.type \in {"ALIAS", "CNAME"}
      /\ Host = n
  BY <1>1 DEF Typed, Host
<1>4. n \in Elements(task.expected) \cap Hosts
  BY <1>3, TaskFacts DEF Range
<1>5. K => /\ "nxdomain" \in err => zone[n] = NoName
           /\ err = {} => /\ zone[n] # NoName
                          /\ partial.records = zone[n]["A"] /\ Decision.records = zone[n]["AAAA"]
  <2> SUFFICES ASSUME K
               PROVE  /\ "nxdomain" \in err => zone[n] = NoName
                      /\ err = {} => /\ zone[n] # NoName
                                     /\ partial.records = zone[n]["A"]
                                     /\ Decision.records = zone[n]["AAAA"]
    OBVIOUS
  <2>1. /\ "nxdomain" \in Decision.err => zone[Host] = NoName
        /\ Decision.err = {} => zone[Host] # NoName /\ Decision.records = AskedTruth
    BY <1>1, DecisionIsSound
  <2>2. AskedTruth = zone[Host]["AAAA"]
    BY <1>1 DEF AskedTruth
  <2> QED BY <1>1, <1>3, <2>1, <2>2 DEF SnapshotInv
<1>6. CASE err # {}
  <2>1. phase' = "evaluate" /\ snapshot' = [snapshot EXCEPT !.err = err]
    BY <1>6 DEF DecideAAAA
  <2>2. /\ DOMAIN snapshot' = {"records", "err", "observations", "expected"}
        /\ snapshot'.err = err
    BY <2>1 DEF SnapshotInv
  <2> HIDE DEF err, n
  <2>3. K => AbsenceIsCorroborated'
    BY <1>2, <1>4, <1>5, <2>2, TruthStays DEF AbsenceIsCorroborated
  <2>4. ~Comparing'
    BY <2>1 DEF Comparing
  <2> QED BY <1>1, <1>2, <1>6, <2>1, <2>2, <2>3, <2>4, TruthStays DEF SnapshotInv
<1>7. CASE err = {}
  <2>1. /\ phase' = "expected" /\ index' = index + 1
        /\ snapshot' = [snapshot EXCEPT !.expected =
                          @ \cup partial.records \cup Decision.records]
    BY <1>7 DEF DecideAAAA
  <2>2. /\ DOMAIN snapshot' = {"records", "err", "observations", "expected"}
        /\ snapshot'.records = snapshot.records /\ snapshot'.err = snapshot.err
        /\ snapshot'.expected = snapshot.expected \cup partial.records \cup Decision.records
    BY <2>1 DEF SnapshotInv
  <2>3. /\ Before(index + 1) = Before(index) \cup {n}
        /\ Resolved(index + 1) = Resolved(index) \cup zone[n]["A"] \cup zone[n]["AAAA"]
    BY <1>3, ResolvedFacts
  <2>4. Before(index)' = Before(index + 1)
    BY <1>2, <2>1, TruthStays DEF Before
  <2>5. Resolved(index)' = Resolved(index + 1)
    BY <1>2, <2>4, TruthStays DEF Resolved
  <2>6. AbsenceIsCorroborated' = AbsenceIsCorroborated
    BY <1>2, <2>2, TruthStays DEF AbsenceIsCorroborated
  <2>7. Comparing' /\ ~(phase' \in {"expectedAAAA", "evaluate", "done", "record"})
    BY <2>1 DEF Comparing
  <2> HIDE DEF n
  <2>8. K => /\ AbsenceIsCorroborated
             /\ snapshot'.err = {}
             /\ snapshot'.records = TrueRecords /\ TrueRecords \cap IPs # {}
             /\ snapshot'.expected = Resolved(index)'
             /\ zone[task.host] # NoName
             /\ \A m \in Before(index)' \ IPs : zone[m] # NoName
    BY <1>1, <1>5, <1>7, <2>2, <2>3, <2>4, <2>5 DEF SnapshotInv
  <2> QED BY <1>1, <1>2, <2>1, <2>2, <2>6, <2>7, <2>8, TruthStays DEF SnapshotInv
<1> QED BY <1>6, <1>7

LEMMA EvaluateSettles ==
  ASSUME SnapshotInv, Evaluate
  PROVE  SnapshotInv'
<1>1. /\ phase = "evaluate" /\ phase' = "done" /\ UNCHANGED <<snapshot, index, partial>>
      /\ verdict' = EvaluateDNS(task, snapshot.records, snapshot.err, snapshot.expected)
      /\ ~Comparing'
  BY DEF Evaluate, Comparing
<1>2. UNCHANGED inputs
  BY DEF Evaluate
<1>3. AbsenceIsCorroborated' = AbsenceIsCorroborated
  BY <1>1, <1>2, TruthStays DEF AbsenceIsCorroborated
<1>4. /\ phase' = "done"
      /\ verdict' = EvaluateDNS(task', snapshot'.records, snapshot'.err, snapshot'.expected)
  BY <1>1, <1>2, TruthStays
<1> QED BY <1>1, <1>2, <1>3, <1>4, TruthStays DEF SnapshotInv

\* While resolvers are asked, nothing is settled.
LEMMA QuietSettles ==
  ASSUME SnapshotInv, UNCHANGED <<inputs, phase, snapshot, index, partial, verdict>>
  PROVE  SnapshotInv'
<1>1. UNCHANGED inputs
  OBVIOUS
<1>2. /\ Before(index)' = Before(index) /\ Resolved(index)' = Resolved(index)
      /\ Host' = Host /\ Comparing' = Comparing
      /\ AbsenceIsCorroborated' = AbsenceIsCorroborated
  BY <1>1, TruthStays DEF Before, Resolved, Host, Comparing, AbsenceIsCorroborated
<1> QED BY <1>1, <1>2, TruthStays DEF SnapshotInv

-----------------------------------------------------------------------------
(* Who has been asked.                                                     *)

\* The endpoints of the first entries.
Firsts(k) == {EndpointOf[Resolvers[i]] : i \in 1 .. k}

Pending ==
  IF lookup = NoLookup THEN observed ELSE observed \cup {EndpointOf[lookup.resolver]}

\* The endpoints asked are those of the first entries, each of them once.
AskedInv ==
  /\ IsFiniteSet(observed) /\ Cardinality(observed) = Len(observations)
  /\ Len(observations) <= MaxNetworkAttempts
  /\ lookup # NoLookup => Len(observations) < MaxNetworkAttempts
  /\ Collecting => \E k \in 0 .. Len(Resolvers) : Pending = Firsts(k)
  /\ EvidenceIsExhausted

LEMMA FirstsFacts ==
  ASSUME Given
  PROVE  /\ Len(Resolvers) \in Nat /\ DOMAIN Resolvers = 1 .. Len(Resolvers)
         /\ Firsts(0) = {}
         /\ \A k \in 0 .. Len(Resolvers) :
              /\ EndpointsOf(SubSeq(Resolvers, 1, k)) = Firsts(k)
              /\ \A j \in 0 .. k : Firsts(j) \subseteq Firsts(k)
<1>1. Len(Resolvers) \in Nat /\ DOMAIN Resolvers = 1 .. Len(Resolvers)
  BY ResolverFacts
<1>2. Firsts(0) = {}
  BY DEF Firsts
<1>3. ASSUME NEW k \in 0 .. Len(Resolvers)
      PROVE  EndpointsOf(SubSeq(Resolvers, 1, k)) = Firsts(k)
  <2>1. /\ DOMAIN SubSeq(Resolvers, 1, k) = 1 .. k
        /\ \A i \in 1 .. k : SubSeq(Resolvers, 1, k)[i] = Resolvers[i]
    BY <1>1, ResolverFacts
  <2> QED BY <2>1 DEF EndpointsOf, Firsts
<1>4. \A k \in 0 .. Len(Resolvers) : \A j \in 0 .. k : Firsts(j) \subseteq Firsts(k)
  BY <1>1 DEF Firsts
<1> QED BY <1>1, <1>2, <1>3, <1>4

LEMMA StartAsksTheNext ==
  ASSUME Given, Typed, AskedInv, StartLookup
  PROVE  AskedInv'
<1> DEFINE m == Min(Unseen)
<1>1. /\ UNCHANGED <<inputs, phase, observations, snapshot>> /\ Collecting /\ lookup = NoLookup
      /\ lookup'.resolver = Resolvers[m] /\ Len(observations) # MaxNetworkAttempts
  BY DEF StartLookup, Collected
<1>2. /\ m \in DOMAIN Resolvers /\ \A i \in Unseen : m <= i
      /\ Resolvers[m] \in DOMAIN EndpointOf
      /\ EndpointOf[Resolvers[m]] \notin observed
  BY UnseenFacts DEF StartLookup
<1> HIDE DEF m
<1>3. /\ Len(Resolvers) \in Nat /\ DOMAIN Resolvers = 1 .. Len(Resolvers)
  BY FirstsFacts
<1>4. PICK k \in 0 .. Len(Resolvers) : observed = Firsts(k)
  BY <1>1 DEF AskedInv, Pending
<1>5. \A i \in 1 .. m - 1 : EndpointOf[Resolvers[i]] \in observed
  BY <1>2, <1>3 DEF Unseen
<1>6. ~(m <= k)
  BY <1>2, <1>3, <1>4 DEF Firsts
<1>7. observed \cup {EndpointOf[Resolvers[m]]} = Firsts(m)
  <2>1. observed \subseteq Firsts(m)
    BY <1>2, <1>3, <1>4, <1>6 DEF Firsts
  <2>2. EndpointOf[Resolvers[m]] \in Firsts(m)
    BY <1>2, <1>3 DEF Firsts
  <2>3. ASSUME NEW i \in 1 .. m
        PROVE  EndpointOf[Resolvers[i]] \in observed \cup {EndpointOf[Resolvers[m]]}
    <3>1. i = m \/ i \in 1 .. m - 1
      BY <1>2, <1>3
    <3> QED BY <1>5, <3>1
  <2>4. Firsts(m) \subseteq observed \cup {EndpointOf[Resolvers[m]]}
    BY <2>3 DEF Firsts
  <2> QED BY <2>1, <2>2, <2>4
<1>8. /\ Resolvers' = Resolvers /\ observed' = observed /\ Collecting' = Collecting
      /\ \A j : Firsts(j)' = Firsts(j)
      /\ EvidenceIsExhausted' = EvidenceIsExhausted
  BY <1>1, InputsStay DEF observed, Firsts, EvidenceIsExhausted, Collecting, FirstEndpoints, inputs
<1>9. lookup' # NoLookup
  BY <1>1, <1>2, DNSCheckAssumption DEF NoLookup
<1>10. Pending' = Firsts(m)
  BY <1>1, <1>7, <1>8, <1>9 DEF Pending
<1>11. Len(observations) \in Nat /\ Len(observations) < MaxNetworkAttempts
  BY <1>1, DNSCheckAssumption DEF AskedInv, Typed
<1>12. \E j \in 0 .. Len(Resolvers') : Pending' = Firsts(j)'
  <2>1. PICK j \in 0 .. Len(Resolvers) : j = m
    BY <1>2, <1>3
  <2> QED BY <1>8, <1>10, <2>1
<1> QED BY <1>1, <1>8, <1>11, <1>12 DEF AskedInv

LEMMA ExchangeAsksNobodyElse ==
  ASSUME Given, Typed, AskedInv, Exchange
  PROVE  AskedInv'
<1>1. UNCHANGED <<inputs, phase, observations, snapshot>>
  BY DEF Exchange
<1>2. lookup # NoLookup /\ lookup \in Lookups
  BY DEF Exchange, NoLookup, Typed
<1>3. lookup'.resolver = lookup.resolver
  BY <1>2 DEF Exchange, Lookups
<1>4. lookup' # NoLookup
  BY <1>2, <1>3, DNSCheckAssumption DEF NoLookup, Lookups
<1>5. /\ Resolvers' = Resolvers /\ observed' = observed /\ Collecting' = Collecting
      /\ \A j : Firsts(j)' = Firsts(j)
      /\ EvidenceIsExhausted' = EvidenceIsExhausted
  BY <1>1, InputsStay DEF observed, Firsts, EvidenceIsExhausted, Collecting, FirstEndpoints, inputs
<1>6. Pending' = Pending
  BY <1>2, <1>3, <1>4, <1>5 DEF Pending
<1> QED BY <1>1, <1>2, <1>4, <1>5, <1>6 DEF AskedInv

LEMMA ObserveCounts ==
  ASSUME Given, Typed, ObservedInv, AskedInv, Observe
  PROVE  AskedInv'
<1>1. UNCHANGED <<inputs, phase, snapshot>> /\ lookup # NoLookup /\ lookup' = NoLookup
  BY DEF Observe
<1>2. /\ Len(observations') = Len(observations) + 1
      /\ observed' = observed \cup {EndpointOf[lookup.resolver]}
  BY ObservationAppended
<1>3. /\ Resolvers' = Resolvers /\ Collecting' = Collecting
      /\ \A j : Firsts(j)' = Firsts(j)
      /\ EvidenceIsExhausted' = EvidenceIsExhausted
  BY <1>1, InputsStay DEF Firsts, EvidenceIsExhausted, Collecting, FirstEndpoints, inputs
<1>4. Pending' = Pending
  BY <1>1, <1>2 DEF Pending
<1>5. EndpointOf[lookup.resolver] \notin observed
  BY <1>1 DEF ObservedInv
<1>6. IsFiniteSet(observed) /\ Cardinality(observed) = Len(observations)
  BY DEF AskedInv
<1>7. IsFiniteSet(observed') /\ Cardinality(observed') = Len(observations')
  BY <1>2, <1>5, <1>6, FS_AddElement
<1>8. Len(observations') <= MaxNetworkAttempts
  BY <1>1, <1>2, DNSCheckAssumption DEF AskedInv, Typed
<1> QED BY <1>1, <1>3, <1>4, <1>7, <1>8 DEF AskedInv

\* A check that may ask nobody else has asked the first distinct endpoints.
LEMMA ExhaustedEvidence ==
  ASSUME Given, Typed, AskedInv, Decided, Len(Resolvers) > 1, Cardinality(selected) < 2
  PROVE  observed = FirstEndpoints
<1>1. Len(observations) = MaxNetworkAttempts \/ Unseen = {}
  <2>1. needed = 2
    BY DEF needed
  <2> QED BY <2>1 DEF Decided, Collected
<1>2. PICK k \in 0 .. Len(Resolvers) : observed = Firsts(k)
  BY DEF AskedInv, Pending, Decided
<1>3. /\ Len(Resolvers) \in Nat /\ DOMAIN Resolvers = 1 .. Len(Resolvers)
      /\ \A i \in 0 .. Len(Resolvers) :
           /\ EndpointsOf(SubSeq(Resolvers, 1, i)) = Firsts(i)
           /\ \A j \in 0 .. i : Firsts(j) \subseteq Firsts(i)
  BY FirstsFacts
<1>4. /\ IsFiniteSet(observed) /\ Cardinality(observed) = Len(observations)
      /\ Len(observations) <= MaxNetworkAttempts /\ Len(observations) \in Nat
      /\ MaxNetworkAttempts \in Nat
  BY DNSCheckAssumption DEF AskedInv, Typed
<1>5. FirstEndpoints = {EndpointOf[Resolvers[i]] :
                          i \in {j \in 1 .. Len(Resolvers) :
                                   Cardinality(Firsts(j)) <= MaxNetworkAttempts}}
  BY <1>3 DEF FirstEndpoints
<1>6. ASSUME NEW j \in 1 .. Len(Resolvers), Firsts(j) \subseteq observed
      PROVE  Cardinality(Firsts(j)) <= MaxNetworkAttempts
  <2>1. Cardinality(Firsts(j)) <= Cardinality(observed) /\ IsFiniteSet(Firsts(j))
    BY <1>4, <1>6, FS_Subset
  <2>2. Cardinality(Firsts(j)) \in Nat
    BY <2>1, FS_CardinalityType
  <2> QED BY <1>4, <2>1, <2>2
<1>7. observed \subseteq FirstEndpoints
  <2> SUFFICES ASSUME NEW j \in 1 .. k PROVE EndpointOf[Resolvers[j]] \in FirstEndpoints
    BY <1>2 DEF Firsts
  <2>1. j \in 1 .. Len(Resolvers) /\ Firsts(j) \subseteq observed
    BY <1>2, <1>3
  <2> QED BY <1>5, <1>6, <2>1
<1>8. FirstEndpoints \subseteq observed
  <2> SUFFICES ASSUME NEW j \in 1 .. Len(Resolvers),
                      Cardinality(Firsts(j)) <= MaxNetworkAttempts
               PROVE  EndpointOf[Resolvers[j]] \in observed
    BY <1>5
  <2>1. CASE Unseen = {}
    BY <1>3, <2>1 DEF Unseen
  <2>2. CASE j \in 1 .. k
    BY <1>2, <2>2 DEF Firsts
  <2>3. CASE Len(observations) = MaxNetworkAttempts /\ j \notin 1 .. k
    <3>1. observed \subseteq Firsts(j)
      BY <1>2, <1>3, <2>3
    <3>2. IsFiniteSet(Firsts(j))
      <4> DEFINE f == [i \in 1 .. j |-> EndpointOf[Resolvers[i]]]
      <4>1. DOMAIN f = 1 .. j /\ f = [i \in 1 .. j |-> f[i]] /\ {f[i] : i \in 1 .. j} = Firsts(j)
        BY DEF Firsts
      <4>2. IsFiniteSet(1 .. j)
        BY FS_Interval
      <4> HIDE DEF f
      <4> QED BY <4>1, <4>2, ImageIsFinite
    <3>3. /\ Cardinality(observed) <= Cardinality(Firsts(j))
          /\ Cardinality(Firsts(j)) = Cardinality(observed) => Firsts(j) = observed
      BY <3>1, <3>2, FS_Subset
    <3>4. Cardinality(Firsts(j)) \in Nat
      BY <3>2, FS_CardinalityType
    <3>5. Firsts(j) = observed
      BY <1>4, <2>3, <3>3, <3>4
    <3> QED BY <3>5 DEF Firsts
  <2> QED BY <1>1, <2>1, <2>2, <2>3
<1> QED BY <1>7, <1>8

\* What was asked is forgotten between two collections.
LEMMA NothingAsked ==
  ASSUME Given, UNCHANGED inputs, observations' = <<>>, lookup' = NoLookup
  PROVE  /\ IsFiniteSet(observed') /\ Cardinality(observed') = Len(observations')
         /\ Len(observations') = 0
         /\ \E k \in 0 .. Len(Resolvers') : Pending' = Firsts(k)'
<1>1. observed' = {} /\ Pending' = {}
  BY DEF observed, Pending
<1>2. 0 \in 0 .. Len(Resolvers')
  BY FirstsFacts, InputsStay
<1>3. Firsts(0)' = {}
  BY DEF Firsts
<1> QED BY <1>1, <1>2, <1>3, FS_EmptySet

LEMMA DecideRecordAsked ==
  ASSUME Given, Typed, AskedInv, DecideRecord
  PROVE  EvidenceIsExhausted'
<1>1. /\ UNCHANGED inputs /\ Decided
      /\ snapshot'.observations = observations
  BY DEF DecideRecord
<1>2. Resolvers' = Resolvers /\ FirstEndpoints' = FirstEndpoints
  BY <1>1, InputsStay DEF FirstEndpoints, EndpointsOf
<1>3. Len(Resolvers) > 1 /\ Cardinality({o \in Range(observations) : Usable(o)}) < 2 =>
        {EndpointOf[observations[i].resolver] : i \in DOMAIN observations} = FirstEndpoints
  BY <1>1, ExhaustedEvidence DEF selected, observed
<1> QED BY <1>1, <1>2, <1>3 DEF EvidenceIsExhausted

LEMMA NextAsked ==
  ASSUME Given, Typed, ObservedInv, SnapshotInv, AskedInv, [Next]_vars
  PROVE  AskedInv'
<1>1. CASE StartLookup
  BY <1>1, StartAsksTheNext
<1>2. CASE Exchange
  BY <1>2, ExchangeAsksNobodyElse
<1>3. CASE Observe
  BY <1>3, ObserveCounts
<1>5. ASSUME UNCHANGED inputs, observations' = <<>>, lookup' = NoLookup, EvidenceIsExhausted'
      PROVE  AskedInv'
  <2>1. /\ IsFiniteSet(observed') /\ Cardinality(observed') = Len(observations')
        /\ Len(observations') = 0
        /\ \E k \in 0 .. Len(Resolvers') : Pending' = Firsts(k)'
    BY <1>5, NothingAsked
  <2> QED BY <1>5, <2>1, DNSCheckAssumption DEF AskedInv
<1>6. ASSUME UNCHANGED inputs, snapshot'.observations = snapshot.observations
      PROVE  EvidenceIsExhausted'
  <2>1. Resolvers' = Resolvers /\ FirstEndpoints' = FirstEndpoints
    BY <1>6, InputsStay DEF FirstEndpoints, EndpointsOf
  <2> QED BY <1>6, <2>1 DEF AskedInv, EvidenceIsExhausted
<1>7. CASE DecideRecord
  BY <1>5, <1>7, DecideRecordAsked DEF DecideRecord, Decided
<1>8. CASE NextExpected
  <2>1. snapshot'.observations = snapshot.observations /\ UNCHANGED inputs
    BY <1>8 DEF NextExpected, SnapshotInv
  <2>2. observations' = <<>> /\ lookup' = NoLookup
    BY <1>8 DEF NextExpected, Typed, Collecting
  <2> QED BY <1>5, <1>6, <2>1, <2>2
<1>9. CASE DecideA
  BY <1>5, <1>6, <1>9 DEF DecideA, Decided
<1>10. CASE DecideAAAA
  <2>1. snapshot'.observations = snapshot.observations /\ UNCHANGED inputs
    BY <1>10 DEF DecideAAAA, SnapshotInv
  <2>2. observations' = <<>> /\ lookup' = NoLookup
    BY <1>10 DEF DecideAAAA, Decided
  <2> QED BY <1>5, <1>6, <2>1, <2>2
<1>11. CASE Evaluate
  <2>1. observations' = <<>> /\ lookup' = NoLookup
    BY <1>11 DEF Evaluate, Typed, Collecting
  <2>2. snapshot'.observations = snapshot.observations /\ UNCHANGED inputs
    BY <1>11 DEF Evaluate
  <2> QED BY <1>5, <1>6, <2>1, <2>2
<1>12. CASE UNCHANGED vars
  <2>1. /\ observed' = observed /\ Pending' = Pending /\ Resolvers' = Resolvers
        /\ Collecting' = Collecting /\ \A k : Firsts(k)' = Firsts(k)
    BY <1>12, InputsStay DEF vars, observed, Pending, Collecting, Firsts
  <2>2. EvidenceIsExhausted'
    BY <1>6, <1>12 DEF vars
  <2> QED BY <1>12, <2>1, <2>2 DEF vars, AskedInv
<1> QED BY <1>1, <1>2, <1>3, <1>7, <1>8, <1>9, <1>10, <1>11, <1>12 DEF Next

-----------------------------------------------------------------------------
(* The invariant and the theorems.                                         *)

IInv == Given /\ Typed /\ ObservedInv /\ LookupInv /\ SnapshotInv /\ AskedInv

LEMMA InitHolds == Init => IInv
<1> SUFFICES ASSUME Init PROVE IInv
  OBVIOUS
<1>1. Given
  BY DEF Init, Given
<1>2. Typed
  BY DEF Init, Typed, Comparing, Collecting
<1>3. ObservedInv /\ LookupInv
  BY DEF Init, ObservedInv, LookupInv
<1>4. SnapshotInv
  BY DEF Init, SnapshotInv, Comparing, AbsenceIsCorroborated
<1>5. AskedInv
  <2>1. observed = {} /\ Pending = {}
    BY DEF Init, observed, Pending
  <2>2. 0 \in 0 .. Len(Resolvers) /\ Firsts(0) = {}
    BY <1>1, FirstsFacts
  <2>3. EvidenceIsExhausted
    BY DEF Init, EvidenceIsExhausted
  <2>4. Len(observations) = 0 /\ lookup = NoLookup
    BY DEF Init
  <2> QED BY <2>1, <2>2, <2>3, <2>4, FS_EmptySet, DNSCheckAssumption DEF AskedInv
<1> QED BY <1>1, <1>2, <1>3, <1>4, <1>5 DEF IInv

LEMMA NextObserved ==
  ASSUME Given, Typed, ObservedInv, LookupInv, [Next]_vars
  PROVE  ObservedInv' /\ LookupInv'
<1>1. CASE StartLookup
  BY <1>1, StartLooksUp
<1>2. CASE Exchange
  BY <1>2, ExchangeFinds
<1>3. CASE Observe
  BY <1>3, ObserveLearns
<1>4. ASSUME observations' = <<>>, lookup' = NoLookup
      PROVE  ObservedInv' /\ LookupInv'
  BY <1>4 DEF ObservedInv, LookupInv
<1>5. CASE DecideRecord \/ DecideA \/ DecideAAAA
  BY <1>4, <1>5 DEF DecideRecord, DecideA, DecideAAAA, Decided
<1>6. CASE NextExpected \/ Evaluate
  BY <1>4, <1>6 DEF NextExpected, Evaluate, Typed, Collecting
<1>7. CASE UNCHANGED vars
  <2>1. /\ task' = task /\ Host' = Host /\ AskedTruth' = AskedTruth /\ zone' = zone
        /\ observed' = observed /\ CanFlatten' = CanFlatten /\ Queries(phase)' = Queries(phase)
        /\ \A o : Honest(o)' = Honest(o) /\ Known(o)' = Known(o)
    BY <1>7, InputsStay DEF vars, inputs, Host, AskedTruth, TrueRecords, observed, CanFlatten,
                            Queries, Honest, Known
  <2>2. \A todo : Remaining(todo)' = Remaining(todo)
    BY <2>1 DEF Remaining
  <2> QED BY <1>7, <2>1, <2>2 DEF vars, ObservedInv, LookupInv
<1> QED BY <1>1, <1>2, <1>3, <1>5, <1>6, <1>7 DEF Next

LEMMA NextSettles ==
  ASSUME Given, Typed, ObservedInv, SnapshotInv, [Next]_vars
  PROVE  SnapshotInv'
<1>1. CASE StartLookup \/ Exchange \/ Observe
  BY <1>1, QuietSettles DEF StartLookup, Exchange, Observe
<1>2. CASE DecideRecord
  BY <1>2, DecideRecordSettles
<1>3. CASE NextExpected
  BY <1>3, NextExpectedSettles
<1>4. CASE DecideA
  BY <1>4, DecideASettles
<1>5. CASE DecideAAAA
  BY <1>5, DecideAAAASettles
<1>6. CASE Evaluate
  BY <1>6, EvaluateSettles
<1>7. CASE UNCHANGED vars
  BY <1>7, QuietSettles DEF vars
<1> QED BY <1>1, <1>2, <1>3, <1>4, <1>5, <1>6, <1>7 DEF Next

\* The inductive invariant of a record check: what an honest observation is
\* worth (ObservedInv, LookupInv), what has been settled from two observations
\* (SnapshotInv), and which endpoints have been asked (AskedInv).
THEOREM DNSCheckInvariant == Spec => []IInv
<1>1. IInv /\ [Next]_vars => IInv'
  BY NextTyped, NextObserved, NextSettles, NextAsked DEF IInv
<1> QED BY InitHolds, <1>1, PTL DEF Spec

\* A single faulty resolver cannot make a name absent, whichever other
\* resolvers fail: of two usable answers from distinct endpoints one is honest.
THEOREM AbsenceNeedsTwo == Spec => []AbsenceIsCorroborated
<1>1. IInv => AbsenceIsCorroborated
  BY DEF IInv, SnapshotInv, AbsenceIsCorroborated
<1> QED BY DNSCheckInvariant, <1>1, PTL

\* With more than one global resolver, whatever one of them answers to any
\* query of the check, a verdict on the records is the one the zone deserves.
THEOREM OneFaultyIsOutvoted == Spec => []OneFaultyNeverDecides
<1>1. ASSUME IInv, Len(Resolvers) > 1, verdict \in {"ok", "mismatch"}
      PROVE  verdict = TrueVerdict
  <2>1. /\ verdict = EvaluateDNS(task, snapshot.records, snapshot.err, snapshot.expected)
        /\ phase = "done"
    BY <1>1 DEF IInv, SnapshotInv
  <2>2. task.expected # <<>>
    BY <1>1, TaskFacts DEF IInv
  <2>3. snapshot.err = {}
    BY <1>1, <2>1, <2>2 DEF EvaluateDNS
  <2>4. /\ snapshot.records = TrueRecords /\ snapshot.expected = TrueExpected
        /\ zone[task.host] # NoName /\ \A n \in ExpectedNames : zone[n] # NoName
    BY <1>1, <2>1, <2>3 DEF IInv, SnapshotInv
  <2> QED BY <2>1, <2>3, <2>4 DEF TrueVerdict
<1>2. IInv => OneFaultyNeverDecides
  BY <1>1 DEF OneFaultyNeverDecides
<1> QED BY DNSCheckInvariant, <1>2, PTL

\* A check gives up for want of evidence only when every distinct endpoint
\* within the attempts was asked, however often an endpoint is listed.
THEOREM EveryEndpointIsAsked == Spec => []EvidenceIsExhausted
<1>1. IInv => EvidenceIsExhausted
  BY DEF IInv, AskedInv
<1> QED BY DNSCheckInvariant, <1>1, PTL
=============================================================================
