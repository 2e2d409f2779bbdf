# Domain Monitor: specification and proofs

TLA+ models of the `domain-monitor` daemon (`src/`), the TLC runs that check
them and the theorems TLAPS proves about them. Line numbers refer to
`src/src/internal/monitor/` unless they name another directory.

    tlasany M.tla                                  parse
    tlc -workers 2 -config MCCycle.cfg MCCycle     one run
    tlapm CycleProofs.tla                          one module's proofs

`PROJECT.json` lists the runs, the definitions' places in the source, the
hazards each property answers to, and one mutation of the model per property
that the property must detect.

## 1. The system

One process, no persistence, one engine goroutine, one notification worker, an
HTTP server, and a main goroutine that supervises them.

| Component | Code | State | Operations | Hard behaviour |
| --- | --- | --- | --- | --- |
| Monitoring cycle | `runtime.go:147-675, 744-1075` | cycle sequence; condition history and remembered statuses (locals of the engine); `Runtime.ExpiredDomains`; the published snapshot | gather RDAP, select the workload, gather the rest, evaluate, stage, publish, commit, dispatch | timeout or cancellation anywhere; panics of workers; encoding failure between staging and commit; two evaluations of the same evidence at different times |
| Worker pool | `runtime.go:123-145, 332-367` | an atomic counter, a wait group, slots of the evidence | claim, check, return | slots written without a lock; positions of two kinds of checks |
| Notifier | `notify.go` | queue and omission count under a mutex | dispatch, take, post | queueing concurrent with delivery; the limit of 64; lost answers and retries |
| HTTP retry | `utils.go:147-271` | attempt, open bodies | attempt, wait, give up | deadline against backoff, delays that overflow, bodies of retried responses |
| Lifecycle | `runtime.go:44-101, 688-708, 1077-1227` | contexts, `notificationWake`, `notificationDone`, `engineDone`, `serverErrChan` | see the goroutines | select races, a closed channel, wakes while busy, shutdown waits that time out, panics |
| Pricing cache | `pricing.go:28-120` | catalog pointer, `mu`, `fetchMu` | cached read, refresh | callers racing for the refresh; staleness |
| Bootstrap cache | `bootstrap.go:182-304` | services and time, `mu`, `fetchMu` | ensure, lookup | the same, plus a second read after `ensure` |
| DNS record checks | `config.go:556-632`, `dns.go:25-344, 653-949` | none between checks | query, collect, compare, resolve an alias, match | lying and failing resolvers, duplicates, NXDOMAIN among failures, explicit absence |
| RDAP and WHOIS lookup | `lookup.go:26-1443` | none (a shared limiter) | four retry loops: registry, registrar, WHOIS, its referral; merge; evaluate | which failure decides, who may call a domain absent, whose date counts |
| Domain worker | `runtime.go:189-266` | the evidence of one domain | gather and evaluate each configured check | a check that fails must not silence another |
| Email check | `dns.go:951-972, 1158-1438`, `runtime.go:227-238` | none between checks | query MX, SPF, DMARC, DKIM; evaluate | which of several failures decides; an outage beside a finding |
| DMARC discovery | `dns.go:1027-1155` | none | tree walk | psd tags, query budget, long names |
| Delegation check | `lookup.go:1445-1561` | none | resolve the parent's servers, query, compare | failover; a denial against silence |
| DNSSEC validation | `dns.go:346-650` | none | query DS and DNSKEY, verify, corroborate, evaluate | which keys count; an outage against a broken chain |
| Query with failover | `dns.go:32-122` | `GlobalResolverIndex`, shared by all workers | choose a server, ask, ask the next | where the rotation begins and ends |
| Nameserver health | `dns.go:1441-1665`, `runtime.go:267-330` | none | resolve, ask for SOA and keys, compare, classify | partial answers, unreachable servers, disagreement |
| Configuration | `config.go` | none after startup | load, migrate, validate, normalize | sequential |
| HTTP API, dashboard | `runtime.go:44-101`, `index.html` | reads the published pointer | group the domains by their results | results of which some are outages |
| Network policy, types, logging | `netpolicy/`, `types.go`, `utils.go`, `constants.go` | none | | |

How they interact: the engine runs cycles; a cycle calls the pool, and inside it
the lookups and the evaluators; it calls the caches; it installs the snapshot the
API serves with one atomic swap; it hands alerts to the notifier's queue. After
each cycle the engine puts a token into `notificationWake`, and the worker flushes
the queue. Main waits for a signal, a server failure or the end of the engine, and
shuts the others down in order. The pool runs one worker per domain, which goes
through the domain's checks one after the other; all evaluators promote their findings
by the same tracker (`types.go:142-188`), and the dashboard groups a domain by the
results of all of its checks.

What makes each part correct:

- *Cycle*: history, held domains, alerts and snapshot change together or not at
  all; a failed attempt reports itself and nothing else; a finding's age is the
  time its code has been shown without a break; expired domains are silent, and
  nobody else is because of them.
- *Pool*: every slot written once, before the pool returns.
- *Notifier*: the report carries the most important alerts raised and the number
  of the others; none is lost or counted twice; a delivery ends.
- *HTTP retry*: every response but the caller's is closed; a call ends in bounded time
  and with its deadline; a server is not asked again before the time it named.
- *Lifecycle*: no send on a closed channel, no lost wake, a clean stop reports
  every alert, the process always exits, a requested stop is no failure.
- *DNS record checks*: one faulty resolver never decides; absence needs two; no
  evidence within the attempts is left out.
- *RDAP lookup*: a domain is absent or expired on somebody's word only; WHOIS is
  the last resort; what the registry said is kept; a healthy verdict hides nothing
  either tier said.
- *Email check*: success means that every lookup succeeded and nothing is wrong; an
  outage of one lookup hides nothing another found.
- *DMARC discovery*: the policy found is the one that governs the domain in the tree,
  within eight queries; a node that cannot be read is never passed over.
- *Delegation check*: accepted exactly when the parent publishes the servers configured
  to answer; only silence is an outage.
- *DNSSEC validation*: verified exactly when a key the parent vouches for has validly
  signed the key set and the DoH resolver has seen such a key.
- *Failover*: different entries of the list of servers, as many as allowed, wherever the
  rotation begins.
- *Nameserver health*: healthy exactly when all servers answer with authority and agree.
- *Dashboard*: a domain stands under Issues exactly when a fault is confirmed, under
  Unavailable when there were only outages; with three exceptions in the code (section 4).
- *Caches*: one fetch per TTL, nothing too old is served, nobody is refused what
  is there, nobody waits forever.

## 2. Modules

| Module | Models | Extends / instantiates |
| --- | --- | --- |
| `Publication` | what readers of `/api/state` may rely on (abstract) | |
| `Cycle` | the monitoring cycle | instantiates `Publication` |
| `CycleProofs` | theorems about `Cycle` | `Cycle`, `SetFacts` |
| `WorkPool` | `runBoundedChecks`, `gatherFastEvidence`, `fastCheckSlot` | |
| `HTTPRetry` | one HTTP request with its retries and its clock | |
| `ExecutionProofs` | theorems about `WorkPool` and `HTTPRetry` | both |
| `DNSCheck` | the check of one DNS record | |
| `DNSCheckProofs` | theorems about `DNSCheck` | `DNSCheck`, `SetFacts` |
| `ConditionTracker` | how findings become a status and a condition | |
| `RDAPLookup` | the lookup and evaluation of one registration | `ConditionTracker` |
| `RDAPLookupProofs` | theorems about `RDAPLookup` | `RDAPLookup` |
| `AlertQueue` | what a cycle report contains (abstract) | |
| `Notify` | queue, reports, delivery with retries | instantiates `AlertQueue` |
| `Lifecycle` | the goroutines around engine and notifier | `Notify` |
| `LifecycleProofs` | theorems about `Notify` and `Lifecycle` | `Lifecycle`, `SetFacts` |
| `StaleCache` | what both caches promise their callers (abstract) | |
| `SharedCopy` | the copy and its fetch mutex | |
| `PricingCache`, `BootstrapCache` | the two caches | `SharedCopy` |
| `Caches` | either cache and its callers | both; instantiates `StaleCache` |
| `CacheProofs` | theorems about `Caches` | `Caches` |
| `DomainWorker` | a configured domain, the order of its checks, what a query says | `ConditionTracker` |
| `DMARCWalk` | DMARC discovery | `DomainWorker` |
| `EmailCheck` | the email check | `DMARCWalk` |
| `Failover` | a query to one of several servers | `DomainWorker` |
| `Delegation`, `DNSSEC` | the checks of a delegation and of the chain of trust | `Failover` |
| `NSHealth` | the health of the nameservers | `DomainWorker` |
| `DomainChecks` | the worker of a domain with all of its checks, and the dashboard | the four checks |
| `DomainProofs` | theorems about `DomainChecks` | `DomainChecks`, `SetFacts` |
| `SetFacts` | induction over numbers and their least elements, images of finite sets | |
| `MC...` | values of the constants for TLC | |

### Cycle

One action per phase: `GatherRDAP` (`runtime.go:523-530`), `GatherFast`
(`532-539`), `Evaluate` (`542-552`), `Publish` (`641-658`), `Commit` (`659-664`),
`DispatchAlert` (`1071-1075`), `EndCycle`; `GiveUp` for either context check
(`617-639`) with the rewritten snapshot of `publishCycleFailure`, and
`EncodingFails` for the early return at `656`. `Cancel` and `TimeOut` come from
outside at any moment.

- A result is its status, the code of its condition, the set of codes among its
  findings, and `since`. Mismatch and hijacked are alertable like failed and are
  represented by it. `CodeNone` is `NoCode`.
- Keys are `<<check, target>>`. A generated CAA task is named by its domain; its
  result is stored under `"caa"`, although the *initial* snapshot lists it under
  `dns`, as `PublishInitialState` does.
- Domains are sequences of labels, so that `configuredDomainOwner` is translated
  by what it does: the longest configured suffix.
- An RDAP answer is one of five kinds. `lapsing` is a registration whose
  expiration passes during the cycle: `time.Until` is read again by the second
  evaluation, and `Evaluate` chooses which lapsing domains have expired by then.
- A domain worker evaluates email, delegation, DNSSEC and nameservers in this
  order and may panic in any of them; `storePanicDomainResults` then fills what
  is missing. "Missing" is a key the state does not hold: in the code a zero
  status. `newCycleState` pre-fills the RDAP entry, which is the first finding
  below.
- `since` is the number of the cycle instead of the time.
- `dispatched` (the alerts handed over since the last publication) is a history
  variable and a set: an alert handed over twice would not be seen in it.
- A hold begins and is kept on for a cause only, and ends with any answer that does not
  confirm the expiry: `HoldReleasedByAnswer` states both, since a domain that is held for
  ever is as silent as one whose hold is correct.
- Abstracted: durations and timestamps of a snapshot, prices, the text of alerts,
  the DNS evidence inside a result, the failure of encoding a *failed attempt*
  (it is then not published; readers keep the previous snapshot).

### WorkPool

`next` is the atomic counter, `claim[w]` the position a worker holds, `writes`
counts the writes of each slot. A recovered panic of a check still writes its slot.

### Notify

The queue is a set: `sortAlerts` is a stable sort, so the order of arrival breaks
ties and the order is strict. `Dispatch` does not copy the check into the queued
alert (`notify.go:42`), so the comparison by check (`96`) never decides; `Before`
leaves it out. Delivery is one report at a time: `FirstPost`, `Answer`, `Retry`,
`GiveUpRetry`. Between the server and the worker an answer may get lost: `received`
and `verdict` are chosen independently, except that an acceptance implies receipt.
The clock of the backoff is the subject of `HTTPRetry`: here the delay may be too long or
the deadline too close at any retry.

### HTTPRetry

One call of `doHTTPWithRetry`. `now` is the time since the call began, `attempt` the counter of
`retryWithBackoff`, `wakeAt` its timer, `open` the bodies that nobody has closed. `Send` is
an attempt, which takes some of the `RequestTimes` but ends with the context; then comes exactly
one of `Succeed`, `Fail`, `GiveUp` and `Wait`, which are the returns of the two functions and
the start of the timer. After a wait, `Retry` and `Interrupt` are the branches of the
`select`; a timer may be noticed late by up to `Lateness`, and where both branches are ready
either is taken. The header of a response is a number of seconds, whose product with `Second`
is `Wrapped` to the width of a duration, or a date, whose distance saturates.

### Lifecycle

Main's `select` is modelled with its semantics: ready cases are chosen from
freely, and a main that is already blocked is woken by the first case to become
ready (`Notice`). `wake` is the buffered channel with its token and whether it
is closed. A cycle is reduced to gathering and dispatching; `EnginePanics` may
strike in both. `MainStopsServer` may add the error of a shutdown timeout;
`MainEngineTimeout` and `MainWorkerTimeout` may fire at any moment of their wait.

### DNSCheck

`StartLookup` is a turn of the loop in `collectDNSObservations` (`dns.go:158`),
`Exchange` one query to the resolver, `Observe` its observation; `DecideRecord`
compares (`665-692`), and, for an alias that is published as addresses,
`NextExpected`, `DecideA` and `DecideAAAA` resolve the expected names in the same
loop (`queryDNS`, `queryIPRecords`) before `Evaluate`. The configured task is
normalised as `config.go` does it. The zone is fixed during a check; an honest
resolver answers it or fails, the faulty endpoint answers anything. An error is
the set of the kinds it wraps, which is what `errors.Is` can tell.
The usable observations (`selected`) are a set: no two are of the same resolver.
Abstracted: why a query failed, the order and canonical form of records, the
reason a mismatch is explained with.

### RDAPLookup

The four parties are asked in one and the same loop, `Ask`, `Retry`, and the actions
that end it: `RegistryAnswers`, `RegistryDenies`, `RegistryFails`, and so on. The
registrar is asked inside the attempt at the registry in the code
(`lookup.go:1147`), which no longer retries then. `Retries` collects the conditions
for another attempt, which differ between parties and kinds of failure. `config`
and `servers` are chosen in `Init`; a tier is one of a few records that disagree in
every way that matters. Dates are days left at evaluation, so two evaluations of
one result are the subject of `Cycle`. `asked`, `heard` and `cut` are history
variables. Abstracted: reading RDAP, WHOIS and vCards, the discovery of a WHOIS
server, which fault of a delegation and which hold it is, the discrepancies shown.

### Domain checks

`DomainChecks` is the worker of one domain, `gatherDomainEvidence` and
`evaluateFastDomainChecksWithEmail`. The variable `phase` says which query it makes
next: `mx`, `spf`, `dmarc`, `dkim`; `parents`, `delegation`; `resolvers`, `ds`,
`dnskey`, `doh`; `servers`, `soa`, `nsKeys`; then `evaluate` and `done`. A check that
is not configured is passed over (`FirstPhase`, `AfterEmail`, `AfterDelegation`,
`AfterDNSSEC`). `Domains` filters the domains *written* in a configuration by what its
normalisation accepts. Each query is one step whose answer is chosen from what the
network may say; the email queries go through `queryDNS`, whose observations
are the subject of `DNSCheck`.

- `DMARCWalk`: a node of the tree is its number of labels; a record is its psd tag, or
  malformed. `QueryDMARC` is one pass of the loop; `Parent` makes the jump of a long
  name, `TakePolicy` the preference for the node below a public suffix.
- `EmailCheck`: exchangers, selectors and hosts are model values, and a provider
  is the set of exchangers under its suffixes. `EmailStatus`, `EmailCondition` and
  `EmailConditions` follow the order in `EvaluateEmailSecurity`.
- `Failover`: `first` is any server, since every worker advances the same counter; the
  pause between attempts may end the query at any of them. A server is a position in the
  list: the addresses of a parent's nameservers are not deduplicated.
- `Delegation`: a referral is a list, with repetitions. `Answering` and `Hidden` are the
  two sets of the comparison.
- `DNSSEC`: a key stands for its tag, algorithm and digest. What the library says of a
  signature is a choice per key: none that verifies, one outside its period, or valid. The
  DoH resolver cannot be reached, or its answer is not authenticated, or it vouches for keys.
- `NSHealth`: what was heard of a server is kept as it was heard, and
  `NSSnapshot` computes from it what `FetchNSSnapshot` stores, since the code folds
  the answers into a snapshot as they arrive.

Each check has, beside its evaluation, a *fault* (what the answers prove to be
wrong) and an *outage* (what could not be asked), both defined on the answers and not on
the findings; the properties relate the evaluation to these. Where the code takes one for
the other, the case has a name and the properties state it: `DoHOutage` and `KeysOutOfReach`
are outages it reports as faults (`TakenForFault`), `MalformedPolicy` is a fault it reports
as an outage (`TakenForOutage`).

### Caches

The value of a copy is the time it was fetched. A caller's steps are separated
where another goroutine can run: between reading the field, `TryLock`, `Lock`, the
second look, the fetch and the deferred unlock. `PricingCache` keeps the pointer
each caller has read. The clock advances at any moment. The caches share nothing
but their design, so a behaviour of `Caches` is about one of them.

The callers are those of the caches' contract: both are written for concurrent ones, and
tested with them (`pricing_test.go:268`, `lookup_test.go:2250`,
`bootstrap_coverage_test.go:113`). The daemon as it is has one sequential caller of each: the
engine reads the catalog once a cycle (`runtime.go:537`), and registrations are looked up one
after the other (`lookup.go:1167`). The races between callers are therefore not to be seen in
the daemon today; the ageing and the failing fetches are.

## 3. Runs

| Run | Bounds | Checks |
| --- | --- | --- |
| `cycle` | one domain with `allow_expiry` and email, one record, 3 cycles | types, history, alerts, hold and its release, first-seen time, refinement of `Publication`; cycles end, publication is followed through |
| `cycle_portfolio` | a domain with CAA, a delegated zone with muted alerts, a record on the zone, 2 cycles | who is silenced |
| `cycle_panic`, `cycle_lapse` | the smallest instance | the two findings |
| `notify` | 2 severities, 2 targets, 2 alerts per report, 2 attempts, 4 alerts | accounting, refinement of `AlertQueue`; deliveries end |
| `lifecycle` | 1 alert per report, 2 attempts, 2 alerts | the safety of the goroutines; the process exits; queued alerts are flushed |
| `caches` | either cache, 2 callers, TTL 1, maximal age 2, clock to 4 | refinement of `StaleCache`; callers return |
| `dns_check` | 4 resolver lists of up to 5 entries with a duplicate, 4 endpoints of which one may be faulty, 10 zones of 2 names, 10 tasks | verdict, absence, evidence |
| `dns_absence` | one task, the same zones and resolvers | the third finding |
| `rdap_lookup` | 5 server lists of up to 4 URLs with one not allowed, up to 2 registrar links, 7 tiers, 3 configurations, 3 attempts | who may confirm absence, order of the parties, merging |
| `domain_checks` | 23 written domains, of which normalisation accepts 19, with one or two kinds of check, up to 5 labels, 2 servers, 2 keys, 3 hosts, 2 selectors; 2 attempts at up to 3 servers | each check's verdict against the answers; the dashboard's grouping, with its three exceptions |
| `execution` | the pool: 3 workers, up to 4 tasks and 4 domains; or one call: 2 policies, 4 deadlines, 11 headers, 3 attempts, a second of 8 units, durations of 9 bits | slots, return; bodies, time, delays asked for |

Why these bounds. *Cycle*: a property relates at most two successive snapshots
and a failed attempt between them; three cycles give expiry, an unreachable
registry and the answer that releases the hold. *Notify*: with two places and
four alerts the queue overflows twice in one report or once in each of two.
*Lifecycle*: two alerts may be queued in different cycles, or before and during a
flush; the wake token overflows
when two cycles end during one delivery. *Caches*: a holder of the mutex and a
caller that saw the copy it replaces, which may call again any number of times;
at clock 3 a copy of time 0 has been fresh, acceptable and too old, and the clock
goes on to 4. *DNSCheck*: the attempts (3, as in the code) are fewer than the
endpoints and than the entries, so that the loop ends for each of its reasons; the
task list has every kind of matching and every place where lookups are joined.
*RDAPLookup*: lists shorter and longer than the attempts; dates that are absent,
garbled, past, critical, near and far. *Domain checks*: one or two
kinds of check in a domain, so that every check meets every answer and the dashboard meets
every pair of results that matters; a nameserver has one address or more than may be asked
where the check is alone, and one otherwise. The limits of the
tree walk are 3 queries, 3 labels and 2 target labels for 8, 8 and 7, so that names of 4 and 5
labels are long; findings are cut at 4 instead of 16, which several faults of the email
check exceed. The sets of text records leave out pairs that are treated like the listed ones.
*HTTPRetry*: a second has 8 units and a duration 9 bits, so that 32 seconds
overflow to a negative delay, 65 to one of a second, and 300 are no integer; deadlines end
a request, a wait, and neither. *Pool*: both seams, more workers than checks and fewer.

Deadlock checking is off where the system stops by itself (the engine, the
pool and the worker of a domain return, the process exits, the notifier has nothing to do)
and on for the caches.

Fairness. *Cycle*: the steps of a cycle, not its start: every request has a
timeout. *Notify*: the steps of a delivery: request timeouts, a bounded backoff, a
deadline. *Lifecycle*: main's steps, since each of its waits has a timeout; and, where
`hangs` is false, those of the engine and the worker. Whether they may hang in a
request is chosen in `Init`: the process exits in both cases, and alerts are
flushed where they do not. *Caches*: weak fairness of a caller's steps and strong
fairness of taking a mutex, which `sync.Mutex` gives by handing it over to a
waiter that has starved. *Pool*: weak fairness of its steps.
`DNSCheck`, `RDAPLookup`, `HTTPRetry` and `DomainChecks` are checked for safety only: their
loops count attempts or run through finite lists.

## 4. Findings

1. `cycle_panic`. `storePanicDomainResults` replaces the RDAP result of a
   delegated zone only if its status is unknown (`runtime.go:378`), but
   `newCycleState` has stored *pending* (`807`). If the zone's worker panics
   before or in the delegation check, the successful snapshot shows the check as
   pending, and no alert is raised. `runtime_test.go:588` expects *failed*, on a
   state that was never passed through `newCycleState`.
2. `cycle_lapse`. Holding is decided by the first evaluation of the RDAP answers
   (`529-530`) and committed (`664`), while the second (`545`) is published. A
   domain that expires in between is shown with `expiry_confirmed`, suppressed in
   that snapshot, and not held: with the registry unreachable in the next cycle
   its dependent checks resume. `src/README.md:230-232` promises suppression until
   registration reappears.
3. `dns_absence`. `normalizeDNSTaskExpected` collects the expected values into a nil
   slice (`config.go:610`), so the explicit empty list of a task becomes nil, while
   `EvaluateDNS` accepts NXDOMAIN only for a list that is empty and not nil
   (`dns.go:713`). A name whose absence is monitored is reported as a failed lookup
   when it does not exist. `src/README.md:202` promises monitoring for absence;
   `dns_test.go:829` tests it with a task that was never normalised.

Observed while modelling, without a run: the seconds of a `Retry-After` header are multiplied
in 64 bits (`utils.go:198`), so that from 9223372037 seconds on the delay is negative or
arbitrarily short, and the request is repeated after the client's own backoff, which is why
`ShortRetryAfterIsHonoured` excludes delays beyond a duration (`utils_test.go:76`: "a long
Retry-After must defer work to a later cycle"), while the bounds of the loop hold all the same
(`ReturnsInTime`); a result of a held domain is published
without `since` and raises no alert; a report that is too long is cut at its end
(`notify.go:117-127`), where the notice of omitted alerts stands; when the
notification worker times out its alerts are gone, and the process still exits
with success; after a snapshot fails to encode, no failed attempt is reported; a
signal that arrives before main reaches its select may be reported as an engine
that exited (`earlyStop` in `Lifecycle`); a registry server that asks for a delay beyond
`MaxRetryDelay`, or fails with an error that is not transient, ends the loop before
the other servers were asked, although WHOIS is documented as the last resort
(`docs/protocols.md:14`; `cut` in `RDAPLookup`).

Of the domain checks, likewise without a run. The README says that "inconclusive
lookup failures appear under Unavailable, while confirmed domain findings stay under Issues"
(`src/README.md:37-39`). The code does not keep this in three cases:

- when the local chain is intact and the DoH resolver cannot be reached, the result is
  `dns_lookup_failed` and not a network error (`dns.go:428-430, 483-494, 643`), so the domain
  is listed under Issues (`DoHOutage`);
- with `dnssec`, the missing keys of a nameserver confirm an issue even if the server was not
  found because address lookups failed (`runtime.go:284`), so the domain is listed under
  Issues (`KeysOutOfReach`);
- a malformed DMARC policy is definitive, but reported like a failed lookup
  (`dns.go:1115`, `runtime.go:227-238`), so a domain with nothing but that wrong is listed
  under Unavailable (`MalformedPolicy`).

`ListedByItsFindings` states how domains are listed with exactly these exceptions, so it is
not the README's sentence, which is wrong about them; it also shows that there is no
fourth. Further observations about these checks:

- a failed DMARC lookup replaces the condition of a hijacked MX and its status by `failed`
  (`dns.go:1238, 1291`); the finding stays;
- a nameserver that is unreachable and lost one of two address lookups counts as an outage,
  although the addresses it does have were asked in vain;
- SERVFAIL of a resolver is a network error to the DNSSEC check (`dns.go:107-110, 376`);
- with a provider that is not in the table and no expected exchangers, any MX record is
  verified (`dns.go:1301-1346`);
- `CodeEmailMultipleDMARC` cannot occur: the walk returns at most one record.

## 5. Proofs

`CycleProofs`, for every portfolio that satisfies `CycleAssumption` and any
number of cycles:

- `CycleTypes`: `Spec => []TypeOK`
- `AlertsAreNeverEarly`: `Spec => []AlertsFollowPublication`
- `HistoryIsThePublishedOne`: `Spec => []HistoryMatchesPublication`
- `CycleImplementsPublication`: `Spec => ImplementsPublication`
- `FindingsAreAlerted`: `Spec => []EveryFindingAlerts`
- `ExpiredDomainsAreSilent`: `Spec => []ExpiredDomainsStaySilent`
- `OnlyExpirySilencesTasks`: `Spec => []OnlyExpirySilences`
- `HoldsAreReleasedByAnswers`: `Spec => HoldReleasedByAnswer`
- `SinceIsTheFirstSeen`: `Spec => SinceIsFirstSeen`

The first four follow from `CycleInvariant`, `Spec => []IInv`, with `IInv` the conjunction
of four parts:

- `Typed`: what each phase leaves for the next (the RDAP answers until the
  evaluation, the outcomes of exactly the active checks, a map of results);
- `Numbering`: an unreported cycle is newer than every reported attempt, which
  makes attempts increase;
- `AlertsInv`: alerts waiting to be dispatched belong to the published snapshot;
- `HistoryInv`: before the commit, the *staged* history agrees with the snapshot;
  otherwise the committed one does.

`HistoryMatchesPublication` alone is not inductive because of held domains. Their
RDAP results are published without being visited, so an old entry of the history
would survive pruning with an old `since` if the result were a finding. It
cannot: a domain is held because it was held before, and then has no entry
(`Unlisted`), or because the registry confirmed its expiry in this cycle
(`HeldForAReason`), and then its result is no finding in the second evaluation
either, since an expired answer cannot become unexpired (`OnlyHeldAreSkipped`). The
argument needs that a domain owns its CAA task, `DomainOwnsItself`: the longest
configured suffix of a configured domain is the domain.

The others need two more parts, `SilenceInvariant`. `HoldingInv` says whom a cycle holds
back (`Holding`, in terms of the registry's answers) and what a snapshot *shows* of it,
from the evaluation through publication and commit to the next publication: no dependent
check of a held or expired domain (`Silent`), an expired or held owner for each missing task
(`Explained`), a cause for each hold: the domain is confirmed expired or could not be asked about
(`HeldForCause`),
and an answer about every domain that is released (`Released`). The two evaluations of the
same answers agree about who is held, although a domain may lapse in between
(`GatherHolds`, `EvaluateShows`). `AlertsDue` says that the alerts handed over and those
waiting are together the ones the snapshot calls for, because a finding is visited exactly if
it is not the registration of a held domain (`VisitedUnlessHeld`). For first-seen times the
case to exclude is an outage of a held registration, which is on display but not in the
history: its domain could be released while the same code stays. `HeldForCause` and
`Released` exclude it (`HistoryKnowsWhatWasSeen`). The same two parts are the halves of
`HoldReleasedByAnswer`: a hold does not end without an answer, nor go on after one. That the closest configured domain
exists at all is `OwnerIsLongest`, by `NatLeastElement` on the number of
labels in excess.

`ExecutionProofs` has two parts. The pool, for any finite set of workers and any portfolio: `SlotsWrittenOnce`
and `PoolGathersEverything`, from `PoolInvariant`: a slot has been written exactly
if its position was claimed and no worker holds it any more. The lemmas
`SlotsDistinct` and `SlotsCovered` say that `fastCheckSlot` is a bijection.

The retry loop, for any replies, headers, deadlines and widths of a duration: `NoBodyLeaks`,
`RetrySpec => []NoBodyIsLeaked`, `CallsAreBounded`, `RetrySpec => []ReturnsInTime`, and
`RetryAfterIsKept`, `RetrySpec => []ShortRetryAfterIsHonoured`, from `RetryInvariant`:

- `BodyInv`: the body that is open is that of the current response or of the result;
- `TimeInv`: the clock shows at most the time of the attempts so far and of the longest waits
  between them (`Elapsed`), and a timer fires before the deadline;
- `AskedInv`: the timer is not set to an earlier time than the server named, if that is a
  duration at all; below the limit a product does not wrap around (`WrappedIsIdentity`), and
  the header is read as it was meant (`HeaderIsRead`).

`CallsAreBounded` needs nothing of what a header asks for: a delay that wrapped
around is still compared with its bound. That `2 ^ n` is a natural number is
`PowerAssumption`, which TLC evaluates.

`RDAPLookupProofs`, for any servers, links, tiers and configurations:
`ExpiryNeedsEvidence`, `Spec => []ExpiryIsConfirmed`, `RDAPIsKept`,
`Spec => []PartialRDAPIsKept`, `WHOISComesLast`, `Spec => []WHOISIsTheLastResort`, and
`OkIsOk`, `Spec => []OkHidesNothing`, from `LookupInvariant`, whose invariant has four parts:

- `AnswerInv`: an answer that has arrived is recorded as heard;
- `TierInv`: whose tiers there are at each stage, and that `denied` was heard;
- `ConclusionInv`: nothing is concluded before the end, `rdapErr` never says
  "not found", so an outage cannot, and a merged date is the date of a tier;
- `KeptInv`: once the registry's RDAP has answered, its registrar is asked at most,
  and the snapshot keeps what the registry said.

The last two theorems need more of the loop and of the snapshot, `ResortInvariant`.
`ResortInv` says that the servers are asked round robin (`RoundRobin`) and that a loop which
was not cut short made an attempt at each of the first servers (`EndedByAttempts`). `MergeInv`
says that what the snapshot holds is the merge of what the registry and the registrar said, so
that a verdict without a finding (`NoFinding`) is about every tier that was heard
(`MergedIsEarlier`).

The lemmas `MergedDate`, `Merged` and `WHOISRead` say what merging two tiers keeps
and when WHOIS is read as absence; they assume of a tier only that its date is a
number, absent or unreadable (`RDAPLookupAssumption`, `NoTierAssumption`). What `SelectSeq`
returns is closed to the provers; `SafeAssumption` says that selecting the servers that may
be asked gives a sequence of them, and TLC evaluates it.

`DNSCheckProofs`, for any task, any lists of resolvers, any zone and any one faulty endpoint:
`OneFaultyIsOutvoted`, `Spec => []OneFaultyNeverDecides`, `AbsenceNeedsTwo`,
`Spec => []AbsenceIsCorroborated`, and `EveryEndpointIsAsked`,
`Spec => []EvidenceIsExhausted`, from `DNSCheckInvariant`:

- `ObservedInv`: the resolvers asked are distinct endpoints, and the honest ones among them
  said what the zone holds of the name that is asked for now;
- `LookupInv`: during a lookup what was found and what is still to be asked (`Remaining`) is
  together the truth, unless a CNAME that will be flattened has not been asked yet;
- `SnapshotInv`: a check that no error has stopped has found the true records, and the
  addresses of the expected values before `index` (`Resolved`);
- `AskedInv`: the endpoints asked are those of the first entries of the list, as many as
  there are observations.

Two usable observations are of distinct endpoints, so one of them is honest (`OneIsHonest`),
and what is decided from both is true (`DecisionIsSound`). That the next entry to be asked
exists is `NatLeastElement`; that a full number of attempts has covered every entry that could
have had one compares cardinalities (`ExhaustedEvidence`).

`CacheProofs`, for any number of callers, any TTL and any maximal age, of both caches:
`FetchesAreExclusive`, `Spec => []OneFetcher`, and `CachesImplementStaleCache`,
`Spec => ImplementsStaleCache`, from `CacheInvariant`. Its invariant adds to the types
and the mutex what a caller knows that another one could undo: whoever is about to fetch
has found the copy expired and nobody can have replaced it since (`FetchInv`), and a copy
about to be returned was acceptable when the call began (`AnswerInv`). One lemma for each kind
of step of `StaleCache`: `CallAsks`, `FetchRefreshes`, `ReturnServes`, `ErrorRefuses`.

`LifecycleProofs` begins with the notifier, for any alerts, priorities and capacity:
`NotifierImplementsAlertQueue`,
`NotifySpec => ImplementsAlertQueue`, from `QueueInvariant`: the batch holds the first alerts
of those offered (`FirstOf`), and `omitted` counts the others. Cutting the last one of a full
batch keeps this since `Before` is a strict order (`BeforeIsStrict`, `BeforeIsTransitive`)
with a last element in every nonempty set (`LastIsLast`); the batch is then what `Best`
chooses, since there is only one such set (`FirstIsUnique`).

`AlertsAreAccountedFor`, `NotifySpec => []EveryAlertAccountedFor`, follows from
`AccountInvariant`. It adds two parts to `QueueInvariant`. `PlacesInv`: a report in flight is
empty or carries alerts that are no longer offered, a finished report is not empty, and none
of its alerts is still offered or in flight; hence a report that ends is not one that has
ended before, and the sum over the *set* of finished reports grows by its weight.
`CountInv`: all alerts raised are offered, in flight, or in the sum. The sum is a
`MapThenSumSet`, which is defined by recursion on subsets; that such a function exists
and that one more element adds its weight, whichever element `CHOOSE` takes out first, is
proved by induction on the size of a set (`NatSetInduction`).

Then the processes, for any alerts and any numbers of them: `WakesAnOpenChannel`,
`WakesAreKept`, `CleanExitFlushes`, `RequestedStopIsClean` for the order and the
reasons of a shutdown, from `LifecycleInvariant`:

- `ChannelInv`: the wake channel is closed after the engine has ended;
- `StopInv`: a listening main would have been woken, and an engine ends by a signal or a panic;
- `WakeInv`: what a finished cycle has queued is announced by the token or about to be taken;
- `FlushInv`: the last flush begins when nobody queues any more, and only a worker that was
  stopped ends without it.

`LifecycleTypes` bounds the attempts of a report, the receipts of the receiver by the
attempts, and types the rest.

`ProcessRunsNotifier`, `Spec => NotifySpec`, says that every step of the goroutines is one of
the notifier or leaves it alone, so that its theorems hold of the process:
`ProcessImplementsAlertQueue`, `Spec => ImplementsAlertQueue`, and `CleanExitReportsAll`,
`Spec => []EveryAlertIsReported`. The latter joins the two invariants: a shutdown without a
timeout leaves queue and report empty (`CleanShutdownFlushes`), so the finished reports account
for everything.

`DomainProofs`, for any domains, limits, answers and numbers of servers. Each check has an
invariant of its own; what it needs of the others is that they leave its variables alone and
come before or after it (`Handover` and the lemmas on phases):

- `DMARCPolicyFound`, `Spec => []DMARCPolicyIsTheTrees`: during the walk (`Walking`) the
  nodes beyond the current one have been asked, their number is the number of queries, none
  was unreadable or decisive, and the candidate is the last of their policies. `WalkStep`
  shows that going on keeps this and that ending establishes the property.
- `FailoverIsFair`, `Spec => []FailoverAsksOthers`: the servers asked are as many as the
  attempts made, because turns that differ by less than the number of servers lead to
  different servers (`TurnsDiffer`).
- `DelegationVerdictIsExact`, `Spec => []DelegationIsExact`, from `ComparisonIsExact`: the
  comparison of lists raises nothing exactly if the sets are equal. It needs that a hostname
  is configured once.
- `DNSSECVerdictHolds`, `Spec => []DNSSECVerdictIsTheChains`: `DNSSECInv` says what has been
  asked at each stage, and `DNSSECVerdict` compares the evaluation with the chain.
- `NameserversAreInSync`, `Spec => []ServersInSync`: only the last address asked may have
  answered with authority (`Heard`), hence the snapshot of a server is in sync exactly if
  one of its addresses is (`SnapshotInSync`); there is a first server to compare with
  (`BaselineInSync`, by `NatLeastElement`), and servers that agree with it agree
  with each other.

- `EmailFindingsAreKept`, `Spec => []EmailHidesNothing`: `EmailInv` says what has been asked
  at each stage and that the result is the evaluation of the answers. `Conditions` names the
  codes that an evaluation may contain, `FindingsOfConditions` what the cut keeps of them.
  Exchangers are listed in an order that `SetToSeq` chooses; the argument needs only that
  it lists elements of a finite set, and some if there are any (`Enumerates`), which is why
  `EmailAssumption` says that answers are finite; hence a mismatch is reported, by one of the
  codes that stand for it (`MismatchIsReported`).
- `DomainsAreListedByFindings`, `Spec => []ListedByItsFindings`: `ListingInv` has, of each check
  that is configured, when it is ok and when it counts as unavailable, in terms of its
  faults, its outages and those the code takes for the other (`EmailResult`,
  `DelegationResult`, `DNSSECResult`, `NSResult`); the heading follows by cases (`ListedByResults`). For nameservers it needs
  that each was looked up before it is compared (`ResolvesFirst`), and that what the code
  takes for a confirmed issue is a fault of some server or keys out of reach (`IssueIsFault`).

`SetFacts` has induction over the natural numbers (with a set for the predicate, since the
library's takes an operator), the least element of a set of numbers from `WFMin` of the
library, and the finiteness of an image from `FS_Surjection`, in a module of its own since it
brings in well-founded orders.

The proofs assume of the constants what `CycleAssumption`, `WorkPoolAssumption`,
`HTTPRetryAssumption`, `PowerAssumption`,
`RDAPLookupAssumption`, `NoTierAssumption`, `SafeAssumption`, `DNSCheckAssumption`,
`TaskAssumption`, `CacheAssumption`, the assumptions of `Notify` and those named `...Assumption` in the modules of the domain checks say; TLC evaluates all of
them in the runs.

Model-checked only: the liveness properties (`PublicationIsFollowedThrough`,
`DeliveryEnds`, `ProcessExits`, `QueueIsFlushed`, `CallersReturn`, `PoolReturns`), which hold under
fairness and are outside the prover's reach, like `ENABLED` and `RECURSIVE` operators. Every safety
invariant, action property and refinement of a passing run is a theorem. Three theorems state
parts of inductive invariants that no run lists, since what it does list implies or exercises
them: `AlertsAreNeverEarly`, `FetchesAreExclusive` and `CleanExitFlushes`.

## 6. Not modelled

- Parsing of registry, RDAP, WHOIS, pricing and DNS data: data, not control; what
  a cycle sees of it is a choice over outcomes.
- Verification of signatures, network policy, codecs of the enumerations, logging, message
  texts, the rest of the dashboard: library code, tables, or formatting.
- Loading, migrating and writing the configuration: sequential, once, before anything else
  runs. What its normalisation does to domains and expected values is in the initial states of
  `DomainChecks` and `DNSCheck`.
- `saturatingWorkDuration` (`runtime.go:682`) and the schedule of the cycles: their time
  is abstract, so the saturation has no property. The clock of the retries is in
  `HTTPRetry` only.
- The bounds of a report's text (`notify.go:192`): a matter of its length in bytes and runes.
- The prices of a portfolio and the longest suffix in the bootstrap registry: tables and their
  lookup.
- A notifier without a URL queues nothing (`notify.go:44`), which is the
  behaviour of `Notify` without a `Dispatch`.

## 7. Plan

In order of what could go wrong:

1. done: the cycle, the pool, the notifier, the lifecycle, both caches, record checks,
   registration lookups, and the worker of a domain with all of its checks up to the
   dashboard; proofs about all of them.
2. done: the safety properties of all runs are theorems.
3. done: the retry loop with its clock. A next step is to show that the loops of `Notify` and
   `RDAPLookup`, which may give up at any retry, are what remains of it without the clock.
4. `Portfolio`: pricing of a portfolio and the longest suffix in the bootstrap registry.
5. `Config`: the idempotence of normalisation.
