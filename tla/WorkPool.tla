------------------------------ MODULE WorkPool ------------------------------
(***************************************************************************)
(* gatherFastEvidence over runBoundedChecks (runtime.go): a bounded group  *)
(* of workers claims positions from one atomic counter; fastCheckSlot maps *)
(* a position to a DNS task or a domain, and the worker writes that slot   *)
(* of the evidence without a lock.                                         *)
(***************************************************************************)
EXTENDS Integers, FiniteSets

CONSTANTS
  Workers,       \* the goroutines of a full pool; DefaultMaxConcurrency of them
  MaxDNS,        \* bound: active DNS tasks
  MaxDomains     \* bound: active domains

ASSUME WorkPoolAssumption ==
  /\ Workers # {}
  /\ IsFiniteSet(Workers)
  /\ MaxDNS \in Nat
  /\ MaxDomains \in Nat

VARIABLES
  dnsCount,      \* len(active.dnsRecords)
  domainCount,   \* len(active.domains)
  next,          \* the atomic counter
  running,       \* workers that were started and have not returned
  claim,         \* the position each worker has claimed, or NoClaim
  writes,        \* history: how often each slot of the evidence was written
  returned       \* runBoundedChecks has returned

vars == <<dnsCount, domainCount, next, running, claim, writes, returned>>

NoClaim == -1
PairSize == 2
count == dnsCount + domainCount
Smaller(a, b) == IF a <= b THEN a ELSE b

\* The slots of evidence.dns and of evidence.domains.
Slots(dns, domains) ==
  {<<"dns", i>> : i \in 0..(dns - 1)} \cup {<<"domain", i>> : i \in 0..(domains - 1)}

\* Pairs of a DNS task and a domain while there are both, then the rest.
fastCheckSlot(position, dns, domains) ==
  LET paired == Smaller(dns, domains) IN
  IF position < PairSize * paired
  THEN <<IF position % PairSize = 0 THEN "dns" ELSE "domain", position \div PairSize>>
  ELSE IF dns > domains THEN <<"dns", position - domains>>
  ELSE <<"domain", position - dns>>

\* min(count, DefaultMaxConcurrency) workers, the caller among them; with
\* nothing to do it returns at once.
Init ==
  /\ dnsCount \in 0..MaxDNS
  /\ domainCount \in 0..MaxDomains
  /\ next = 0
  /\ running \in {W \in SUBSET Workers :
                    Cardinality(W) = Smaller(count, Cardinality(Workers))}
  /\ claim = [w \in Workers |-> NoClaim]
  /\ writes = [slot \in Slots(dnsCount, domainCount) |-> 0]
  /\ returned = (count = 0)

\* Mutant: the counter is loaded and stored, and an increment may get lost.
Claim_LostUpdate(w) ==
  /\ w \in running
  /\ claim[w] = NoClaim
  /\ next' \in {next, next + 1}
  /\ IF next < count
     THEN /\ claim' = [claim EXCEPT ![w] = next]
          /\ UNCHANGED running
     ELSE /\ running' = running \ {w}
          /\ UNCHANGED claim
  /\ UNCHANGED <<dnsCount, domainCount, writes, returned>>

\* next.Add(1) - 1, and the worker's exit once the positions are used up.
Claim(w) ==
  /\ w \in running
  /\ claim[w] = NoClaim
  /\ next' = next + 1
  /\ IF next < count
     THEN /\ claim' = [claim EXCEPT ![w] = next]
          /\ UNCHANGED running
     ELSE /\ running' = running \ {w}
          /\ UNCHANGED claim
  /\ UNCHANGED <<dnsCount, domainCount, writes, returned>>

\* check(index): a panic of the check is recovered within it.
Check(w) ==
  /\ claim[w] # NoClaim
  /\ writes' = [writes EXCEPT ![fastCheckSlot(claim[w], dnsCount, domainCount)] = @ + 1]
  /\ claim' = [claim EXCEPT ![w] = NoClaim]
  /\ UNCHANGED <<dnsCount, domainCount, next, running, returned>>

\* Mutant: the pool returns when the counter is used up.
Return_Early ==
  /\ ~returned
  /\ next >= count
  /\ returned' = TRUE
  /\ UNCHANGED <<dnsCount, domainCount, next, running, claim, writes>>

\* Mutant: the caller waits for every worker of a full pool.
Return_FullPool ==
  /\ ~returned
  /\ next >= count + Cardinality(Workers)
  /\ returned' = TRUE
  /\ UNCHANGED <<dnsCount, domainCount, next, running, claim, writes>>

\* The caller's own worker has returned, and so have all the others.
Return ==
  /\ ~returned
  /\ running = {}
  /\ returned' = TRUE
  /\ UNCHANGED <<dnsCount, domainCount, next, running, claim, writes>>

Step == Return \/ \E w \in Workers : Claim(w) \/ Check(w)

Spec == Init /\ [][Step]_vars

\* Every request a check makes is bounded by its timeout.
FairSpec == Spec /\ WF_vars(Step)
-----------------------------------------------------------------------------
TypeOK ==
  /\ dnsCount \in 0..MaxDNS
  /\ domainCount \in 0..MaxDomains
  /\ next \in 0..(count + Cardinality(Workers))
  /\ running \subseteq Workers
  /\ claim \in [Workers -> {NoClaim} \cup 0..(count - 1)]
  /\ writes \in [Slots(dnsCount, domainCount) -> {0, 1}]
  /\ returned \in BOOLEAN

\* Two workers never write the same slot: the unlocked writes of the evidence
\* do not race, whatever the numbers of tasks and domains.
NoSlotWrittenTwice ==
  /\ \A slot \in DOMAIN writes : writes[slot] <= 1
  /\ \A v, w \in Workers : claim[v] # NoClaim /\ v # w =>
       LET slot(u) == fastCheckSlot(claim[u], dnsCount, domainCount) IN
       /\ writes[slot(v)] = 0
       /\ claim[w] # NoClaim => slot(v) # slot(w)

\* When the pool returns, every slot of the evidence has been written and no
\* worker will write any more.
GatheredWhenReturned ==
  returned => /\ \A slot \in DOMAIN writes : writes[slot] = 1
              /\ \A w \in Workers : claim[w] = NoClaim

\* The pool returns, also when there are fewer checks than workers or none.
PoolReturns == <>returned
=============================================================================
