--------------------------- MODULE ExecutionProofs ---------------------------
(***************************************************************************)
(* Theorems about what the checks run on.  WorkPool, for every pool and    *)
(* portfolio: the positions are in bijection with the slots of the         *)
(* evidence, no slot is written twice, and the evidence is complete when   *)
(* the pool returns.  HTTPRetry, for any replies, delays and deadlines: no *)
(* response stays open, a call ends in time, and a server is not asked     *)
(* again too soon.                                                         *)
(***************************************************************************)
EXTENDS WorkPool, HTTPRetry, FiniteSetTheorems, TLAPS

-----------------------------------------------------------------------------
(* The pool of workers.                                                    *)

Positions(dns, domains) == 0..(dns + domains - 1)

\* Every position stands for a slot of the evidence.
LEMMA SlotOfPosition ==
  ASSUME NEW dns \in Nat, NEW domains \in Nat, NEW p \in Positions(dns, domains)
  PROVE  fastCheckSlot(p, dns, domains) \in Slots(dns, domains)
<1> DEFINE paired == Smaller(dns, domains)
<1>1. paired \in Nat /\ paired <= dns /\ paired <= domains
  BY DEF Smaller
<1>2. CASE p < 2 * paired
  <2>1. p \div 2 \in 0..(paired - 1)
    BY <1>1, <1>2 DEF Positions
  <2>2. fastCheckSlot(p, dns, domains) = <<IF p % 2 = 0 THEN "dns" ELSE "domain", p \div 2>>
    BY <1>2 DEF fastCheckSlot, PairSize
  <2>3. p \div 2 \in 0..(dns - 1) /\ p \div 2 \in 0..(domains - 1)
    BY <1>1, <2>1
  <2> QED BY <2>1, <2>2, <2>3 DEF Slots
<1>3. CASE ~(p < 2 * paired) /\ dns > domains
  <2>1. fastCheckSlot(p, dns, domains) = <<"dns", p - domains>>
    BY <1>3 DEF fastCheckSlot, PairSize
  <2>2. p - domains \in 0..(dns - 1)
    BY <1>3 DEF Smaller, Positions
  <2> QED BY <2>1, <2>2 DEF Slots
<1>4. CASE ~(p < 2 * paired) /\ ~(dns > domains)
  <2>1. fastCheckSlot(p, dns, domains) = <<"domain", p - dns>>
    BY <1>4 DEF fastCheckSlot, PairSize
  <2>2. p - dns \in 0..(domains - 1)
    BY <1>4 DEF Smaller, Positions
  <2> QED BY <2>1, <2>2 DEF Slots
<1> QED BY <1>2, <1>3, <1>4

\* No two positions stand for the same slot.
LEMMA SlotsDistinct ==
  ASSUME NEW dns \in Nat, NEW domains \in Nat,
         NEW p \in Positions(dns, domains), NEW q \in Positions(dns, domains),
         fastCheckSlot(p, dns, domains) = fastCheckSlot(q, dns, domains)
  PROVE  p = q
<1> DEFINE paired == Smaller(dns, domains)
           slot(x) == fastCheckSlot(x, dns, domains)
<1>1. paired \in Nat /\ (dns > domains => paired = domains)
        /\ (~(dns > domains) => paired = dns)
  BY DEF Smaller
<1>2. p \in Int /\ q \in Int
  BY DEF Positions
<1>3. \A x \in {p, q} : x < 2 * paired =>
        slot(x) = <<IF x % 2 = 0 THEN "dns" ELSE "domain", x \div 2>>
  BY DEF fastCheckSlot, PairSize
<1>4. \A x \in {p, q} : ~(x < 2 * paired) /\ dns > domains => slot(x) = <<"dns", x - domains>>
  BY DEF fastCheckSlot, PairSize
<1>5. \A x \in {p, q} : ~(x < 2 * paired) /\ ~(dns > domains) => slot(x) = <<"domain", x - dns>>
  BY DEF fastCheckSlot, PairSize
<1> HIDE DEF slot, paired
<1>6. slot(p) = slot(q)
  BY DEF slot
<1>7. CASE p < 2 * paired /\ q < 2 * paired
  <2>1. (p % 2 = 0) = (q % 2 = 0) /\ p \div 2 = q \div 2
    BY <1>3, <1>6, <1>7
  <2> QED BY <2>1, <1>2
<1>8. CASE ~(p < 2 * paired) /\ ~(q < 2 * paired)
  BY <1>2, <1>4, <1>5, <1>6, <1>8
<1>9. ASSUME NEW x \in {p, q}, NEW y \in {p, q}, x < 2 * paired, ~(y < 2 * paired)
      PROVE  slot(x) # slot(y)
  <2>1. x \div 2 < paired
    BY <1>1, <1>2, <1>9
  <2>2. CASE dns > domains
    <3>1. y - domains >= paired
      BY <1>1, <1>2, <1>9, <2>2
    <3> QED BY <1>1, <1>2, <1>3, <1>4, <1>9, <2>1, <2>2, <3>1
  <2>3. CASE ~(dns > domains)
    <3>1. y - dns >= paired
      BY <1>1, <1>2, <1>9, <2>3
    <3> QED BY <1>1, <1>2, <1>3, <1>5, <1>9, <2>1, <2>3, <3>1
  <2> QED BY <2>2, <2>3
<1> QED BY <1>6, <1>7, <1>8, <1>9

\* Every slot is reached by some position.
LEMMA SlotsCovered ==
  ASSUME NEW dns \in Nat, NEW domains \in Nat, NEW slot \in Slots(dns, domains)
  PROVE  \E p \in Positions(dns, domains) : fastCheckSlot(p, dns, domains) = slot
<1> DEFINE paired == Smaller(dns, domains)
<1>1. paired \in Nat /\ (dns > domains => paired = domains)
        /\ (~(dns > domains) => paired = dns)
  BY DEF Smaller
<1>2. CASE \E i \in 0..(dns - 1) : slot = <<"dns", i>>
  <2>1. PICK i \in 0..(dns - 1) : slot = <<"dns", i>>
    BY <1>2
  <2>2. CASE i < paired
    <3>1. 2 * i \in Positions(dns, domains) /\ 2 * i < 2 * paired
      BY <1>1, <2>1, <2>2 DEF Positions
    <3>2. (2 * i) % 2 = 0 /\ (2 * i) \div 2 = i
      BY <2>1
    <3>3. fastCheckSlot(2 * i, dns, domains) = <<"dns", i>>
      BY <3>1, <3>2 DEF fastCheckSlot, PairSize
    <3> QED BY <2>1, <3>1, <3>3
  <2>3. CASE ~(i < paired)
    <3>1. i + domains \in Positions(dns, domains) /\ ~(i + domains < 2 * paired)
            /\ dns > domains
      BY <1>1, <2>1, <2>3 DEF Positions
    <3>2. fastCheckSlot(i + domains, dns, domains) = <<"dns", i>>
      BY <2>1, <3>1 DEF fastCheckSlot, PairSize
    <3> QED BY <2>1, <3>1, <3>2
  <2> QED BY <2>2, <2>3
<1>3. CASE \E i \in 0..(domains - 1) : slot = <<"domain", i>>
  <2>1. PICK i \in 0..(domains - 1) : slot = <<"domain", i>>
    BY <1>3
  <2>2. CASE i < paired
    <3>1. 2 * i + 1 \in Positions(dns, domains) /\ 2 * i + 1 < 2 * paired
      BY <1>1, <2>1, <2>2 DEF Positions
    <3>2. (2 * i + 1) % 2 = 1 /\ (2 * i + 1) \div 2 = i
      BY <2>1
    <3>3. fastCheckSlot(2 * i + 1, dns, domains) = <<"domain", i>>
      BY <3>1, <3>2 DEF fastCheckSlot, PairSize
    <3> QED BY <2>1, <3>1, <3>3
  <2>3. CASE ~(i < paired)
    <3>1. i + dns \in Positions(dns, domains) /\ ~(i + dns < 2 * paired)
            /\ ~(dns > domains)
      BY <1>1, <2>1, <2>3 DEF Positions
    <3>2. fastCheckSlot(i + dns, dns, domains) = <<"domain", i>>
      BY <2>1, <3>1 DEF fastCheckSlot, PairSize
    <3> QED BY <2>1, <3>1, <3>2
  <2> QED BY <2>2, <2>3
<1> QED BY <1>2, <1>3 DEF Slots

-----------------------------------------------------------------------------
(* The inductive invariant: a position is open, claimed by one worker, or  *)
(* done, and its slot has been written exactly when it is done.            *)

Slot(p) == fastCheckSlot(p, dnsCount, domainCount)

Counts == dnsCount \in Nat /\ domainCount \in Nat

PoolShape ==
  /\ next \in Nat
  /\ running \subseteq Workers
  /\ returned \in BOOLEAN
  /\ running = {} => next >= count
  /\ returned => running = {}

ClaimsDistinct ==
  /\ claim \in [Workers -> {NoClaim} \cup 0..(count - 1)]
  /\ \A w \in Workers : claim[w] # NoClaim => w \in running /\ claim[w] < next
  /\ \A v, w \in Workers : claim[v] # NoClaim /\ v # w => claim[v] # claim[w]

Done(p) == p < next /\ \A w \in Workers : claim[w] # p

WritesMatch ==
  /\ writes \in [Slots(dnsCount, domainCount) -> {0, 1}]
  /\ \A p \in 0..(count - 1) : writes[Slot(p)] = 1 <=> Done(p)

PoolInv == Counts /\ PoolShape /\ ClaimsDistinct /\ WritesMatch

LEMMA PoolInvInit == Init => PoolInv
<1> SUFFICES ASSUME Init PROVE PoolInv
  OBVIOUS
<1> USE WorkPoolAssumption
<1>1. Counts
  BY DEF Init, Counts
<1>2. count \in Nat
  BY <1>1 DEF Counts, count
<1>3. PoolShape
  <2>1. running = {} => count = 0
    <3> SUFFICES ASSUME running = {} PROVE count = 0
      OBVIOUS
    <3>1. Cardinality(running) = 0
      BY FS_EmptySet
    <3>2. Cardinality(Workers) \in Nat /\ Cardinality(Workers) # 0
      BY FS_CardinalityType, FS_EmptySet
    <3>3. Smaller(count, Cardinality(Workers)) = 0
      BY <3>1 DEF Init
    <3> QED BY <1>2, <3>2, <3>3 DEF Smaller
  <2>2. returned => running = {}
    <3> SUFFICES ASSUME returned PROVE running = {}
      OBVIOUS
    <3>1. count = 0 /\ Cardinality(running) = Smaller(count, Cardinality(Workers))
      BY DEF Init
    <3>2. Cardinality(Workers) \in Nat
      BY FS_CardinalityType
    <3>3. Cardinality(running) = 0
      BY <3>1, <3>2 DEF Smaller
    <3>4. IsFiniteSet(running)
      BY FS_Subset DEF Init
    <3> QED BY <3>3, <3>4, FS_EmptySet
  <2>3. next \in Nat /\ running \subseteq Workers /\ returned \in BOOLEAN
    BY DEF Init
  <2>4. next = 0
    BY DEF Init
  <2> QED BY <1>2, <2>1, <2>2, <2>3, <2>4 DEF PoolShape
<1>4. ClaimsDistinct
  BY DEF Init, ClaimsDistinct
<1>5. WritesMatch
  <2>1. \A p \in 0..(count - 1) : Slot(p) \in Slots(dnsCount, domainCount)
    BY <1>1, SlotOfPosition DEF Counts, Positions, count, Slot
  <2>2. \A p \in 0..(count - 1) : ~Done(p)
    BY DEF Done, Init
  <2> QED BY <2>1, <2>2 DEF WritesMatch, Init
<1> QED BY <1>1, <1>3, <1>4, <1>5 DEF PoolInv

LEMMA PoolInvClaim ==
  ASSUME PoolInv, NEW w \in Workers, Claim(w)
  PROVE  PoolInv'
<1> USE DEF PoolInv
<1>0. /\ UNCHANGED <<dnsCount, domainCount, writes, returned>>
      /\ count' = count /\ count \in Nat
      /\ next \in Nat /\ next' = next + 1
      /\ \A p : Slot(p)' = Slot(p)
  BY DEF Claim, Counts, count, PoolShape, Slot
<1>1. Counts'
  BY <1>0 DEF Counts
<1>2. CASE next < count
  <2>1. claim' = [claim EXCEPT ![w] = next] /\ running' = running /\ w \in running
    BY <1>2 DEF Claim
  <2>2. PoolShape'
    BY <1>0, <2>1 DEF PoolShape
  <2>3. ClaimsDistinct'
    BY <1>0, <1>2, <2>1 DEF ClaimsDistinct, NoClaim
  <2>4. \A p \in 0..(count - 1) : Done(p)' <=> Done(p)
    <3> SUFFICES ASSUME NEW p \in 0..(count - 1) PROVE Done(p)' <=> Done(p)
      OBVIOUS
    <3>1. claim[w] = NoClaim /\ NoClaim # p
      BY <2>1 DEF Claim, NoClaim
    <3>2. \A v \in Workers : claim'[v] = IF v = w THEN next ELSE claim[v]
      BY <2>1 DEF ClaimsDistinct
    <3> QED BY <1>0, <3>1, <3>2 DEF Done
  <2>5. WritesMatch'
    BY <1>0, <2>4 DEF WritesMatch
  <2> QED BY <1>1, <2>2, <2>3, <2>5
<1>3. CASE ~(next < count)
  <2>1. claim' = claim /\ running' = running \ {w} /\ claim[w] = NoClaim
    BY <1>3 DEF Claim
  <2>2. PoolShape'
    BY <1>0, <1>3, <2>1 DEF PoolShape
  <2>3. ClaimsDistinct'
    BY <1>0, <2>1 DEF ClaimsDistinct
  <2>4. \A p \in 0..(count - 1) : Done(p)' <=> Done(p)
    BY <1>0, <1>3, <2>1 DEF Done
  <2>5. WritesMatch'
    BY <1>0, <2>4 DEF WritesMatch
  <2> QED BY <1>1, <2>2, <2>3, <2>5
<1> QED BY <1>2, <1>3

LEMMA PoolInvCheck ==
  ASSUME PoolInv, NEW w \in Workers, Check(w)
  PROVE  PoolInv'
<1> USE DEF PoolInv
<1> DEFINE q == claim[w]
<1>0. /\ UNCHANGED <<dnsCount, domainCount, next, running, returned>>
      /\ count' = count /\ count \in Nat
      /\ \A p : Slot(p)' = Slot(p)
      /\ q # NoClaim /\ q \in 0..(count - 1) /\ q < next
      /\ claim' = [claim EXCEPT ![w] = NoClaim]
      /\ writes' = [writes EXCEPT ![Slot(q)] = @ + 1]
  BY DEF Check, Counts, count, Slot, ClaimsDistinct
<1> HIDE DEF q
<1>1. Counts' /\ PoolShape'
  BY <1>0 DEF Counts, PoolShape
<1>2. ClaimsDistinct'
  BY <1>0 DEF ClaimsDistinct, NoClaim
<1>3. \A p \in 0..(count - 1) : Done(p)' <=> Done(p) \/ p = q
  <2> SUFFICES ASSUME NEW p \in 0..(count - 1) PROVE Done(p)' <=> Done(p) \/ p = q
    OBVIOUS
  <2>1. \A v \in Workers : claim'[v] = IF v = w THEN NoClaim ELSE claim[v]
    BY <1>0 DEF ClaimsDistinct
  <2>2. p # NoClaim
    BY DEF NoClaim
  <2>3. \A v \in Workers : v # w => claim[v] # q
    BY <1>0 DEF ClaimsDistinct, q
  <2> QED BY <1>0, <2>1, <2>2, <2>3 DEF Done, q
<1>4. \A p \in 0..(count - 1) : Slot(p) \in Slots(dnsCount, domainCount)
  BY SlotOfPosition DEF Counts, Positions, count, Slot
<1>5. \A p \in 0..(count - 1) : Slot(p) = Slot(q) => p = q
  BY <1>0, SlotsDistinct DEF Counts, Positions, count, Slot
<1>6. writes[Slot(q)] = 0
  <2>1. ~Done(q)
    BY DEF Done, q
  <2> QED BY <1>0, <1>4, <2>1 DEF WritesMatch
<1>7. WritesMatch'
  <2>1. writes' \in [Slots(dnsCount, domainCount) -> {0, 1}]
    <3>1. Slot(q) \in Slots(dnsCount, domainCount)
      BY <1>0, <1>4
    <3>2. writes' = [writes EXCEPT ![Slot(q)] = 1]
      BY <1>0, <1>6, <3>1 DEF WritesMatch
    <3> QED BY <3>1, <3>2 DEF WritesMatch
  <2>2. \A p \in 0..(count - 1) : writes'[Slot(p)] = IF p = q THEN 1 ELSE writes[Slot(p)]
    BY <1>0, <1>4, <1>5, <1>6 DEF WritesMatch
  <2> QED BY <1>0, <1>3, <2>1, <2>2 DEF WritesMatch
<1> QED BY <1>1, <1>2, <1>7

LEMMA PoolInvNext == PoolInv /\ [Step]_vars => PoolInv'
<1> SUFFICES ASSUME PoolInv, [Step]_vars PROVE PoolInv'
  OBVIOUS
<1>1. ASSUME NEW w \in Workers, Claim(w) PROVE PoolInv'
  BY <1>1, PoolInvClaim
<1>2. ASSUME NEW w \in Workers, Check(w) PROVE PoolInv'
  BY <1>2, PoolInvCheck
<1>3. ASSUME UNCHANGED <<dnsCount, domainCount, next, running, claim, writes>>,
             returned' = returned \/ (returned' = TRUE /\ running = {})
      PROVE  PoolInv'
  <2>1. Counts' /\ ClaimsDistinct'
    BY <1>3 DEF PoolInv, Counts, ClaimsDistinct, count
  <2>2. PoolShape'
    <3>1. UNCHANGED <<next, running, count>>
      BY <1>3 DEF count
    <3>2. returned' \in BOOLEAN /\ (returned' => running' = {})
      <4>1. running' = running
        BY <1>3
      <4>2. CASE returned' = returned
        BY <4>1, <4>2 DEF PoolInv, PoolShape
      <4>3. CASE returned' = TRUE /\ running = {}
        BY <4>1, <4>3
      <4> QED BY <1>3, <4>2, <4>3
    <3> QED BY <3>1, <3>2 DEF PoolInv, PoolShape
  <2>3. WritesMatch'
    BY <1>3 DEF PoolInv, WritesMatch, count, Slot, Done
  <2> QED BY <2>1, <2>2, <2>3 DEF PoolInv
<1>4. CASE Return
  BY <1>3, <1>4 DEF Return
<1>5. CASE UNCHANGED vars
  BY <1>3, <1>5 DEF vars
<1> QED BY <1>1, <1>2, <1>4, <1>5 DEF Step

THEOREM PoolInvariant == Spec => []PoolInv
<1> QED BY PoolInvInit, PoolInvNext, PTL DEF Spec

-----------------------------------------------------------------------------
\* The unlocked writes of the evidence never race: NoSlotWrittenTwice holds for
\* every set of workers and every portfolio.
THEOREM SlotsWrittenOnce == Spec => []NoSlotWrittenTwice
<1>1. PoolInv => NoSlotWrittenTwice
  <2> SUFFICES ASSUME PoolInv PROVE NoSlotWrittenTwice
    OBVIOUS
  <2> USE DEF PoolInv
  <2>1. \A slot \in DOMAIN writes : writes[slot] <= 1
    BY DEF WritesMatch
  <2>2. ASSUME NEW v \in Workers, NEW w \in Workers, claim[v] # NoClaim, v # w
        PROVE  /\ writes[Slot(claim[v])] = 0
               /\ claim[w] # NoClaim => Slot(claim[v]) # Slot(claim[w])
    <3>1. claim[v] \in 0..(count - 1) /\ ~Done(claim[v]) /\ claim[v] # claim[w]
      BY <2>2 DEF ClaimsDistinct, Done
    <3>2. claim[v] \in Positions(dnsCount, domainCount)
      BY <3>1 DEF Positions, count, Counts
    <3>3. Slot(claim[v]) \in Slots(dnsCount, domainCount)
      BY <3>2, SlotOfPosition DEF Counts, Slot
    <3>4. writes[Slot(claim[v])] = 0
      BY <3>1, <3>3 DEF WritesMatch
    <3>5. ASSUME claim[w] # NoClaim PROVE Slot(claim[v]) # Slot(claim[w])
      <4>1. claim[w] \in Positions(dnsCount, domainCount)
        BY <3>5 DEF ClaimsDistinct, Positions, count, Counts
      <4> QED BY <3>1, <3>2, <4>1, SlotsDistinct DEF Counts, Slot
    <3> QED BY <3>4, <3>5
  <2> QED BY <2>1, <2>2 DEF NoSlotWrittenTwice, Slot
<1> QED BY <1>1, PoolInvariant, PTL

\* The cycle never evaluates evidence that is still being gathered:
\* GatheredWhenReturned holds for every set of workers and every portfolio.
THEOREM PoolGathersEverything == Spec => []GatheredWhenReturned
<1>1. PoolInv => GatheredWhenReturned
  <2> SUFFICES ASSUME PoolInv, returned PROVE
         /\ \A slot \in DOMAIN writes : writes[slot] = 1
         /\ \A w \in Workers : claim[w] = NoClaim
    BY DEF GatheredWhenReturned
  <2> USE DEF PoolInv
  <2>1. running = {} /\ next >= count
    BY DEF PoolShape
  <2>2. \A w \in Workers : claim[w] = NoClaim
    BY <2>1 DEF ClaimsDistinct
  <2>3. ASSUME NEW slot \in DOMAIN writes PROVE writes[slot] = 1
    <3>1. slot \in Slots(dnsCount, domainCount)
      BY <2>3 DEF WritesMatch
    <3>2. PICK p \in Positions(dnsCount, domainCount) : Slot(p) = slot
      BY <3>1, SlotsCovered DEF Counts, Slot
    <3>3. p \in 0..(count - 1) /\ p # NoClaim
      BY <3>2 DEF Positions, count, NoClaim, Counts
    <3>4. p < next
      BY <2>1, <3>3 DEF Counts, PoolShape, count
    <3> QED BY <2>2, <3>2, <3>3, <3>4 DEF WritesMatch, Done
  <2> QED BY <2>2, <2>3
<1> QED BY <1>1, PoolInvariant, PTL

-----------------------------------------------------------------------------
(* The retry loop.                                                         *)

ReplyTyped ==
  /\ reply.kind \in {"none", "final", "temporary", "timeout", "broken"}
  /\ reply.body \in BOOLEAN
  /\ reply.header.value \in Int
  /\ reply.kind # "temporary" => reply.header = NoHeader

RetryTyped ==
  /\ deadline \in Nat \cup {NoDeadline}
  /\ cancelled \in BOOLEAN
  /\ now \in Nat /\ wakeAt \in Nat /\ open \in {0, 1}
  /\ attempt \in 1 .. MaxNetworkAttempts
  /\ stage \in {"send", "answered", "waiting", "ended"}
  /\ ReplyTyped
  /\ asked.header.value \in Int /\ asked.at \in Nat

\* The one body that may be open is the current response's, or the result's.
BodyInv ==
  /\ open = IF \/ stage = "answered" /\ reply.body
               \/ stage = "ended" /\ result = "response" THEN 1 ELSE 0
  /\ stage = "answered" /\ reply.kind \in {"final", "temporary"} => reply.body

\* The time that so many attempts and waits may take.
Elapsed(n) == n * (RequestTimeout + MaxRetryDelay + Lateness)

TimeInv ==
  /\ stage = "send" => now <= Elapsed(attempt - 1)
  /\ stage \in {"answered", "waiting"} => now <= Elapsed(attempt - 1) + RequestTimeout
  /\ stage = "waiting" =>
       /\ attempt < MaxNetworkAttempts
       /\ now <= wakeAt /\ wakeAt <= now + MaxRetryDelay
       /\ deadline # NoDeadline => wakeAt < deadline
  /\ stage = "ended" => now <= Elapsed(MaxNetworkAttempts - 1) + RequestTimeout
  /\ deadline # NoDeadline => now <= deadline + Lateness

\* What the timer is set to, for the sake of the server.
AskedInv ==
  Requested(asked.header) < DurationLimit =>
    /\ stage = "waiting" => wakeAt >= asked.at + Requested(asked.header)
    /\ stage = "send" => now >= asked.at + Requested(asked.header)

RetryInv == RetryTyped /\ BodyInv /\ TimeInv /\ AskedInv

LEMMA ElapsedGrows ==
  ASSUME NEW n \in Nat
  PROVE  /\ Elapsed(n) \in Nat
         /\ Elapsed(n + 1) = Elapsed(n) + RequestTimeout + MaxRetryDelay + Lateness
BY HTTPRetryAssumption DEF Elapsed

LEMMA ElapsedIsMonotone ==
  ASSUME NEW n \in Nat, NEW m \in Nat, n <= m
  PROVE  Elapsed(n) <= Elapsed(m)
<1> DEFINE t == RequestTimeout + MaxRetryDelay + Lateness
<1>1. t \in Nat /\ m - n \in Nat
  BY HTTPRetryAssumption
<1> HIDE DEF t
<1>2. m * t = n * t + (m - n) * t /\ (m - n) * t \in Nat /\ n * t \in Nat
  BY <1>1
<1> QED BY <1>2 DEF Elapsed, t

\* Multiplication does not wrap around below the limit.
LEMMA WrappedIsIdentity ==
  ASSUME NEW n \in Nat, n < DurationLimit
  PROVE  Wrapped(n) = n
BY HTTPRetryAssumption DEF Wrapped

LEMMA HeaderIsRead ==
  ASSUME NEW header, header.value \in Int, Requested(header) < DurationLimit
  PROVE  responseRetryAfter(header) = Requested(header) /\ Requested(header) \in Nat
<1>1. CASE header.form = "seconds" /\ header.value > 0
  <2>1. header.value * Second \in Nat /\ header.value <= header.value * Second
    BY <1>1, HTTPRetryAssumption
  <2>2. Requested(header) = header.value * Second
    BY <1>1 DEF Requested
  <2>3. header.value < DurationLimit
    BY <2>1, <2>2, HTTPRetryAssumption
  <2>4. responseRetryAfter(header) = Wrapped(header.value * Second)
    BY <1>1, <2>3 DEF responseRetryAfter
  <2> QED BY <2>1, <2>2, <2>4, WrappedIsIdentity
<1>2. CASE header.form = "date" /\ header.value > 0
  BY <1>2 DEF Requested, responseRetryAfter
<1>3. CASE header.form \notin {"seconds", "date"} \/ header.value <= 0
  BY <1>3 DEF Requested, responseRetryAfter
<1> QED BY <1>1, <1>2, <1>3

\* A delay is a number, and not shorter than the server asked for.
LEMMA DelayIsLongEnough ==
  ASSUME RetryTyped, attempt < MaxNetworkAttempts, NEW delay \in Delays, delay <= MaxRetryDelay
  PROVE  /\ delay \in Nat
         /\ reply.kind = "temporary" => delay >= responseRetryAfter(reply.header)
<1> DEFINE server == IF reply.kind = "temporary" THEN responseRetryAfter(reply.header) ELSE 0
<1>1. PICK own \in retryBackoff : delay = Prolonged(own, server)
  BY DEF Delays
<1>2. 2 ^ (attempt - 1) \in Nat
  BY PowerAssumption, HTTPRetryAssumption DEF RetryTyped
<1>3. HTTPRetryBaseDelay * 2 ^ (attempt - 1) \in Nat
  BY <1>2, HTTPRetryAssumption
<1>4. own \in Nat
  BY <1>3, HTTPRetryAssumption DEF retryBackoff
<1>5. server \in Int
  <2>1. ASSUME NEW n \in Int PROVE Wrapped(n) \in Int
    BY HTTPRetryAssumption DEF Wrapped
  <2> QED BY <2>1, HTTPRetryAssumption DEF responseRetryAfter, RetryTyped, ReplyTyped
<1> HIDE DEF server
<1>6. delay \in Nat /\ delay >= server
  BY <1>1, <1>4, <1>5 DEF Prolonged
<1> QED BY <1>6 DEF server

LEMMA Bounds ==
  /\ RequestTimeout \in Nat /\ MaxRetryDelay \in Nat /\ Lateness \in Nat
  /\ MaxNetworkAttempts \in Nat /\ MaxNetworkAttempts >= 1
BY HTTPRetryAssumption

LEMMA RetryInvInit == RetryInit => RetryInv
<1> SUFFICES ASSUME RetryInit PROVE RetryInv
  OBVIOUS
<1>1. attempt \in 1 .. MaxNetworkAttempts /\ deadline \in Nat \cup {NoDeadline}
  BY HTTPRetryAssumption DEF RetryInit
<1>2. ReplyTyped /\ BodyInv /\ asked.header.value \in Int /\ asked.at \in Nat
  BY DEF RetryInit, ReplyTyped, BodyInv, NoReply, Reply, NoHeader
<1>7. RetryTyped
  BY <1>1, <1>2 DEF RetryInit, RetryTyped
<1>3. Elapsed(attempt - 1) \in Nat
  BY ElapsedGrows DEF RetryInit
<1>4. AskedInv
  BY DEF RetryInit, AskedInv, NoHeader, Requested
<1>5. deadline # NoDeadline => now <= deadline + Lateness
  BY <1>1, Bounds DEF RetryInit
<1>6. TimeInv
  BY <1>3, <1>5, Bounds DEF RetryInit, TimeInv
<1> QED BY <1>2, <1>4, <1>6, <1>7 DEF RetryInv

LEMMA AttemptsTaken ==
  ASSUME RetryTyped
  PROVE  /\ attempt - 1 \in Nat
         /\ attempt <= MaxNetworkAttempts
         /\ MaxNetworkAttempts - 1 \in Nat
         /\ Elapsed(attempt - 1) \in Nat
         /\ Elapsed(attempt - 1) <= Elapsed(MaxNetworkAttempts - 1)
         /\ Elapsed(attempt) = Elapsed(attempt - 1) + RequestTimeout + MaxRetryDelay + Lateness
<1>1. /\ attempt - 1 \in Nat /\ MaxNetworkAttempts - 1 \in Nat
      /\ attempt <= MaxNetworkAttempts /\ attempt - 1 <= MaxNetworkAttempts - 1
  BY HTTPRetryAssumption DEF RetryTyped
<1>2. Elapsed(attempt - 1) <= Elapsed(MaxNetworkAttempts - 1)
  BY <1>1, ElapsedIsMonotone
<1>3. (attempt - 1) + 1 = attempt
  BY DEF RetryTyped
<1>4. /\ Elapsed(attempt - 1) \in Nat
      /\ Elapsed((attempt - 1) + 1)
           = Elapsed(attempt - 1) + RequestTimeout + MaxRetryDelay + Lateness
  BY <1>1, ElapsedGrows
<1> QED BY <1>1, <1>2, <1>3, <1>4

\* What the clock may show, by stage.
LEMMA TimeTaken ==
  ASSUME RetryTyped, TimeInv
  PROVE  /\ now <= Elapsed(MaxNetworkAttempts - 1) + RequestTimeout
         /\ stage = "waiting" => \A time \in Nat :
              time <= wakeAt + Lateness => time <= Elapsed(attempt)
<1>1. /\ now \in Nat /\ wakeAt \in Nat
      /\ stage \in {"send", "answered", "waiting", "ended"}
  BY DEF RetryTyped
<1>2. /\ Elapsed(attempt - 1) \in Nat
      /\ Elapsed(attempt - 1) <= Elapsed(MaxNetworkAttempts - 1)
      /\ Elapsed(attempt) = Elapsed(attempt - 1) + RequestTimeout + MaxRetryDelay + Lateness
      /\ Elapsed(MaxNetworkAttempts - 1) \in Nat
  BY AttemptsTaken, ElapsedGrows
<1>3. CASE stage = "ended"
  BY <1>3 DEF TimeInv
<1>4. CASE stage # "ended"
  <2>1. now <= Elapsed(attempt - 1) + RequestTimeout
    BY <1>1, <1>2, <1>4, Bounds DEF TimeInv
  <2>2. stage = "waiting" => wakeAt <= now + MaxRetryDelay
    BY DEF TimeInv
  <2> QED BY <1>1, <1>2, <2>1, <2>2, Bounds
<1> QED BY <1>3, <1>4

LEMMA RetryInvSend == RetryInv /\ Send => RetryInv'
<1> SUFFICES ASSUME RetryInv, Send PROVE RetryInv'
  OBVIOUS
<1>1. /\ reply'.kind \in {"final", "temporary", "timeout", "broken"}
      /\ reply'.body \in BOOLEAN /\ reply'.header.value \in Int
      /\ reply'.kind \in {"final", "temporary"} => reply'.body
      /\ reply'.kind # "temporary" => reply'.header = NoHeader
  <2>1. reply' \in Replies \/ reply' = Reply("broken", FALSE, NoHeader)
    BY DEF Send
  <2>2. \A h \in RetryAfters \cup {NoHeader} : h.value \in Int
    BY HTTPRetryAssumption DEF NoHeader
  <2>3. CASE reply' = Reply("final", TRUE, NoHeader)
    BY <2>2, <2>3 DEF Reply
  <2>4. CASE \E header \in RetryAfters : reply' = Reply("temporary", TRUE, header)
    BY <2>2, <2>4 DEF Reply
  <2>5. CASE \E kind \in {"timeout", "broken"}, body \in BOOLEAN :
               reply' = Reply(kind, body, NoHeader)
    BY <2>2, <2>5 DEF Reply
  <2>6. CASE reply' = Reply("broken", FALSE, NoHeader)
    BY <2>2, <2>6 DEF Reply
  <2>7. reply' \in Replies =>
          \/ reply' = Reply("final", TRUE, NoHeader)
          \/ \E header \in RetryAfters : reply' = Reply("temporary", TRUE, header)
          \/ \E kind \in {"timeout", "broken"}, body \in BOOLEAN :
               reply' = Reply(kind, body, NoHeader)
    BY DEF Replies, Reply
  <2> QED BY <2>1, <2>3, <2>4, <2>5, <2>6, <2>7
<1>2. /\ now' \in Nat /\ now <= now' /\ now' <= now + RequestTimeout
      /\ deadline # NoDeadline => now' <= deadline + Lateness
  <2>1. CASE ContextDone
    BY <2>1, Bounds DEF Send, RetryInv, RetryTyped, TimeInv
  <2>2. CASE ~ContextDone
    <3>1. PICK time \in RequestTimes : now' = BeforeDeadline(now + time)
      BY <2>2 DEF Send
    <3>2. time \in Nat /\ time <= RequestTimeout
      BY HTTPRetryAssumption
    <3>3. deadline # NoDeadline => now < deadline /\ deadline \in Nat
      BY <2>2 DEF ContextDone, RetryInv, RetryTyped
    <3> QED BY <3>1, <3>2, <3>3, Bounds DEF BeforeDeadline, RetryInv, RetryTyped
  <2> QED BY <2>1, <2>2
<1>3. RetryTyped' /\ BodyInv'
  BY <1>1, <1>2 DEF Send, RetryInv, RetryTyped, ReplyTyped, BodyInv
<1>4. TimeInv'
  BY <1>2, Bounds, AttemptsTaken DEF Send, RetryInv, RetryTyped, TimeInv
<1>5. AskedInv'
  BY DEF Send, RetryInv, AskedInv
<1> QED BY <1>3, <1>4, <1>5 DEF RetryInv

LEMMA RetryInvEnd ==
  ASSUME RetryInv, Succeed \/ Fail \/ GiveUp
  PROVE  RetryInv'
<1>1. /\ stage = "answered" /\ stage' = "ended"
      /\ UNCHANGED <<policy, deadline, cancelled, now, attempt, reply, wakeAt, asked>>
      /\ open' = IF result' = "response" THEN open ELSE open - (IF reply.body THEN 1 ELSE 0)
      /\ result' = "response" => reply.kind \in {"final", "temporary"}
  BY DEF Succeed, Fail, GiveUp, Retryable, Answered, End, Drain, IsResult
<1>2. open' = IF result' = "response" THEN 1 ELSE 0
  BY <1>1 DEF RetryInv, BodyInv, RetryTyped, ReplyTyped
<1>3. RetryTyped' /\ BodyInv'
  BY <1>1, <1>2 DEF RetryInv, RetryTyped, ReplyTyped, BodyInv
<1>4. now <= Elapsed(MaxNetworkAttempts - 1) + RequestTimeout
  BY <1>1, TimeTaken DEF RetryInv
<1>5. TimeInv' /\ AskedInv'
  BY <1>1, <1>4 DEF RetryInv, TimeInv, AskedInv
<1> QED BY <1>3, <1>5 DEF RetryInv

LEMMA RetryInvWait ==
  ASSUME RetryInv, Wait
  PROVE  RetryInv'
<1>1. attempt < MaxNetworkAttempts
  BY Bounds DEF Wait, Retryable, RetryInv, RetryTyped
<1>2. PICK delay \in Delays : InTime(delay) /\ wakeAt' = now + delay
  BY DEF Wait
<1>3. /\ delay \in Nat /\ delay <= MaxRetryDelay
      /\ reply.kind = "temporary" => delay >= responseRetryAfter(reply.header)
  BY <1>1, <1>2, DelayIsLongEnough DEF InTime, RetryInv
<1>4. RetryTyped'
  BY <1>2, <1>3 DEF Wait, Drain, Retryable, Answered, RetryInv, RetryTyped, ReplyTyped, BodyInv
<1>5. BodyInv'
  BY DEF Wait, Drain, Retryable, Answered, RetryInv, RetryTyped, ReplyTyped, BodyInv
<1>6. TimeInv'
  BY <1>1, <1>2, <1>3, Bounds
     DEF Wait, Retryable, Answered, InTime, RetryInv, RetryTyped, TimeInv
<1>7. reply.kind # "temporary" => Requested(reply.header) = 0
  BY DEF RetryInv, RetryTyped, ReplyTyped, NoHeader, Requested
<1>8. AskedInv'
  BY <1>2, <1>3, <1>7, HeaderIsRead DEF Wait, RetryInv, RetryTyped, ReplyTyped, AskedInv
<1> QED BY <1>4, <1>5, <1>6, <1>8 DEF RetryInv

LEMMA RetryInvRetry ==
  ASSUME RetryInv, Retry
  PROVE  RetryInv'
<1>1. /\ stage = "waiting" /\ attempt < MaxNetworkAttempts /\ attempt' = attempt + 1
      /\ now' \in Nat /\ wakeAt <= now' /\ now' <= wakeAt + Lateness
  BY Bounds DEF Retry, RetryInv, RetryTyped, TimeInv
<1>2. RetryTyped' /\ BodyInv'
  BY <1>1, Bounds DEF Retry, RetryInv, RetryTyped, ReplyTyped, BodyInv
<1>3. now' <= Elapsed(attempt)
  BY <1>1, TimeTaken DEF RetryInv
<1>4. attempt' - 1 = attempt
  BY <1>1 DEF RetryInv, RetryTyped
<1>5. TimeInv'
  BY <1>1, <1>3, <1>4, Bounds DEF Retry, RetryInv, RetryTyped, TimeInv
<1>6. AskedInv'
  <2>1. SUFFICES ASSUME Requested(asked.header) < DurationLimit
                 PROVE  now' >= asked.at + Requested(asked.header)
    BY DEF Retry, AskedInv
  <2>2. Requested(asked.header) \in Nat
    BY <2>1, HeaderIsRead DEF RetryInv, RetryTyped
  <2> QED BY <1>1, <2>1, <2>2 DEF RetryInv, RetryTyped, AskedInv
<1> QED BY <1>2, <1>5, <1>6 DEF RetryInv

LEMMA RetryInvInterrupt ==
  ASSUME RetryInv, Interrupt
  PROVE  RetryInv'
<1>1. /\ stage = "waiting" /\ attempt < MaxNetworkAttempts
      /\ now' \in Nat /\ now' <= wakeAt + Lateness
  BY Bounds DEF Interrupt, RetryInv, RetryTyped, TimeInv
<1>2. RetryTyped' /\ BodyInv'
  BY <1>1 DEF Interrupt, End, RetryInv, RetryTyped, ReplyTyped, BodyInv
<1>3. now' <= Elapsed(attempt)
  BY <1>1, TimeTaken DEF RetryInv
<1>4. /\ attempt \in Nat /\ MaxNetworkAttempts - 1 \in Nat
      /\ attempt <= MaxNetworkAttempts - 1
  BY <1>1, Bounds DEF RetryInv, RetryTyped
<1>5. Elapsed(attempt) <= Elapsed(MaxNetworkAttempts - 1) /\ Elapsed(attempt) \in Nat
      /\ Elapsed(MaxNetworkAttempts - 1) \in Nat
  BY <1>4, ElapsedIsMonotone, ElapsedGrows
<1>6. now' <= Elapsed(MaxNetworkAttempts - 1) + RequestTimeout
  BY <1>1, <1>3, <1>5, Bounds
<1>7. deadline # NoDeadline => now' <= deadline + Lateness
  BY <1>1, Bounds DEF RetryInv, RetryTyped, TimeInv
<1>8. TimeInv'
  BY <1>6, <1>7 DEF Interrupt, End, TimeInv
<1>9. AskedInv'
  BY DEF Interrupt, End, AskedInv
<1> QED BY <1>2, <1>8, <1>9 DEF RetryInv

LEMMA RetryInvNext == RetryInv /\ [RetryNext]_retryVars => RetryInv'
<1> SUFFICES ASSUME RetryInv, [RetryNext]_retryVars PROVE RetryInv'
  OBVIOUS
<1>1. CASE Cancel \/ UNCHANGED retryVars
  <2>1. /\ cancelled' \in BOOLEAN
        /\ UNCHANGED <<deadline, now, attempt, stage, reply, wakeAt, open, result, asked>>
    BY <1>1 DEF Cancel, retryVars, RetryInv, RetryTyped
  <2> QED BY <2>1 DEF RetryInv, RetryTyped, ReplyTyped, BodyInv, TimeInv, AskedInv
<1> QED BY <1>1, RetryInvSend, RetryInvEnd, RetryInvWait, RetryInvRetry, RetryInvInterrupt
        DEF RetryNext

\* The inductive invariant of the loop: which body is open, how much time the attempts
\* so far may have taken, and what the timer is set to.
THEOREM RetryInvariant == RetrySpec => []RetryInv
BY RetryInvInit, RetryInvNext, PTL DEF RetrySpec

\* Of the responses to a request at most the result is left open, for any replies.
THEOREM NoBodyLeaks == RetrySpec => []NoBodyIsLeaked
<1>1. RetryInv => NoBodyIsLeaked
  BY DEF RetryInv, BodyInv, NoBodyIsLeaked
<1> QED BY <1>1, RetryInvariant, PTL

\* A call ends within the time of its attempts and of the longest waits between them, and
\* with its deadline, whatever delays are asked for and however the arithmetic wraps.
THEOREM CallsAreBounded == RetrySpec => []ReturnsInTime
<1>1. ASSUME RetryInv PROVE ReturnsInTime
  <2>2. now <= Elapsed(MaxNetworkAttempts - 1) + RequestTimeout
    BY <1>1, TimeTaken DEF RetryInv
  <2>3. Elapsed(MaxNetworkAttempts - 1) + RequestTimeout
          = MaxNetworkAttempts * RequestTimeout
              + (MaxNetworkAttempts - 1) * (MaxRetryDelay + Lateness)
    BY Bounds DEF Elapsed
  <2> QED BY <1>1, <2>2, <2>3 DEF ReturnsInTime, RetryInv, TimeInv
<1> QED BY <1>1, RetryInvariant, PTL

\* No server is asked again before the time it named, as long as that is a duration:
\* prolonging the backoff and refusing a wait that is too long are the only two outcomes.
THEOREM RetryAfterIsKept == RetrySpec => []ShortRetryAfterIsHonoured
<1>1. RetryInv => ShortRetryAfterIsHonoured
  BY DEF RetryInv, AskedInv, ShortRetryAfterIsHonoured
<1> QED BY <1>1, RetryInvariant, PTL
=============================================================================
