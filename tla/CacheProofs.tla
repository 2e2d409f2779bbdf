---------------------------- MODULE CacheProofs ----------------------------
(***************************************************************************)
(* Theorems about Caches, for any number of callers and any ages: one      *)
(* caller fetches at a time, and every step of a cache is one of           *)
(* StaleCache or leaves it alone.                                          *)
(***************************************************************************)
EXTENDS Caches, TLAPS

Places == {"idle", "read", "check", "age", "tryLock", "lock", "busy", "locked",
           "fetching", "stored"}

Types ==
  /\ clock \in Nat
  /\ copy \in Int /\ copy >= NoCopy /\ copy <= clock
  /\ pc \in [Callers -> Places]
  /\ asked \in [Callers -> Nat]
  /\ answer \in [Callers -> Int]
  /\ cached \in [Callers -> Int]
  /\ cache \in {"pricing", "bootstrap"}
  /\ \A c \in Callers : asked[c] <= clock

\* A caller that is going to fetch has found the copy expired, and nobody can
\* have replaced it since.
FetchInv ==
  \A c \in Callers :
    pc[c] = "fetching" => ~Fresh(copy) /\ (cache = "pricing" => cached[c] = copy)

\* What a caller knows about the copy it is about to return.
Promised(c, fetchedAt) == fetchedAt # NoCopy /\ asked[c] - fetchedAt <= MaxStale

AnswerInv ==
  \A c \in Callers :
    /\ cache = "pricing" /\ pc[c] = "stored" => Promised(c, cached[c])
    /\ cache = "bootstrap" /\ pc[c] \in {"read", "tryLock", "stored"} => Promised(c, copy)

\* Each cache keeps to its own places.
PlaceInv ==
  \A c \in Callers :
    /\ cache = "bootstrap" => pc[c] # "busy"
    /\ cache = "pricing" => pc[c] \notin {"check", "age"}

IInv == Types /\ OneFetcher /\ FetchInv /\ AnswerInv /\ PlaceInv

-----------------------------------------------------------------------------
LEMMA InitIInv == Init => IInv
  BY CacheAssumption
  DEF Init, SharedInit, PricingInit, IInv, Types, OneFetcher, FetchInv, AnswerInv,
      PlaceInv, Places, NoCopy, Nobody

\* A caller moves on without touching the copy or the mutex.
LEMMA TickKeepsIInv == IInv /\ Tick /\ UNCHANGED <<cached, cache>> => IInv'
  BY CacheAssumption
  DEF Tick, IInv, Types, OneFetcher, FetchInv, AnswerInv, PlaceInv, Promised, Places,
      NoCopy, Nobody, Fresh

LEMMA CallKeepsIInv ==
  ASSUME IInv, NEW c \in Callers, Call(c)
  PROVE  IInv'
<1>1. CASE cache = "pricing" /\ ReadCatalog(c)
  BY <1>1, CacheAssumption
  DEF Call, ReadCatalog, Goto, IInv, Types, OneFetcher, FetchInv, AnswerInv, PlaceInv,
      Promised, Places, NoCopy, Nobody, Fresh
<1>2. CASE cache = "bootstrap" /\ ServersFor(c) /\ UNCHANGED cached
  BY <1>2, CacheAssumption
  DEF Call, ServersFor, Goto, IInv, Types, OneFetcher, FetchInv, AnswerInv, PlaceInv,
      Promised, Places, NoCopy, Nobody, Fresh
<1> QED BY <1>1, <1>2 DEF Call

LEMMA PricingKeepsIInv ==
  ASSUME IInv, NEW c \in Callers, cache = "pricing", UNCHANGED cache, PricingStep(c)
  PROVE  IInv'
<1> USE CacheAssumption
    DEF Goto, Return, Unlock, IInv, Types, OneFetcher, FetchInv, AnswerInv, PlaceInv,
        Promised, Places, NoCopy, Nobody, Fresh, Acceptable
<1>1. CASE CheckCatalog(c) BY <1>1 DEF CheckCatalog
<1>2. CASE Busy(c) BY <1>2 DEF Busy
<1>3. CASE RecheckCatalog(c) BY <1>3 DEF RecheckCatalog
<1>4. CASE FetchSucceeds(c) BY <1>4 DEF FetchSucceeds, Fetched
<1>5. CASE ReturnFetched(c) BY <1>5 DEF ReturnFetched
<1>6. CASE FetchFails(c) BY <1>6 DEF FetchFails
<1>7. CASE UNCHANGED cached /\ Lock(c) BY <1>7 DEF Lock
<1>8. CASE UNCHANGED cached /\ TryLock(c, "busy") BY <1>8 DEF TryLock
<1> QED BY <1>1, <1>2, <1>3, <1>4, <1>5, <1>6, <1>7, <1>8 DEF PricingStep

LEMMA BootstrapKeepsIInv ==
  ASSUME IInv, NEW c \in Callers, cache = "bootstrap", UNCHANGED <<cache, cached>>,
         BootstrapStep(c)
  PROVE  IInv'
<1> USE CacheAssumption
    DEF Goto, Return, Unlock, IInv, Types, OneFetcher, FetchInv, AnswerInv, PlaceInv,
        Promised, Places, NoCopy, Nobody, Fresh, Acceptable
<1>1. CASE CheckFresh(c) BY <1>1 DEF CheckFresh
<1>2. CASE CheckAge(c) BY <1>2 DEF CheckAge
<1>3. CASE TryLock(c, "read") BY <1>3 DEF TryLock
<1>4. CASE Lock(c) BY <1>4 DEF Lock
<1>5. CASE Recheck(c) BY <1>5 DEF Recheck
<1>6. CASE Fetched(c) BY <1>6 DEF Fetched
<1>7. CASE EnsureReturns(c) BY <1>7 DEF EnsureReturns
<1>8. CASE EnsureFails(c) BY <1>8 DEF EnsureFails
<1>9. CASE ReadServices(c) BY <1>9 DEF ReadServices
<1> QED
  BY <1>1, <1>2, <1>3, <1>4, <1>5, <1>6, <1>7, <1>8, <1>9 DEF BootstrapStep

LEMMA NextKeepsIInv == IInv /\ [Next]_vars => IInv'
<1> SUFFICES ASSUME IInv, [Next]_vars PROVE IInv'
  OBVIOUS
<1>1. CASE Tick /\ UNCHANGED <<cached, cache>> BY <1>1, TickKeepsIInv
<1>2. ASSUME NEW c \in Callers, Call(c) PROVE IInv' BY <1>2, CallKeepsIInv
<1>3. ASSUME NEW c \in Callers, Step(c) PROVE IInv'
  BY <1>3, PricingKeepsIInv, BootstrapKeepsIInv DEF Step
<1>4. CASE UNCHANGED vars
  BY <1>4
  DEF vars, sharedVars, IInv, Types, OneFetcher, FetchInv, AnswerInv, PlaceInv,
      Promised, Fresh
<1> QED BY <1>1, <1>2, <1>3, <1>4 DEF Next

\* The inductive invariant of both caches: the mutex belongs to the caller that
\* is past it, the copy is expired while it is being fetched, and what a caller
\* is about to return was acceptable when it asked.
THEOREM CacheInvariant == Spec => []IInv
  BY InitIInv, NextKeepsIInv, PTL DEF Spec

\* At most one caller fetches at a time (TryLock, Lock and the deferred Unlock
\* of cachedCatalog and ensure).
THEOREM FetchesAreExclusive == Spec => []OneFetcher
<1>1. IInv => OneFetcher BY DEF IInv
<1> QED BY <1>1, CacheInvariant, PTL

-----------------------------------------------------------------------------
(* The refinement.  What the abstract cache sees of a caller.              *)

call == [c \in Callers |-> [open |-> pc[c] # "idle", asked |-> asked[c],
                            answer |-> answer[c]]]

\* A step that neither begins nor ends a call is none of the abstract cache.
LEMMA InsideACall ==
  ASSUME Types, NEW c \in Callers, NEW place \in Places \ {"idle"}, pc[c] # "idle",
         Goto(c, place), UNCHANGED <<clock, copy, asked, answer>>
  PROVE  UNCHANGED Cache!vars
<1>1. call' = call
  BY DEF call, Types, Goto
<1> QED BY <1>1 DEF Cache!vars, call

\* The copy is replaced once it has expired.
LEMMA FetchRefreshes ==
  ASSUME IInv, NEW c \in Callers, Fetched(c)
  PROVE  Cache!Refresh
<1>1. call' = call
  BY DEF call, IInv, Types, Fetched, Goto
<1>2. copy = NoCopy \/ clock - copy >= TTL
  BY CacheAssumption DEF IInv, Types, FetchInv, Fetched, Fresh
<1> QED BY <1>1, <1>2 DEF Cache!Refresh, Fetched, call

\* Returning a copy that was acceptable when the caller asked serves it.
LEMMA ReturnServes ==
  ASSUME Types, NEW c \in Callers, NEW fetchedAt \in Int, pc[c] # "idle",
         Return(c, fetchedAt), Promised(c, fetchedAt), UNCHANGED <<clock, copy, asked>>
  PROVE  Cache!Next
<1>1. call' = [call EXCEPT ![c].open = FALSE, ![c].answer = fetchedAt]
  BY DEF call, Types, Return, Goto
<1>2. answer'[c] = fetchedAt /\ call'[c].answer = fetchedAt /\ call[c].open
      /\ call[c].asked = asked[c]
  BY DEF call, Types, Return
<1>3. Cache!Serve(c, call'[c].answer)
  BY <1>1, <1>2 DEF Cache!Serve, call, Promised
<1> QED BY <1>3 DEF Cache!Next, call

\* An error is a refusal, and only where there is no acceptable copy.
LEMMA ErrorRefuses ==
  ASSUME Types, NEW c \in Callers, pc[c] # "idle", Return(c, NoCopy),
         ~Acceptable(copy), UNCHANGED <<clock, copy, asked>>
  PROVE  Cache!Next
<1>1. call' = [call EXCEPT ![c].open = FALSE, ![c].answer = NoCopy]
  BY DEF call, Types, Return, Goto
<1>2. call[c].open
  BY DEF call
<1>3. Cache!Refuse(c)
  BY <1>1, <1>2 DEF Cache!Refuse, Cache!Usable, Acceptable, call
<1> QED BY <1>3 DEF Cache!Next

LEMMA CallAsks ==
  ASSUME IInv, NEW c \in Callers, Call(c)
  PROVE  Cache!Ask(c)
<1>1. /\ pc[c] = "idle"
      /\ asked' = [asked EXCEPT ![c] = clock]
      /\ \E place \in Places \ {"idle"} : Goto(c, place)
      /\ UNCHANGED <<clock, copy, answer>>
  BY DEF Call, ReadCatalog, ServersFor, Places
<1>2. call' = [call EXCEPT ![c].open = TRUE, ![c].asked = clock]
  BY <1>1 DEF call, IInv, Types, Goto
<1>3. ~call[c].open
  BY <1>1 DEF call
<1> QED BY <1>1, <1>2, <1>3 DEF Cache!Ask, call

LEMMA PricingStepRefines ==
  ASSUME IInv, NEW c \in Callers, cache = "pricing", PricingStep(c)
  PROVE  [Cache!Next]_(Cache!vars)
<1> USE CacheAssumption DEF IInv
<1>t. cached[c] \in Int /\ copy \in Int /\ clock \in Nat /\ asked[c] \in Nat
      /\ asked[c] <= clock
  BY DEF Types
<1>1. CASE CheckCatalog(c)
  <2>1. CASE Fresh(cached[c]) /\ Return(c, cached[c])
    <3>1. Promised(c, cached[c]) BY <1>t, <2>1 DEF Promised, Fresh
    <3> QED BY <1>1, <1>t, <2>1, <3>1, ReturnServes DEF CheckCatalog
  <2>2. CASE ~Fresh(cached[c])
    <3>1. PICK place \in {"lock", "tryLock"} : Goto(c, place)
      BY <1>1, <2>2 DEF CheckCatalog
    <3> QED BY <1>1, <2>2, <3>1, InsideACall DEF CheckCatalog, Places
  <2> QED BY <1>1, <2>1, <2>2 DEF CheckCatalog
<1>2. CASE Busy(c)
  <2>1. CASE Acceptable(cached[c]) /\ Return(c, cached[c])
    <3>1. Promised(c, cached[c]) BY <1>t, <2>1 DEF Promised, Acceptable
    <3> QED BY <1>2, <1>t, <2>1, <3>1, ReturnServes DEF Busy
  <2>2. CASE ~Acceptable(cached[c])
    BY <1>2, <2>2, InsideACall DEF Busy, Places
  <2> QED BY <1>2, <2>1, <2>2 DEF Busy
<1>3. CASE RecheckCatalog(c)
  <2>1. CASE Fresh(copy) /\ Return(c, copy)
    <3>1. Promised(c, copy) BY <1>t, <2>1 DEF Promised, Fresh
    <3> QED BY <1>3, <1>t, <2>1, <3>1, ReturnServes DEF RecheckCatalog
  <2>2. CASE ~Fresh(copy)
    BY <1>3, <2>2, InsideACall DEF RecheckCatalog, Places
  <2> QED BY <1>3, <2>1, <2>2 DEF RecheckCatalog
<1>4. CASE FetchSucceeds(c)
  BY <1>4, FetchRefreshes DEF FetchSucceeds, Cache!Next
<1>5. CASE ReturnFetched(c)
  <2>1. Promised(c, cached[c]) BY <1>5 DEF AnswerInv, ReturnFetched
  <2> QED BY <1>5, <1>t, <2>1, ReturnServes DEF ReturnFetched
<1>6. CASE FetchFails(c)
  <2>1. cached[c] = copy BY <1>6 DEF FetchInv, FetchFails
  <2>2. CASE Acceptable(copy)
    <3>1. Promised(c, copy) BY <1>t, <2>2 DEF Promised, Acceptable
    <3> QED BY <1>6, <1>t, <2>1, <2>2, <3>1, ReturnServes DEF FetchFails
  <2>3. CASE ~Acceptable(copy)
    BY <1>6, <2>1, <2>3, ErrorRefuses DEF FetchFails
  <2> QED BY <2>2, <2>3
<1>7. CASE Lock(c)
  BY <1>7, InsideACall DEF Lock, Places
<1>8. CASE TryLock(c, "busy")
  BY <1>8, InsideACall DEF TryLock, Places
<1> QED BY <1>1, <1>2, <1>3, <1>4, <1>5, <1>6, <1>7, <1>8 DEF PricingStep

LEMMA BootstrapStepRefines ==
  ASSUME IInv, NEW c \in Callers, cache = "bootstrap", BootstrapStep(c)
  PROVE  [Cache!Next]_(Cache!vars)
<1> USE DEF IInv
<1>1. CASE CheckFresh(c)
  BY <1>1, InsideACall DEF CheckFresh, Places
<1>2. CASE CheckAge(c)
  BY <1>2, InsideACall DEF CheckAge, Places
<1>3. CASE TryLock(c, "read")
  BY <1>3, InsideACall DEF TryLock, Places
<1>4. CASE Lock(c)
  BY <1>4, InsideACall DEF Lock, Places
<1>5. CASE Recheck(c)
  BY <1>5, InsideACall DEF Recheck, Places
<1>6. CASE Fetched(c)
  BY <1>6, FetchRefreshes DEF Cache!Next
<1>7. CASE EnsureReturns(c)
  BY <1>7, InsideACall DEF EnsureReturns, Places
<1>8. CASE EnsureFails(c)
  <2>1. CASE Acceptable(copy)
    BY <1>8, <2>1, InsideACall DEF EnsureFails, Places
  <2>2. CASE ~Acceptable(copy)
    BY <1>8, <2>2, ErrorRefuses DEF EnsureFails
  <2> QED BY <2>1, <2>2
<1>9. CASE ReadServices(c)
  <2>1. Promised(c, copy) BY <1>9 DEF AnswerInv, ReadServices
  <2> QED BY <1>9, <2>1, ReturnServes DEF ReadServices, Types
<1> QED
  BY <1>1, <1>2, <1>3, <1>4, <1>5, <1>6, <1>7, <1>8, <1>9 DEF BootstrapStep

LEMMA NextRefines == IInv /\ [Next]_vars => [Cache!Next]_(Cache!vars)
<1> SUFFICES ASSUME IInv, [Next]_vars PROVE [Cache!Next]_(Cache!vars)
  OBVIOUS
<1>1. CASE Tick
  <2>1. call' = call BY <1>1 DEF call, Tick
  <2> QED BY <1>1, <2>1 DEF Tick, Cache!Tick, Cache!Next, call
<1>2. ASSUME NEW c \in Callers, Call(c) PROVE Cache!Next
  BY <1>2, CallAsks DEF Cache!Next
<1>3. ASSUME NEW c \in Callers, Step(c) PROVE [Cache!Next]_(Cache!vars)
  BY <1>3, PricingStepRefines, BootstrapStepRefines DEF Step
<1>4. CASE UNCHANGED vars
  BY <1>4 DEF vars, sharedVars, Cache!vars
<1> QED BY <1>1, <1>2, <1>3, <1>4 DEF Next

\* Both caches implement the abstract one: the source is asked at most once per
\* TTL, nobody is given a copy that was too old when it was asked for, and nobody
\* is refused an acceptable one (cachedCatalog in pricing.go, ensure and
\* ServersFor in bootstrap.go).
THEOREM CachesImplementStaleCache == Spec => ImplementsStaleCache
<1>1. Init => Cache!Init
  BY DEF Init, SharedInit, Cache!Init
<1> QED BY <1>1, NextRefines, CacheInvariant, PTL DEF Spec, ImplementsStaleCache, Cache!Spec
=============================================================================
