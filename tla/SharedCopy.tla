----------------------------- MODULE SharedCopy -----------------------------
(***************************************************************************)
(* What the two in-memory caches of the daemon have in common              *)
(* (PricingManager in pricing.go and Bootstrap in bootstrap.go): a copy    *)
(* with the time it was fetched, read under a mutex of its own, and a      *)
(* fetch mutex that lets one caller at a time refresh it.                  *)
(***************************************************************************)
EXTENDS Integers

CONSTANTS
  Callers,
  TTL,        \* PricingCacheTTL, BootstrapTTL
  MaxStale,   \* PricingMaxStaleAge, BootstrapMaxAge
  MaxTime     \* bound: the clock

ASSUME CacheAssumption ==
  /\ TTL \in Nat \ {0}
  /\ MaxStale \in Nat
  /\ TTL <= MaxStale
  /\ MaxTime \in Nat
  /\ "nobody" \notin Callers

VARIABLES
  clock,
  copy,      \* when the shared copy was fetched, or NoCopy
  fetchMu,   \* who holds fetchMu, or Nobody
  pc,        \* where each caller is
  asked,     \* history: when each call began
  answer     \* what each caller got last: a copy, or NoCopy for an error

sharedVars == <<clock, copy, fetchMu, pc, asked, answer>>

NoCopy == -1
Nobody == "nobody"

SharedInit ==
  /\ clock = 0
  /\ copy = NoCopy
  /\ fetchMu = Nobody
  /\ pc = [c \in Callers |-> "idle"]
  /\ asked = [c \in Callers |-> 0]
  /\ answer = [c \in Callers |-> NoCopy]

Fresh(fetchedAt) == fetchedAt # NoCopy /\ clock - fetchedAt < TTL
Acceptable(fetchedAt) == fetchedAt # NoCopy /\ clock - fetchedAt <= MaxStale

Goto(c, place) == pc' = [pc EXCEPT ![c] = place]

Return(c, fetchedAt) ==
  /\ Goto(c, "idle")
  /\ answer' = [answer EXCEPT ![c] = fetchedAt]

\* The deferred unlock.
Unlock == fetchMu' = Nobody

Lock(c) ==
  /\ pc[c] = "lock"
  /\ fetchMu = Nobody
  /\ fetchMu' = c
  /\ Goto(c, "locked")
  /\ UNCHANGED <<clock, copy, asked, answer>>

\* fetchMu.TryLock, and where a caller goes that does not get it.
TryLock(c, otherwise) ==
  /\ pc[c] = "tryLock"
  /\ \/ /\ fetchMu = Nobody
        /\ fetchMu' = c
        /\ Goto(c, "locked")
     \/ /\ fetchMu # Nobody
        /\ Goto(c, otherwise)
        /\ UNCHANGED fetchMu
  /\ UNCHANGED <<clock, copy, asked, answer>>

\* The answer is stored under the mutex of the copy; fetchMu is still held.
Fetched(c) ==
  /\ pc[c] = "fetching"
  /\ copy' = clock
  /\ Goto(c, "stored")
  /\ UNCHANGED <<clock, fetchMu, asked, answer>>

Tick ==
  /\ clock < MaxTime
  /\ clock' = clock + 1
  /\ UNCHANGED <<copy, fetchMu, pc, asked, answer>>
=============================================================================
