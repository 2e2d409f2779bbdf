---------------------------- MODULE PricingCache ----------------------------
(***************************************************************************)
(* PricingManager.cachedCatalog (pricing.go): concurrent callers of a      *)
(* catalog that is refreshed by one of them at a time, while the others    *)
(* keep getting the stale one as long as it is acceptable.  A caller works *)
(* on the catalog pointer it read, not on the shared field.                *)
(***************************************************************************)
EXTENDS SharedCopy

VARIABLE cached   \* the catalog each caller last read

PricingInit == cached = [c \in Callers |-> NoCopy]

ReadCatalog(c) ==
  /\ pc[c] = "idle"
  /\ cached' = [cached EXCEPT ![c] = copy]
  /\ asked' = [asked EXCEPT ![c] = clock]
  /\ Goto(c, "read")
  /\ UNCHANGED <<clock, copy, fetchMu, answer>>

\* A fresh catalog is returned; with none at all the caller waits.
CheckCatalog(c) ==
  /\ pc[c] = "read"
  /\ \/ /\ Fresh(cached[c])
        /\ Return(c, cached[c])
     \/ /\ ~Fresh(cached[c])
        /\ Goto(c, IF cached[c] = NoCopy THEN "lock" ELSE "tryLock")
        /\ UNCHANGED answer
  /\ UNCHANGED <<clock, copy, fetchMu, cached, asked>>

\* Mutant: a caller whose catalog is too old tries again instead of waiting.
Busy_Spins(c) ==
  /\ pc[c] = "busy"
  /\ \/ /\ Acceptable(cached[c])
        /\ Return(c, cached[c])
     \/ /\ ~Acceptable(cached[c])
        /\ Goto(c, "tryLock")
        /\ UNCHANGED answer
  /\ UNCHANGED <<clock, copy, fetchMu, cached, asked>>

\* Somebody else is fetching: an acceptably stale catalog is enough.
Busy(c) ==
  /\ pc[c] = "busy"
  /\ \/ /\ Acceptable(cached[c])
        /\ Return(c, cached[c])
     \/ /\ ~Acceptable(cached[c])
        /\ Goto(c, "lock")
        /\ UNCHANGED answer
  /\ UNCHANGED <<clock, copy, fetchMu, cached, asked>>

\* Mutant: what happened while the caller waited is not looked at.
RecheckCatalog_Skipped(c) ==
  /\ pc[c] = "locked"
  /\ Goto(c, "fetching")
  /\ UNCHANGED <<clock, copy, fetchMu, cached, asked, answer>>

\* The catalog is read again: another caller may have refreshed it.
RecheckCatalog(c) ==
  /\ pc[c] = "locked"
  /\ cached' = [cached EXCEPT ![c] = copy]
  /\ \/ /\ Fresh(copy)
        /\ Return(c, copy)
        /\ Unlock
     \/ /\ ~Fresh(copy)
        /\ Goto(c, "fetching")
        /\ UNCHANGED <<fetchMu, answer>>
  /\ UNCHANGED <<clock, copy, asked>>

FetchSucceeds(c) ==
  /\ Fetched(c)
  /\ cached' = [cached EXCEPT ![c] = clock]

ReturnFetched(c) ==
  /\ pc[c] = "stored"
  /\ Return(c, cached[c])
  /\ Unlock
  /\ UNCHANGED <<clock, copy, cached, asked>>

\* The error is reported only when there is no acceptable catalog.
FetchFails(c) ==
  /\ pc[c] = "fetching"
  /\ Return(c, IF Acceptable(cached[c]) THEN cached[c] ELSE NoCopy)
  /\ Unlock
  /\ UNCHANGED <<clock, copy, cached, asked>>

PricingStep(c) ==
  \/ CheckCatalog(c) \/ Busy(c) \/ RecheckCatalog(c)
  \/ FetchSucceeds(c) \/ ReturnFetched(c) \/ FetchFails(c)
  \/ UNCHANGED cached /\ (Lock(c) \/ TryLock(c, "busy"))
=============================================================================
