--------------------------- MODULE BootstrapCache ---------------------------
(***************************************************************************)
(* Bootstrap.ServersFor and ensure (bootstrap.go): the registry of RDAP    *)
(* servers.  Unlike the pricing catalog it is read again after ensure has  *)
(* found it good enough, and a caller with an acceptable copy tries the    *)
(* fetch mutex only once.                                                  *)
(***************************************************************************)
EXTENDS SharedCopy

ServersFor(c) ==
  /\ pc[c] = "idle"
  /\ asked' = [asked EXCEPT ![c] = clock]
  /\ Goto(c, "check")
  /\ UNCHANGED <<clock, copy, fetchMu, answer>>

CheckFresh(c) ==
  /\ pc[c] = "check"
  /\ Goto(c, IF Fresh(copy) THEN "read" ELSE "age")
  /\ UNCHANGED <<clock, copy, fetchMu, asked, answer>>

\* Mutant: any registry, however old, spares the caller the wait.
CheckAge_AnyData(c) ==
  /\ pc[c] = "age"
  /\ Goto(c, IF copy # NoCopy THEN "tryLock" ELSE "lock")
  /\ UNCHANGED <<clock, copy, fetchMu, asked, answer>>

\* Only a caller without an acceptable registry waits for the mutex.
CheckAge(c) ==
  /\ pc[c] = "age"
  /\ Goto(c, IF Acceptable(copy) THEN "tryLock" ELSE "lock")
  /\ UNCHANGED <<clock, copy, fetchMu, asked, answer>>

Recheck(c) ==
  /\ pc[c] = "locked"
  /\ \/ /\ Fresh(copy)
        /\ Goto(c, "read")
        /\ Unlock
     \/ /\ ~Fresh(copy)
        /\ Goto(c, "fetching")
        /\ UNCHANGED fetchMu
  /\ UNCHANGED <<clock, copy, asked, answer>>

EnsureReturns(c) ==
  /\ pc[c] = "stored"
  /\ Goto(c, "read")
  /\ Unlock
  /\ UNCHANGED <<clock, copy, asked, answer>>

EnsureFails(c) ==
  /\ pc[c] = "fetching"
  /\ IF Acceptable(copy) THEN Goto(c, "read") /\ UNCHANGED answer
                         ELSE Return(c, NoCopy)
  /\ Unlock
  /\ UNCHANGED <<clock, copy, asked>>

\* ServersFor looks the domain up in whatever registry is there by now.
ReadServices(c) ==
  /\ pc[c] = "read"
  /\ Return(c, copy)
  /\ UNCHANGED <<clock, copy, fetchMu, asked>>

BootstrapStep(c) ==
  \/ CheckFresh(c) \/ CheckAge(c) \/ TryLock(c, "read") \/ Lock(c) \/ Recheck(c)
  \/ Fetched(c) \/ EnsureReturns(c) \/ EnsureFails(c) \/ ReadServices(c)
=============================================================================
