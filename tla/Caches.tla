------------------------------- MODULE Caches -------------------------------
(***************************************************************************)
(* The pricing catalog and the registry of RDAP servers.  They share       *)
(* nothing but their design, so a behaviour is about one of them.          *)
(***************************************************************************)
EXTENDS PricingCache, BootstrapCache

VARIABLE cache   \* which of the two a behaviour is about

vars == <<sharedVars, cached, cache>>

Init ==
  /\ SharedInit
  /\ PricingInit
  /\ cache \in {"pricing", "bootstrap"}

Step(c) ==
  /\ UNCHANGED cache
  /\ \/ cache = "pricing" /\ PricingStep(c)
     \/ cache = "bootstrap" /\ BootstrapStep(c) /\ UNCHANGED cached

Call(c) ==
  /\ UNCHANGED cache
  /\ \/ cache = "pricing" /\ ReadCatalog(c)
     \/ cache = "bootstrap" /\ ServersFor(c) /\ UNCHANGED cached

Next ==
  \/ Tick /\ UNCHANGED <<cached, cache>>
  \/ \E c \in Callers : Call(c) \/ Step(c)

Spec == Init /\ [][Next]_vars

\* A call runs by itself; a request ends with its timeout; and sync.Mutex
\* hands a mutex over to a waiter that has starved.
FairSpec ==
  /\ Spec
  /\ \A c \in Callers : /\ WF_vars(Step(c))
                        /\ SF_vars(Lock(c) /\ UNCHANGED <<cached, cache>>)
-----------------------------------------------------------------------------
\* At most one caller fetches at a time, and whoever is past the mutex holds
\* it: it is released on every path out of cachedCatalog and of ensure.
OneFetcher ==
  \A c \in Callers :
    pc[c] \in {"locked", "fetching", "stored"} <=> fetchMu = c

\* Every call returns, whether or not the source can be fetched.
CallersReturn == \A c \in Callers : pc[c] # "idle" ~> pc[c] = "idle"

\* Both caches implement the abstract one: the copy is replaced at most once
\* per TTL however many callers found it expired; no caller is given one that
\* was unacceptable when it asked, although ensure and the lookup read the
\* registry at different moments; and none is refused one that is acceptable.
Cache == INSTANCE StaleCache WITH
           call <- [c \in Callers |-> [open |-> pc[c] # "idle",
                                       asked |-> asked[c], answer |-> answer[c]]]
ImplementsStaleCache == Cache!Spec
=============================================================================
