----------------------------- MODULE StaleCache -----------------------------
(***************************************************************************)
(* What the two in-memory caches of the daemon promise their callers: the  *)
(* source is asked at most once per TTL, no answer was older than MaxStale *)
(* when it was asked for, and a caller is refused only while there is no   *)
(* usable copy.                                                            *)
(***************************************************************************)
EXTENDS Integers

CONSTANTS
  Callers,
  TTL,        \* age from which a copy is refreshed
  MaxStale,   \* age up to which it is still served
  NoCopy      \* nothing fetched yet

VARIABLES
  clock,
  copy,       \* when the current copy was fetched, or NoCopy
  call        \* [Callers -> [open, asked, answer]]

vars == <<clock, copy, call>>

Usable(at) == copy # NoCopy /\ at - copy <= MaxStale

Init ==
  /\ copy = NoCopy
  /\ \A c \in Callers : ~call[c].open

Ask(c) ==
  /\ ~call[c].open
  /\ call' = [call EXCEPT ![c].open = TRUE, ![c].asked = clock]
  /\ UNCHANGED <<clock, copy>>

Refresh ==
  /\ copy = NoCopy \/ clock - copy >= TTL
  /\ copy' = clock
  /\ UNCHANGED <<clock, call>>

Serve(c, fetchedAt) ==
  /\ call[c].open
  /\ fetchedAt # NoCopy
  /\ call[c].asked - fetchedAt <= MaxStale
  /\ call' = [call EXCEPT ![c].open = FALSE, ![c].answer = fetchedAt]
  /\ UNCHANGED <<clock, copy>>

Refuse(c) ==
  /\ call[c].open
  /\ ~Usable(clock)
  /\ call' = [call EXCEPT ![c].open = FALSE, ![c].answer = NoCopy]
  /\ UNCHANGED <<clock, copy>>

Tick == clock' = clock + 1 /\ UNCHANGED <<copy, call>>

Next ==
  \/ \E c \in Callers : Ask(c) \/ Refuse(c) \/ Serve(c, call'[c].answer)
  \/ Refresh
  \/ Tick

Spec == Init /\ [][Next]_vars
=============================================================================
