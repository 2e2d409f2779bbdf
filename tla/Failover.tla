------------------------------ MODULE Failover ------------------------------
(***************************************************************************)
(* queryDNSMsgWithRD (dns.go): a query to one of several servers, begun at *)
(* one that all workers choose in turn, and repeated at the next one while *)
(* attempts remain.  NXDOMAIN, and any other answer that is not the fault  *)
(* of the server, is final.  The pause between two attempts may end the    *)
(* query too: the cycle is over, or its deadline too near.                 *)
(***************************************************************************)
EXTENDS DomainWorker

VARIABLE query   \* the servers, the one it began with, the attempt, who was
                 \* asked, and whether all of those have failed

NoQuery == [servers |-> 0, first |-> 0, attempt |-> 0, asked |-> {}, exhausted |-> FALSE]

\* GlobalResolverIndex is shared by all workers: any server may be the first.
StartQuery(n) ==
  \E first \in 0 .. n - 1 :
    query' = [servers |-> n, first |-> first, attempt |-> 1, asked |-> {},
              exhausted |-> FALSE]

\* Mutant: every attempt goes to the server the query began with.
Chosen_Stuck == query.first

Chosen == (query.first + query.attempt - 1) % query.servers

Limit == IF query.servers < MaxNetworkAttempts THEN query.servers ELSE MaxNetworkAttempts

\* A timeout, a mismatched response, SERVFAIL or a refusal.
NextServer ==
  /\ query.attempt < Limit
  /\ query' = [query EXCEPT !.attempt = @ + 1, !.asked = @ \cup {Chosen}]

EndQuery == query' = NoQuery

\* The last server failed; or a response leaves no room for another try, or
\* the cycle's context ends.
GiveUp ==
  \/ /\ query.attempt = Limit
     /\ query' = [query EXCEPT !.asked = @ \cup {Chosen}, !.exhausted = TRUE]
  \/ EndQuery

\* A query that ends because every server it asked has failed has asked as many
\* entries of its list as it may, each once, wherever it began.  (The list may
\* hold an address twice; a query that is cut short asks fewer.)
FailoverAsksOthers ==
  query.exhausted => Cardinality(query.asked) = Limit
=============================================================================
