------------------------------ MODULE NSHealth ------------------------------
(***************************************************************************)
(* The health of the configured nameservers (dns.go, runtime.go): each is  *)
(* resolved, its addresses are asked for the SOA record until one answers  *)
(* with authority, and with "dnssec" the address selected is asked for the *)
(* keys.  What the queries said is kept as it was heard; FetchNSSnapshot   *)
(* makes a snapshot of it.                                                 *)
(***************************************************************************)
EXTENDS DomainWorker, FiniteSetsExt

CONSTANTS
  AddressCounts(_),  \* numbers of addresses a domain's nameservers may have
  Serials,           \* SOA serials
  NSKeyAnswers       \* key sets a nameserver may serve

ASSUME NSHealthAssumption ==
  /\ \A t \in Written : AddressCounts(t) \subseteq Nat \ {0}
  /\ Serials \subseteq Nat \ {0}

VARIABLES
  server,    \* what was heard of the nameserver being asked
  heard,     \* what was heard of those before it
  nsState    \* the result

nsVars == <<server, heard, nsState>>

NSInit ==
  /\ server = [lookup |-> "none", addresses |-> 0, replies |-> <<>>, keys |-> Unasked]
  /\ heard = <<>>
  /\ nsState = [status |-> "unknown", code |-> "none", unavailable |-> FALSE]

\* Responses to an SOA query: one with authority, one without, or a failure.
SOA(authoritative, serial) == [authoritative |-> authoritative, serial |-> serial]
NoSerial == 0
NoResponse == SOA(FALSE, -1)

Good(reply) == reply.authoritative /\ reply.serial # NoSerial

-----------------------------------------------------------------------------
(* FetchNSHealthSnapshots: the configuration leaves no server twice.       *)

NextNameserver(s) ==
  /\ heard' = Append(heard, s)
  /\ server' = [lookup |-> "none", addresses |-> 0, replies |-> <<>>, keys |-> Unasked]
  /\ phase' = IF Len(heard) + 1 = Len(target.nameservers) THEN "evaluate" ELSE "servers"

\* resolveNSAddresses: one of the A and AAAA lookups may fail, or deny the
\* name, where the other finds addresses.
ResolveNameserver ==
  /\ phase = "servers"
  /\ \E lookup \in {"complete", "nxdomain", "failed"}, n \in {0} \cup AddressCounts(target) :
       LET found == [server EXCEPT !.lookup = lookup, !.addresses = n] IN
       IF n = 0 THEN NextNameserver(found)
       ELSE /\ server' = found
            /\ phase' = "soa"
            /\ UNCHANGED heard
  /\ UNCHANGED <<target, nsState>>

MayAsk(s) == Len(s.replies) < Min({s.addresses, MaxNetworkAttempts})

Reached(s) == \E i \in DOMAIN s.replies : s.replies[i] # NoResponse

\* One pass of the loop of selectNSSOA.
QuerySOA ==
  /\ phase = "soa"
  /\ \E reply \in {NoResponse, SOA(FALSE, NoSerial)} \cup
                  {SOA(TRUE, serial) : serial \in {NoSerial} \cup Serials} :
       LET asked == [server EXCEPT !.replies = Append(@, reply)] IN
       CASE ~Good(reply) /\ MayAsk(asked) ->
              server' = asked /\ UNCHANGED <<phase, heard>>
         [] (Good(reply) \/ ~MayAsk(asked)) /\ target.dnssec /\ Reached(asked) ->
              server' = asked /\ phase' = "nsKeys" /\ UNCHANGED heard
         [] OTHER -> NextNameserver(asked)
  /\ UNCHANGED <<target, nsState>>

\* fetchNSDNSKEY; an answer without authority is as good as a failure.
QueryNSKeys ==
  /\ phase = "nsKeys"
  /\ \E reply \in {Failure} \cup {Records(answer) : answer \in NSKeyAnswers} :
       NextNameserver([server EXCEPT !.keys = reply])
  /\ UNCHANGED <<target, nsState>>

NSStep == ResolveNameserver \/ QuerySOA \/ QueryNSKeys

-----------------------------------------------------------------------------
(* FetchNSSnapshot.                                                        *)

LastReply(s) == s.replies[Len(s.replies)]

\* The response with authority, or else the first response there was.
Selected(s) ==
  IF Good(LastReply(s)) THEN LastReply(s)
  ELSE s.replies[CHOOSE i \in DOMAIN s.replies :
         /\ s.replies[i] # NoResponse
         /\ \A j \in DOMAIN s.replies : s.replies[j] # NoResponse => i <= j]

\* Mutant: an address that answers without authority is no error.
queryError_FailuresOnly(s) == NoResponse \in {s.replies[i] : i \in DOMAIN s.replies}

queryError(s) == \E i \in DOMAIN s.replies : ~Good(s.replies[i])

NSSnapshot(s) ==
  [unreachable |-> ~Reached(s),
   authoritative |-> Reached(s) /\ Selected(s).authoritative,
   hasSOA |-> Reached(s) /\ Selected(s).serial # NoSerial,
   serial |-> IF Reached(s) THEN Selected(s).serial ELSE NoSerial,
   partial |-> s.lookup # "complete" \/ queryError(s),
   unresolved |-> s.lookup = "failed",
   keyError |-> s.keys = Failure,
   keys |-> s.keys.records]

InSync(snapshot) == snapshot.authoritative /\ snapshot.hasSOA

-----------------------------------------------------------------------------
(* EvaluateNSHealth.                                                       *)

Snapshots == [i \in DOMAIN heard |-> NSSnapshot(heard[i])]

\* The first snapshot with authority and SOA is what the others are compared
\* with.
Baseline(snapshots) ==
  snapshots[CHOOSE i \in DOMAIN snapshots :
    InSync(snapshots[i]) /\ \A j \in DOMAIN snapshots : InSync(snapshots[j]) => i <= j]

KeyTrouble(snapshot) == target.dnssec /\ (snapshot.keyError \/ snapshot.keys = {})

SerialDiffers(snapshots, i) ==
  InSync(snapshots[i]) /\ snapshots[i].serial # Baseline(snapshots).serial

KeysDiffer(snapshots, i) ==
  InSync(snapshots[i]) /\ target.dnssec /\ snapshots[i].keys # Baseline(snapshots).keys

ServerFindings(snapshots, i) ==
  LET s == snapshots[i] IN
  << Finding(s.unreachable \/ ~InSync(s), "failed",
             CASE s.unreachable -> "ns_unreachable"
               [] ~s.unreachable /\ ~s.authoritative -> "ns_not_authoritative"
               [] OTHER -> "ns_missing_soa"),
     Finding(s.partial, "warning", "ns_unreachable"),
     Finding(KeyTrouble(s), "failed", "ns_dnskey_mismatch"),
     Finding(SerialDiffers(snapshots, i), "warning", "ns_soa_mismatch"),
     Finding(KeysDiffer(snapshots, i), "failed", "ns_dnskey_mismatch") >>

\* In the order of the servers.
NSFindings(snapshots) ==
  [n \in 1 .. 5 * Len(snapshots) |->
     ServerFindings(snapshots, ((n - 1) \div 5) + 1)[((n - 1) % 5) + 1]]

\* Mutant: trouble with addresses excuses everything about a server.
confirmedNSIssue_Excused(snapshots) ==
  \E i \in DOMAIN snapshots :
    LET s == snapshots[i] IN
    \/ ~s.unresolved /\ (s.unreachable \/ s.partial \/ ~InSync(s) \/ KeyTrouble(s))
    \/ SerialDiffers(snapshots, i) \/ KeysDiffer(snapshots, i)

\* evaluateNSHealthResult.
confirmedNSIssue(snapshots) ==
  \E i \in DOMAIN snapshots :
    LET s == snapshots[i] IN
    \/ ~s.unresolved /\ (s.unreachable \/ s.partial)
    \/ ~s.unreachable /\ ~InSync(s)
    \/ KeyTrouble(s)
    \/ SerialDiffers(snapshots, i) \/ KeysDiffer(snapshots, i)

EvaluateNSHealth ==
  LET findings == NSFindings(Snapshots)
      status == PromotedStatus(findings) IN
  [status |-> status,
   code |-> PromotedCode(findings),
   unavailable |-> /\ status # "ok"
                   /\ \E i \in DOMAIN Snapshots : Snapshots[i].unresolved
                   /\ ~confirmedNSIssue(Snapshots)]

-----------------------------------------------------------------------------
(* What the queries have shown.                                            *)

Authoritative(s) == \E i \in DOMAIN s.replies : Good(s.replies[i])
SerialsHeard(s) == {s.replies[i].serial : i \in {j \in DOMAIN s.replies : Good(s.replies[j])}}

\* A server whose addresses could not all be looked up.
NSOutage == \E i \in DOMAIN heard : heard[i].lookup = "failed"

Disagreement ==
  \E i, j \in DOMAIN heard :
    /\ Authoritative(heard[i]) /\ Authoritative(heard[j])
    /\ \/ SerialsHeard(heard[i]) # SerialsHeard(heard[j])
       \/ target.dnssec /\ heard[i].keys # heard[j].keys

KeysMissing(s) == target.dnssec /\ (~Answered(s.keys) \/ s.keys.records = {})

\* Faults that the failed lookup of an address does not excuse.
NSFault ==
  \/ Disagreement
  \/ \E i \in DOMAIN heard :
       LET s == heard[i] IN
       \/ Reached(s) /\ KeysMissing(s)
       \/ Reached(s) /\ ~Authoritative(s)
       \/ /\ s.lookup # "failed"
          /\ \/ s.lookup = "nxdomain" \/ ~Authoritative(s)
             \/ \E j \in DOMAIN s.replies : ~Good(s.replies[j])

\* A server was not reached, its addresses could not all be looked up, and so
\* its keys are not known.
KeysOutOfReach ==
  \E i \in DOMAIN heard :
    LET s == heard[i] IN s.lookup = "failed" /\ ~Reached(s) /\ KeysMissing(s)

\* The nameservers count as healthy exactly when all of them were resolved
\* and their first addresses answered with authority, with one serial and,
\* with "dnssec", one set of keys; and the servers found through a part of
\* their addresses only lower the status, while one that none was found for,
\* or that answers without authority, always fails it.
ServersInSync ==
  nsState.status # "unknown" =>
    /\ Len(heard) = Len(target.nameservers)
    /\ nsState.status = "ok" <=>
         /\ \A i \in DOMAIN heard : /\ heard[i].lookup = "complete"
                                    /\ heard[i].replies # <<>> /\ Good(heard[i].replies[1])
                                    /\ target.dnssec => heard[i].keys.records # {}
         /\ ~Disagreement
    /\ (\E i \in DOMAIN heard : ~Authoritative(heard[i])) => nsState.status = "failed"
=============================================================================
