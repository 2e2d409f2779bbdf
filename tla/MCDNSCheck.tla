----------------------------- MODULE MCDNSCheck -----------------------------
(* Five endpoints, one of them configured under two names, and checks of   *)
(* every kind of record.                                                   *)
EXTENDS DNSCheck

CONSTANTS r1, r1dup, r2, r3, r4, www, edge, ip1, ip2, ip6, spf, note, ca, mail

Endpoints ==
  [r \in {r1, r1dup, r2, r3, r4} |->
     CASE r \in {r1, r1dup} -> "e1" [] r = r2 -> "e2" [] r = r3 -> "e3"
       [] r = r4 -> "e4"]

Lists == {<<r1>>, <<r1, r1dup>>, <<r1, r1dup, r2>>, <<r1, r1dup, r2, r3, r4>>}

Names == {www, edge}

Data_ == [q \in {"A", "AAAA", "CNAME", "TXT", "CAA"} |->
           CASE q = "A" -> {ip1, ip2} [] q = "AAAA" -> {ip6} [] q = "CNAME" -> {edge}
             [] q = "TXT" -> {spf, note} [] q = "CAA" -> {ca, mail}]

\* Records of a host; TXT and CAA data come with addresses.
Holds(a, aaaa, cname) ==
  [q \in DOMAIN Data_ |->
     CASE q = "A" -> a [] q = "AAAA" -> aaaa [] q = "CNAME" -> cname
       [] q = "TXT" -> IF a = {} THEN {} ELSE {spf}
       [] q = "CAA" -> IF a = {} THEN {ca} ELSE {ca, mail}]

Web == {NoName, Holds({}, {}, {}), Holds({ip1}, {}, {}), Holds({ip1}, {ip6}, {}),
        Holds({ip1}, {}, {edge})}
Edge == {NoName, Holds({ip1}, {}, {})}
SmallZones == {[h \in Names |-> IF h = www THEN w ELSE e] : w \in Web, e \in Edge}

Task(type, expected, match, custom) ==
  [host |-> www, type |-> type, expected |-> expected, match |-> match,
   custom |-> custom, domainCAA |-> type = "CAA"]

SmallTasks ==
  { Task("A", <<ip1, ip2>>, "any_of", NoResolver),
    Task("IP", <<ip1>>, "exact", NoResolver),
    Task("IP", <<>>, "exact", NoResolver),
    Task("IP", <<>>, "any_of", NoResolver),
    Task("CNAME", <<edge>>, "exact", NoResolver),
    Task("CNAME", <<>>, "exact", NoResolver),
    Task("ALIAS", <<edge, ip6>>, "exact", NoResolver),
    Task("ALIAS", <<edge>>, "exact", r4),
    Task("TXT", <<spf>>, "text", NoResolver),
    Task("CAA", <<ca>>, "exact", NoResolver) }

AbsenceTask == { Task("A", <<>>, "exact", NoResolver) }

Fitting == {<<spf, spf>>}
Tags == [v \in {ca, mail} |-> v]
=============================================================================
