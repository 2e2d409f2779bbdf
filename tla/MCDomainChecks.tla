--------------------------- MODULE MCDomainChecks ---------------------------
(* Domains with one or two kinds of check, so that every check meets every *)
(* answer and every two of them meet each other.                           *)
EXTENDS DomainChecks, TLC

CONSTANTS a, b, c, k1, k2, s1, s2

Email(provider, expected, selectors) ==
  [provider |-> provider, mx |-> expected, selectors |-> selectors]
Plain == Email(NoProvider, {}, {})
Host(name, hidden) == [hostname |-> name, hidden |-> hidden]
One == <<Host(a, FALSE)>>
Two == <<Host(a, FALSE), Host(b, FALSE)>>
WithHidden == <<Host(a, FALSE), Host(b, TRUE)>>

Domain(labels, root, email, servers, dnssec) ==
  [labels |-> labels, rootZone |-> root, email |-> email,
   nameservers |-> servers, dnssec |-> dnssec]

MCWritten ==
  {Domain(n, 0, Plain, <<>>, FALSE) : n \in {2, 3, 4, 5}}
  \cup {Domain(1, 0, email, <<>>, FALSE) :
          email \in {Email("hosted", {}, {}), Email("hosted", {}, {s1}),
                     Email("elsewhere", {}, {s1}), Email(NoProvider, {a, b}, {s1, s2}),
                     Email("hosted", {a}, {})}}
  \cup {Domain(2, 0, NoEmail, servers, dnssec) :
          servers \in {<<>>, Two, One}, dnssec \in BOOLEAN}
  \cup {Domain(3, 2, NoEmail, servers, FALSE) :
          servers \in {<<>>, Two, WithHidden, <<Host(a, FALSE), Host(a, TRUE)>>,
                       <<Host(a, TRUE)>>}}
  \cup {Domain(2, 2, NoEmail, One, FALSE), Domain(3, 2, NoEmail, <<>>, TRUE),
        Domain(1, 0, Plain, One, FALSE)}

MCProviders == [hosted |-> [mx |-> {a}, selectors |-> {s2}]]
MCMXAnswers == SUBSET {a, c}
MCPolicyAnswers == {{}, {"u"}, {"y"}, {"n"}, {"malformed"}, {"u", "n"}, {"y", "malformed"}}
MCReferrals == {<<>>, <<a>>, <<b>>, <<a, b>>, <<c, a>>, <<a, a>>}

\* A domain with several checks meets fewer answers to each.
Single(t) == ~t.dnssec /\ t.email = NoEmail /\ t.rootZone = 0
MCAddressCounts(t) == IF Single(t) THEN {1, 3} ELSE {1}
MCDSAnswers(t) == IF t.nameservers = <<>> THEN SUBSET {k1, k2} ELSE {{k1}}
MCNSKeyAnswers == {{}, {k1}, {k1, k2}}
=============================================================================
