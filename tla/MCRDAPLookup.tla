---------------------------- MODULE MCRDAPLookup ----------------------------
(* Up to four servers, one of them not to be contacted, two registrar      *)
(* links, and everything two tiers may disagree on.                        *)
EXTENDS RDAPLookup

CONSTANTS rdap1, rdap2, rdap3, rdap4, inside, link1, link2, refer, ns1, ns2, acme

Lists == {<<>>, <<inside>>, <<rdap1>>, <<rdap1, inside, rdap2>>, <<rdap1, rdap2, rdap3, rdap4>>}
Links == {<<>>, <<inside>>, <<link1>>, <<link1, link2>>}
Public == {rdap1, rdap2, rdap3, rdap4, link1, link2, refer}

Tier(expiration, registrar_, nameservers, status) ==
  [expiration |-> expiration, registrar |-> registrar_,
   nameservers |-> nameservers, status |-> status]

SmallTiers ==
  { Tier(300, acme, {ns1}, {"locked"}),
    Tier(20, acme, {ns1}, {}),
    Tier(-1, NoName, {ns1}, {"locked"}),
    Tier(NoDate, acme, {ns2}, {"locked"}),
    Tier(NoDate, NoName, {}, {"hold"}),
    Tier(Garbled, acme, {}, {}),
    Tier(5, NoName, {}, {}) }

SmallConfigs ==
  { [allowExpiry |-> FALSE, nameservers |-> {ns1}, locked |-> TRUE, registrar |-> acme],
    [allowExpiry |-> FALSE, nameservers |-> NoName, locked |-> FALSE, registrar |-> NoName],
    [allowExpiry |-> TRUE, nameservers |-> NoName, locked |-> FALSE, registrar |-> NoName] }
=============================================================================
