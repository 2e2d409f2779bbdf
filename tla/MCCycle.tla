------------------------------ MODULE MCCycle ------------------------------
(* Small portfolios for Cycle: a registrable domain with an email check    *)
(* and a DNS record, and a delegated zone below it.                        *)
EXTENDS Cycle

CONSTANT web

example == <<"example", "com">>
zone == <<"zone", "example", "com">>
www == <<"www", "example", "com">>
wwwZone == <<"www", "zone", "example", "com">>

JustExample == {example}
JustZone == {zone}
ExampleAndZone == {example, zone}
NoDomains == {}

OneRecord == {web}
NoRecords == {}

EmailOnExample == [d \in {example} |-> {"email"}]
EmailOnZone == [d \in {zone} |-> {"email"}]
NoChecksOnBoth == [d \in {example, zone} |-> {}]

WebOnExample == [r \in {web} |-> www]
WebOnZone == [r \in {web} |-> wwwZone]
NoHosts == [r \in {} |-> www]
=============================================================================
