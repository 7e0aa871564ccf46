---------------------------- MODULE MCLeadStore ----------------------------
(* Model checking of LeadStore.  Two records are of one company, whose domain
   is given as a host or in a URL, and put different persons in one job; the
   others have the same job title at another company, or no domain. *)
EXTENDS LeadStore

CONSTANTS acme, other, ann, bob, cfo

Host(h) == [host |-> h, url |-> FALSE]
Url(h) == [host |-> h, url |-> TRUE]
\* Only bob has an address, named like him.
Person(p) == [person |-> p, email |-> IF p = bob THEN bob ELSE NoValue, title |-> cfo]

AcmeAnn == [name |-> acme, domain |-> Host(acme), contact |-> Person(ann)]
AcmeBob == [name |-> acme, domain |-> Url(acme), contact |-> Person(bob)]
OtherAnn == [name |-> other, domain |-> Host(other), contact |-> Person(ann)]
Nameless == [name |-> other, domain |-> NoValue, contact |-> NoValue]

MCProviderRecords == {AcmeAnn, AcmeBob, OtherAnn, Nameless}

\* The provider gives each domain as a host, and replaces ann by bob.
MCHostRecords == {AcmeAnn, [AcmeBob EXCEPT !.domain = Host(acme)]}
=============================================================================
