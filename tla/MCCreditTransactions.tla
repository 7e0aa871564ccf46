------------------------ MODULE MCCreditTransactions ------------------------
(* Model checking of CreditTransactions: a registered tenant and the Zyla
   tenant.  Of the events, e1, e2 and e4 pay the tenant and e3 the Zyla tenant;
   their references differ, and the one of e4 is too long. *)
EXTENDS CreditTransactions

CONSTANTS t1, zyla, e1, e2, e3, e4

MCOpeningCredits == [t \in Tenants |-> IF t = zyla THEN 1 ELSE 2]
MCEventTenant == [e \in Events |-> IF e = e3 THEN zyla ELSE t1]
MCEventCredits == [e \in Events |-> IF e = e2 THEN 2 ELSE 1]
MCReference == [e \in Events |-> IF e = e1 THEN "ref1" ELSE IF e = e2 THEN "ref2" ELSE IF e = e3 THEN "ref3" ELSE "ref4"]
=============================================================================
