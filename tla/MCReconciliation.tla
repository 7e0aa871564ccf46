-------------------------- MODULE MCReconciliation --------------------------
(* Model checking of Reconciliation: a registered tenant and the Zyla tenant.
   Two billing events pay the tenant; a provider name with a colon in it gives
   them the same ledger reference, so the second one is refused. *)
EXTENDS Reconciliation

CONSTANTS t1, zyla, e1, e2

MCOpeningCredits == [t \in Tenants |-> IF t = zyla THEN 1 ELSE 2]
MCEventTenant == [e \in Events |-> t1]
MCEventCredits == [e \in Events |-> IF e = e2 THEN 2 ELSE 1]
MCReference == [e \in Events |-> "ref12"]
=============================================================================
