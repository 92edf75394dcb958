--------------------------- MODULE RegistrationGate ---------------------------
(***************************************************************************)
(* scripts/showcase-registration-gate.py: the verdict on a saved probe     *)
(* plan, made while the lifecycle waits for Customer Edge registrations.   *)
(* A site counts when its registration is ONLINE or when the plan creates  *)
(* its approval.                                                           *)
(***************************************************************************)
EXTENDS PlanScope

(* Registrations the data sources of the plan report as found and ONLINE.   *)
GateOnline(p, ss) == p.online \cap ss

(* Approvals the plan creates; other changes of the plan are only counted.  *)
GateApprovals(p, ss) == ApprovalCreates(p, ss)

Covered(p, ss) == GateOnline(p, ss) \cup GateApprovals(p, ss)

(* Mutant: the gate opens one AWS site too early.                           *)
GateReadyMutant(p, aws, kvm) ==
  /\ Cardinality(Covered(p, AwsSites)) + 1 >= aws
  /\ IF kvm = 0 THEN GateApprovals(p, {KvmSite}) = {}
                ELSE Cardinality(Covered(p, {KvmSite})) = kvm

GateReady(p, aws, kvm) ==
  /\ Cardinality(Covered(p, AwsSites)) = aws
  /\ IF kvm = 0 THEN GateApprovals(p, {KvmSite}) = {}
                ELSE Cardinality(Covered(p, {KvmSite})) = kvm

ApprovalCount(p) == Cardinality(GateApprovals(p, AwsSites \cup {KvmSite}))

(* The two ways the gate refuses a plan instead of asking for another poll: *)
(* an approval for a registration that is already ONLINE, and actions left  *)
(* in a plan that needs no approval.                                        *)
GateError(p, aws, kvm) ==
  \/ GateOnline(p, AwsSites \cup {KvmSite})
       \cap GateApprovals(p, AwsSites \cup {KvmSite}) # {}
  \/ GateReady(p, aws, kvm) /\ ApprovalCount(p) = 0 /\ Changes(p) # {}
=============================================================================
