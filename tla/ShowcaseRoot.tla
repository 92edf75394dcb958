----------------------------- MODULE ShowcaseRoot -----------------------------
(***************************************************************************)
(* The Terraform root of the showcase as the lifecycle sees it: what a     *)
(* configuration wants (terraform/*.tf), what `terraform plan` computes    *)
(* from it, and what `terraform apply` of a saved plan leaves behind.      *)
(* Terraform itself is external; its rules are those the scripts rely on.  *)
(***************************************************************************)
EXTENDS RegistrationGate

(* xcsh_site_registration: no registration yet, waiting for an approval,    *)
(* approved but not yet admitted, admitted.                                 *)
RegStates == {"none", "NEW", "APPROVED", "ONLINE"}

------------------------------------------------------------------------------
(* What a configuration wants, given the registrations the data sources see.*)
WantedAws(cfg, reg) ==
  LET site == CASE cfg.aws = "bootstrap" -> "bootstrap"
                [] cfg.aws = "configured" -> "final"
                [] OTHER -> "absent"
  IN  [a \in AwsAddresses |->
         CASE a = AwsNetwork -> "present"
           [] a = AwsTgw -> IF cfg.tgw THEN "present" ELSE "absent"
           [] \E s \in AwsSites : a = Site(s) -> site
           [] OTHER -> IF site # "absent" /\ reg[a[2]] = "NEW"
                         THEN "present" ELSE "absent"]

WantedKvm(cfg, reg) ==
  [a \in KvmAddresses |->
     CASE a = Approval(KvmSite) /\ reg[KvmSite] # "NEW" -> "absent"
       [] a = KvmBgp /\ cfg.aws # "configured" -> "absent"
       [] a = KvmLan /\ cfg.lan # "configured" -> "absent"
       [] OTHER -> "present"]

(* An Azure approval is kept in every state of a registration after the     *)
(* first, while an AWS or KVM one exists only as long as it is NEW.         *)
WantedAzure(cfg, reg) ==
  [a \in AzureAddresses |->
     IF ~cfg.azure THEN "absent" ELSE
     CASE a = AzureHub -> "present"
       [] \E s \in AzureSites : a = Site(s) ->
            IF cfg.azphase = "configured" THEN "bound" ELSE "unbound"
       [] OTHER ->
            IF /\ cfg.azphase = "configured" /\ cfg.approve
               /\ reg[a[2]] # "none"
              THEN "present" ELSE "absent"]

Wanted(cfg, reg) ==
  [a \in Addresses |->
     CASE a \in AwsAddresses -> WantedAws(cfg, reg)[a]
       [] a \in KvmAddresses -> WantedKvm(cfg, reg)[a]
       [] OTHER -> WantedAzure(cfg, reg)[a]]

------------------------------------------------------------------------------
(* terraform plan: refresh what the state knows, compare with the target.   *)
Refreshed(state, cloud) ==
  [a \in Addresses |-> IF state[a] = "absent" THEN "absent" ELSE cloud[a]]

Drifted(state, cloud) ==
  {a \in Addresses : state[a] # "absent" /\ state[a] # cloud[a]}

OnlineSites(reg) == {s \in Sites : reg[s] = "ONLINE"}

(* `target` is the estate after the apply.  An output is in output_changes  *)
(* when the value the data sources give now differs from the stored one.    *)
PlanTo(cfg, target, state, cloud, reg, outs) ==
  [cfg |-> cfg, before |-> Refreshed(state, cloud), after |-> target,
   drift |-> Drifted(state, cloud), online |-> OnlineSites(reg),
   outs |-> outs]

PlanFor(cfg, state, cloud, reg, outs) ==
  PlanTo(cfg, Wanted(cfg, reg), state, cloud, reg, outs)

(* terraform plan -destroy and terraform plan -refresh-only                 *)
DestroyPlanFor(cfg, state, cloud, reg) ==
  PlanTo(cfg, NoEstate, state, cloud, reg, {})
RefreshPlanFor(cfg, state, cloud, reg, outs) ==
  PlanTo(cfg, Refreshed(state, cloud), state, cloud, reg, outs)

------------------------------------------------------------------------------
(* terraform apply of a saved plan that completes the changes in `part`.    *)
StateAfter(p, part) ==
  [a \in Addresses |-> IF a \in part THEN p.after[a] ELSE p.before[a]]

CloudAfter(p, part, cloud) ==
  [a \in Addresses |-> IF a \in part THEN p.after[a] ELSE cloud[a]]

(* A new site has not registered; a deleted one no longer is; an approval   *)
(* moves a NEW registration on.  Mutant: to a state the data source does    *)
(* not know.                                                                *)
RegAfterMutant(p, part, reg) ==
  [s \in Sites |->
     IF Site(s) \in part /\ Action(p, Site(s)) # "update" THEN "none"
     ELSE IF Approval(s) \in part /\ reg[s] = "NEW" THEN "ADMITTED"
     ELSE reg[s]]

RegAfter(p, part, reg) ==
  [s \in Sites |->
     IF Site(s) \in part /\ Action(p, Site(s)) # "update" THEN "none"
     ELSE IF /\ Approval(s) \in part /\ Action(p, Approval(s)) = "create"
             /\ reg[s] = "NEW"
            THEN "APPROVED" ELSE reg[s]]

(* The runtime data sources an apply waits for: the Connect peers need every *)
(* AWS interface healthy, the KVM peer needs the KVM site ONLINE.            *)
(* Mutant: the Connect peers wait for nobody.                               *)
AwaitedSitesMutant(p) == IF KvmBgp \in Created(p) THEN {KvmSite} ELSE {}

AwaitedSites(p) ==
  (IF AwsTgw \in Created(p) THEN AwsSites ELSE {})
    \cup (IF KvmBgp \in Created(p) THEN {KvmSite} ELSE {})
=============================================================================
