------------------------------ MODULE PlanScope ------------------------------
(***************************************************************************)
(* Saved Terraform plans of the showcase, and the two reviewers that read  *)
(* them before an apply: scripts/showcase-plan-scope.py (one scope per     *)
(* lifecycle step) and the plan checks of scripts/aws-smsv2-uat-preflight  *)
(* .sh.  A resource address stands for a group of Terraform resources that *)
(* are created and deleted together; the value of an address is the part   *)
(* of its configuration the lifecycle tells apart.                         *)
(***************************************************************************)
EXTENDS Naturals, FiniteSets

CONSTANTS
  AwsSites,    \* keys of the AWS Customer Edge sites ("01", "02", "03")
  KvmSite,     \* the single on-premises KVM site
  AzureSites   \* keys of the Azure Customer Edge sites

ASSUME SitesAssumption ==
  /\ IsFiniteSet(AwsSites) /\ AwsSites # {}
  /\ IsFiniteSet(AzureSites) /\ AzureSites # {}
  /\ KvmSite \notin AwsSites \cup AzureSites
  /\ AwsSites \cap AzureSites = {}

Sites == AwsSites \cup {KvmSite} \cup AzureSites

------------------------------------------------------------------------------
(* Addresses: a kind and the site it belongs to, "root" for shared objects. *)
Site(s)     == <<"site", s>>
Approval(s) == <<"approval", s>>
AwsNetwork  == <<"aws_network", "root">>   \* VPC, ENIs, IAM, load balancer
AwsTgw      == <<"aws_tgw", "root">>       \* TGW, Connect peers, F5 BGP
KvmBgp      == <<"kvm_bgp", "root">>       \* xcsh_bgp.onprem_ebgp
KvmLan      == <<"kvm_lan", "root">>       \* inside VIP: vsite, pool, LB, SLI
AzureHub    == <<"azure_hub", "root">>     \* resource group, VNet, FRR, ILB

AwsAddresses ==
  {AwsNetwork, AwsTgw} \cup {Site(s) : s \in AwsSites}
                       \cup {Approval(s) : s \in AwsSites}
KvmAddresses == {Site(KvmSite), Approval(KvmSite), KvmBgp, KvmLan}
AzureAddresses ==
  {AzureHub} \cup {Site(s) : s \in AzureSites}
             \cup {Approval(s) : s \in AzureSites}
Addresses == AwsAddresses \cup KvmAddresses \cup AzureAddresses
Approvals == {Approval(s) : s \in Sites}

(* "bootstrap"/"final" name the two AWS site generations; "unbound"/"bound" *)
(* an Azure site without and with hardware MACs; "drifted" any object whose *)
(* live attributes differ from the configuration.                          *)
Values == {"absent", "present", "bootstrap", "final", "unbound", "bound",
           "drifted"}
Estates == [Addresses -> Values]
NoEstate == [a \in Addresses |-> "absent"]
Held(estate) == {a \in Addresses : estate[a] # "absent"}

------------------------------------------------------------------------------
(* The variables of a plan: -var arguments over the private tfvars.         *)
Configs == [aws     : {"bootstrap", "bootstrap_retirement", "configured"},
            tgw     : BOOLEAN,                    \* enable_aws_tgw_connect
            azure   : BOOLEAN,                    \* enable_azure(_ilb)
            azphase : {"bootstrap", "configured"},
            approve : BOOLEAN,                    \* approve_registration
            lan     : {"disabled", "hardware", "configured"}]

Outputs == {"kvm_runtime_status", "aws_site_upgrade_status"}

(* What `terraform show -json` tells of a saved plan.  The digest of a plan *)
(* file is modelled by the plan itself: equal digests are equal plans.      *)
Plans == [cfg    : Configs,
          before : Estates,            \* refreshed prior state
          after  : Estates,
          drift  : SUBSET Addresses,   \* resource_drift
          online : SUBSET Sites,       \* data xcsh_site_registration, ONLINE
          outs   : SUBSET Outputs]     \* output_changes

Changes(p) == {a \in Addresses : p.before[a] # p.after[a]}

(* change.actions of one address.  A site resource that moves between the   *)
(* bootstrap and the final name cannot be updated in place.                 *)
Action(p, a) ==
  CASE p.before[a] = "absent" -> "create"
    [] p.after[a] = "absent" -> "delete"
    [] {p.before[a], p.after[a]} = {"bootstrap", "final"} -> "replace"
    [] OTHER -> "update"

With(p, acts) == {a \in Changes(p) : Action(p, a) \in acts}
Deleted(p) == With(p, {"delete"})
Created(p) == With(p, {"create"})

(* prior_managed_addresses *)
Managed(p) == Held(p.before)

(* FULL_FLAGS: every path of the showcase enabled.  The KVM and BGP flags   *)
(* come from the tfvars and are never overridden by the lifecycle, except   *)
(* by a destroy, which needs no flag.                                       *)
FullFlags(p) == p.cfg.azure /\ p.cfg.tgw
HardwareStage(p) == ~p.cfg.azure /\ p.cfg.lan = "hardware"

AzureSiteUpdates(p) ==
  {Site(s) : s \in AzureSites} \cap With(p, {"update"})

------------------------------------------------------------------------------
(* showcase-plan-scope.py, one predicate per scope.                         *)
AwsKvmBuild(p) ==
  /\ HardwareStage(p)
  /\ Changes(p) # {}
  /\ Changes(p) \subseteq AwsAddresses \cup KvmAddresses
  /\ With(p, {"create", "update", "delete"}) = Changes(p)

AwsKvmZero(p) == Changes(p) = {} /\ p.outs = {} /\ HardwareStage(p)

(* Mutant: the status scopes expect the stage of the LAN configuration.      *)
StatusRefreshMutant(p, out) ==
  Changes(p) = {} /\ p.outs = {out} /\ p.cfg.lan = "configured"

StatusRefresh(p, out) == Changes(p) = {} /\ p.outs = {out} /\ HardwareStage(p)

RefreshOnly(p) ==
  /\ Changes(p) = {} /\ p.outs = {}
  /\ \E a \in {AwsNetwork, Site(KvmSite)} : p.drift = {a}

KvmConfigured(p) ==
  /\ ~p.cfg.azure /\ p.cfg.lan = "configured"
  /\ Changes(p) # {}
  /\ Changes(p) \subseteq KvmAddresses
  /\ With(p, {"create", "update", "delete"}) = Changes(p)

AzureBuild(p) ==
  /\ p.cfg.azure /\ p.cfg.lan = "configured"
  /\ Changes(p) # {}
  /\ Changes(p) \subseteq AzureAddresses
  /\ With(p, {"create", "update"}) = Changes(p)

(* validate_azure_site_bindings: the update binds all three interfaces.     *)
AzureBindings(p) ==
  /\ p.cfg.azphase = "configured"
  /\ Changes(p) # {}
  /\ Changes(p) = AzureSiteUpdates(p)
  /\ \A a \in Changes(p) : p.after[a] = "bound"

AzureApprovalCreates(p) ==
  {Approval(s) : s \in AzureSites} \cap Created(p)

AzureApprovals(p) ==
  /\ FullFlags(p) /\ p.cfg.lan = "configured"
  /\ Cardinality(AzureApprovalCreates(p)) = Cardinality(AzureSites)
  /\ Changes(p) \ AzureApprovalCreates(p) \subseteq AzureSiteUpdates(p)

AzureConverge(p) ==
  /\ Changes(p) # {} /\ FullFlags(p)
  /\ Changes(p) \subseteq AzureAddresses
  /\ With(p, {"update"}) = Changes(p)

ZeroChange(p) ==
  /\ Changes(p) = {} /\ p.outs = {}
  /\ FullFlags(p) /\ p.cfg.lan = "configured"

(* The complete prior state is deleted, and nothing else happens.           *)
FullDestroy(p) ==
  /\ Changes(p) # {}
  /\ Changes(p) = Managed(p)
  /\ Deleted(p) = Changes(p)

ScopePermits(scope, p) ==
  CASE scope = "aws-kvm-build" -> AwsKvmBuild(p)
    [] scope = "aws-kvm-zero" -> AwsKvmZero(p)
    [] scope = "kvm-status-output-refresh" ->
         StatusRefresh(p, "kvm_runtime_status")
    [] scope = "aws-status-output-refresh" ->
         StatusRefresh(p, "aws_site_upgrade_status")
    [] scope = "refresh-only" -> RefreshOnly(p)
    [] scope = "kvm-configured" -> KvmConfigured(p)
    [] scope = "azure-build" -> AzureBuild(p)
    [] scope = "azure-bindings" -> AzureBindings(p)
    [] scope = "azure-approvals" -> AzureApprovals(p)
    [] scope = "azure-converge" -> AzureConverge(p)
    [] scope = "zero-change" -> ZeroChange(p)
    [] scope = "full-destroy" -> FullDestroy(p)
    [] OTHER -> FALSE

------------------------------------------------------------------------------
(* aws-smsv2-uat-preflight.sh                                               *)
ApprovalCreates(p, ss) == {s \in ss : Approval(s) \in Created(p)}

(* Bootstrap creates every site, or approves every AWS registration along   *)
(* with three KVM ones.  The shape that recreates tokens and instances of   *)
(* unchanged sites has no counterpart here: a site is one address.          *)
BootstrapShape(p) ==
  \/ {s \in AwsSites : Site(s) \in Created(p)} = AwsSites
  \/ /\ Cardinality(ApprovalCreates(p, AwsSites)) = Cardinality(AwsSites)
     /\ Cardinality(ApprovalCreates(p, {KvmSite})) = 3

RetirementShape(p) ==
  /\ Deleted(p) = Changes(p)
  /\ Changes(p) \subseteq {Site(s) : s \in AwsSites} \cup Approvals
  /\ {s \in AwsSites : Site(s) \in Changes(p)} = AwsSites

(* Every site identity the plan touches, looked for in three places, must   *)
(* be the exact set of expected sites.                                      *)
SiteIdentities(p) ==
  LET direct == {s \in AwsSites :
                   Site(s) \in With(p, {"create", "update", "replace"})}
      keyed  == {s \in AwsSites : Approval(s) \in Changes(p)}
  IN  CASE direct # {} -> direct = AwsSites
        [] direct = {} /\ AwsTgw \notin Changes(p) /\ keyed # {} ->
             keyed = AwsSites
        [] OTHER -> TRUE

(* A planned name that exists already is never adopted; `live` is what      *)
(* aws-smsv2-owned-collision-preflight.sh finds in AWS and F5 XC.  An       *)
(* approval is an action on a registration and has no name to collide.      *)
Colliding(p, live) == {a \in Created(p) \ Approvals : live[a] # "absent"}

(* Mutant: the peer of the KVM site is not among the expected objects.      *)
PreflightLaneMutant(phase, p, live) ==
  /\ Changes(p) \subseteq (AwsAddresses \cup KvmAddresses) \ {KvmLan, KvmBgp}
  /\ phase = "bootstrap" => BootstrapShape(p)
  /\ phase = "bootstrap_retirement" => RetirementShape(p)
  /\ phase # "bootstrap_retirement" =>
        SiteIdentities(p) /\ Colliding(p, live) = {}

(* Mutant: the collision check is forgotten.                                *)
PreflightMutant(phase, p, live) ==
  /\ Changes(p) \subseteq (AwsAddresses \cup KvmAddresses) \ {KvmLan}
  /\ phase = "bootstrap" => BootstrapShape(p)
  /\ phase = "bootstrap_retirement" => RetirementShape(p)
  /\ phase # "bootstrap_retirement" => SiteIdentities(p)

Preflight(phase, p, live) ==
  /\ Changes(p) \subseteq (AwsAddresses \cup KvmAddresses) \ {KvmLan}
  /\ phase = "bootstrap" => BootstrapShape(p)
  /\ phase = "bootstrap_retirement" => RetirementShape(p)
  /\ phase # "bootstrap_retirement" =>
        SiteIdentities(p) /\ Colliding(p, live) = {}
=============================================================================
