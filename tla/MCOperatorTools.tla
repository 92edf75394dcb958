----------------------------- MODULE MCOperatorTools -----------------------------
(***************************************************************************)
(* The programs an operator runs beside a deployment, and the agents on its  *)
(* routers.  They share no state, so one run takes one after the other:      *)
(* "part" is the program at work, the others stay where they begin.          *)
(***************************************************************************)
EXTENDS AzureFrr, AzureFailover, KvmLan, ReceiptFile, TrafficReceipt, KvmImageCache,
  ProgressRunner, RuntimeObserver, SiteCliHarvest, AwsUpgrade, LegacyDestroy,
  ProviderRelease, InterfaceEvidence, LanClient

VARIABLE part

Parts == {"frr", "failover", "kvm", "receipt", "traffic", "cache", "runner", "observer",
          "harvest", "upgrade", "destroy", "provider", "evidence", "client"}

------------------------------------------------------------------------------
(* Values of the constants *)

(* The domain as reviewed, without the approval, without the -replace option,  *)
(* and on a network of somebody else; the apply will tell which network.     *)
Proposal(bound, approved, change) ==
  [nics |-> <<Nic("unknown", bound, "slo"), Sli>>, approved |-> approved, change |-> change]
MCProposals ==
  {Proposal("owned", TRUE, "replace"), Proposal("owned", FALSE, "replace"),
   Proposal("owned", TRUE, "update"), Proposal("foreign", TRUE, "replace")}

(* NIC tables: as expected with a foreign device; two NICs with one MAC; two  *)
(* MACs on one device; SLO and SLI swapped; one missing.                     *)
MCLayouts ==
  {<<Row("eth0", "slo"), Row("other", "foreign"), Row("eth1", "sli"), Row("eth2", "external")>>,
   <<Row("eth0", "slo"), Row("eth1", "sli"), Row("eth2", "external"), Row("eth2", "sli")>>,
   <<Row("eth0", "slo"), Row("eth1", "sli"), Row("eth1", "external")>>,
   <<Row("eth0", "sli"), Row("eth1", "slo"), Row("eth2", "external")>>,
   <<Row("eth0", "slo"), Row("eth1", "sli")>>}

(* One menu shorter than two pages, one longer.                             *)
MCMenuSize == [m \in Menus |-> IF m = "execcli" THEN 5 ELSE 3]

Invoke(kind, site) == [kind |-> kind, site |-> site, target |-> 2]
UpgradePlan(observed, changes, invokes) ==
  [owned |-> TRUE, awsOnly |-> TRUE, observed |-> observed, changes |-> changes,
   invokes |-> invokes]

(* A one-site action; two actions; an action beside a change; the end of the  *)
(* AWS site; the end of more than that.                                     *)
MCWanted ==
  {UpgradePlan({"01"}, {}, <<Invoke("software", "01")>>),
   UpgradePlan({"01"}, {}, <<Invoke("software", "01"), Invoke("os", "02")>>),
   UpgradePlan({"01"}, {<<"aws", "update">>}, <<Invoke("software", "01")>>),
   UpgradePlan({}, {<<"aws", "delete">>}, <<>>),
   UpgradePlan({}, {<<"aws", "delete">>, <<"other", "delete">>}, <<>>)}

------------------------------------------------------------------------------
(* One of several initial states is enough for a program that is not at work. *)
ToolsInit ==
  /\ part \in Parts
  /\ FrrInit /\ FailoverInit /\ KvmInit /\ ReceiptInit
  /\ TrafficInit /\ (part = "traffic" \/ expected = [s \in Schemes |-> "allow"])
  /\ CacheInit /\ (part = "cache" \/ cached = "none")
  /\ RunnerInit
  /\ ObserverInit
  /\ \/ part = "observer"
     \/ observer = "bgp" /\ session /\ route /\ layout = CHOOSE l \in Layouts : TRUE
  /\ (observer = "nic" \/ layout = CHOOSE l \in Layouts : TRUE)
  /\ HarvestInit /\ UpgradeInit
  /\ LegacyInit /\ (part = "destroy" \/ DOMAIN marks = {})
  /\ ProviderInit /\ EvidenceInit /\ LanClientInit

Rest(p) ==
  /\ IF p = "frr" THEN TRUE ELSE UNCHANGED frrVars
  /\ IF p = "failover" THEN TRUE ELSE UNCHANGED failoverVars
  /\ IF p = "kvm" THEN TRUE ELSE UNCHANGED kvmVars
  /\ IF p = "receipt" THEN TRUE ELSE UNCHANGED receiptVars
  /\ IF p = "traffic" THEN TRUE ELSE UNCHANGED trafficVars
  /\ IF p = "cache" THEN TRUE ELSE UNCHANGED cacheVars
  /\ IF p = "runner" THEN TRUE ELSE UNCHANGED runnerVars
  /\ IF p = "observer" THEN TRUE ELSE UNCHANGED observerVars
  /\ IF p = "harvest" THEN TRUE ELSE UNCHANGED harvestVars
  /\ IF p = "upgrade" THEN TRUE ELSE UNCHANGED upgradeVars
  /\ IF p = "destroy" THEN TRUE ELSE UNCHANGED destroyVars
  /\ IF p = "provider" THEN TRUE ELSE UNCHANGED providerVars
  /\ IF p = "evidence" THEN TRUE ELSE UNCHANGED evidenceVars
  /\ IF p = "client" THEN TRUE ELSE UNCHANGED lanClientVars

Works(p) == part = p /\ UNCHANGED part

ToolsNext ==
  \/ Works("frr") /\ FrrNext /\ Rest("frr")
  \/ Works("failover") /\ FailoverNext /\ Rest("failover")
  \/ Works("kvm") /\ KvmNext /\ Rest("kvm")
  \/ Works("receipt") /\ ReceiptNext /\ Rest("receipt")
  \/ Works("traffic") /\ TrafficNext /\ Rest("traffic")
  \/ Works("cache") /\ CacheNext /\ Rest("cache")
  \/ Works("runner") /\ RunnerNext /\ Rest("runner")
  \/ Works("observer") /\ ObserverNext /\ Rest("observer")
  \/ Works("harvest") /\ HarvestNext /\ Rest("harvest")
  \/ Works("upgrade") /\ UpgradeNext /\ Rest("upgrade")
  \/ Works("destroy") /\ LegacyNext /\ Rest("destroy")
  \/ Works("provider") /\ ProviderNext /\ Rest("provider")
  \/ Works("evidence") /\ EvidenceNext /\ Rest("evidence")
  \/ Works("client") /\ LanClientNext /\ Rest("client")

toolsVars ==
  <<part, frrVars, failoverVars, kvmVars, receiptVars, trafficVars, cacheVars, runnerVars,
    observerVars, harvestVars, upgradeVars, destroyVars, providerVars, evidenceVars,
    lanClientVars>>

ToolsSpec ==
  ToolsInit /\ [][ToolsNext]_toolsVars /\ WF_frrVars(Works("frr") /\ Converge /\ Rest("frr"))

------------------------------------------------------------------------------
(* Every program stays within its types.                                     *)
ToolsTypeOK ==
  /\ part \in Parts
  /\ FrrTypeOK /\ FailoverTypeOK /\ KvmTypeOK /\ ReceiptTypeOK /\ TrafficTypeOK /\ CacheTypeOK
  /\ RunnerTypeOK /\ ObserverTypeOK /\ HarvestTypeOK /\ LegacyTypeOK /\ UpgradeTypeOK
  /\ ProviderTypeOK /\ EvidenceTypeOK /\ LanClientTypeOK

(* RelayFollows of AzureFrr, while the router is the program at work.         *)
RelayCatchesUp == part = "frr" => RelayFollows
=============================================================================
