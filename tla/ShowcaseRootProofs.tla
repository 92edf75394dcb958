-------------------------- MODULE ShowcaseRootProofs --------------------------
(***************************************************************************)
(* Lemmas about the operators of PlanScope and ShowcaseRoot: what a plan   *)
(* and an apply return, and which objects a reviewed plan may touch.       *)
(***************************************************************************)
EXTENDS ShowcaseRoot, TLAPS

------------------------------------------------------------------------------
(* Types.                                                                   *)

(* The estate a configuration wants gives every address a value.            *)
LEMMA WantedType ==
  ASSUME NEW cfg, NEW reg
  PROVE  Wanted(cfg, reg) \in Estates
<1> DEFINE w == Wanted(cfg, reg)
<1>1. ASSUME NEW a \in AwsAddresses PROVE WantedAws(cfg, reg)[a] \in Values
  BY <1>1 DEF WantedAws, Values
<1>2. ASSUME NEW a \in KvmAddresses PROVE WantedKvm(cfg, reg)[a] \in Values
  BY <1>2 DEF WantedKvm, Values
<1>3. ASSUME NEW a \in AzureAddresses
      PROVE  WantedAzure(cfg, reg)[a] \in Values
  BY <1>3 DEF WantedAzure, Values
<1>4. ASSUME NEW a \in Addresses PROVE w[a] \in Values
  BY <1>1, <1>2, <1>3, <1>4 DEF Wanted, Addresses
<1> QED BY <1>4 DEF Wanted, Estates

(* A refresh gives every address a value.                                   *)
LEMMA RefreshedType ==
  ASSUME NEW state \in Estates, NEW cloud \in Estates
  PROVE  Refreshed(state, cloud) \in Estates
BY DEF Refreshed, Estates, Values

LEMMA NoEstateType == NoEstate \in Estates
BY DEF NoEstate, Estates, Values

(* A plan to any target estate is a plan.                                   *)
LEMMA PlanToType ==
  ASSUME NEW cfg \in Configs, NEW target \in Estates, NEW state \in Estates,
         NEW cloud \in Estates, NEW reg, NEW outs \in SUBSET Outputs
  PROVE  PlanTo(cfg, target, state, cloud, reg, outs) \in Plans
<1>1. Refreshed(state, cloud) \in Estates
  BY RefreshedType
<1>2. Drifted(state, cloud) \subseteq Addresses
  BY DEF Drifted
<1>3. OnlineSites(reg) \subseteq Sites
  BY DEF OnlineSites
<1> QED BY <1>1, <1>2, <1>3 DEF PlanTo, Plans

(* The parts of a plan.                                                     *)
LEMMA PlanParts ==
  ASSUME NEW p \in Plans
  PROVE  /\ p.before \in Estates /\ p.after \in Estates
         /\ Changes(p) \subseteq Addresses
BY DEF Plans, Changes

(* What an apply leaves in the state and in the clouds are estates.         *)
LEMMA ApplyType ==
  ASSUME NEW p \in Plans, NEW cloud \in Estates, NEW part
  PROVE  /\ StateAfter(p, part) \in Estates
         /\ CloudAfter(p, part, cloud) \in Estates
BY PlanParts DEF StateAfter, CloudAfter, Estates

(* An apply leaves every registration in a known state.                     *)
LEMMA RegAfterType ==
  ASSUME NEW p, NEW part, NEW reg \in [Sites -> RegStates]
  PROVE  RegAfter(p, part, reg) \in [Sites -> RegStates]
BY DEF RegAfter, RegStates

------------------------------------------------------------------------------
(* What a reviewed plan may touch, one lemma per family of scopes.          *)

(* The Azure addresses are apart from the others.                           *)
LEMMA AzureApart == AzureAddresses \cap (AwsAddresses \cup KvmAddresses) = {}
<1>1. AzureAddresses \cap AwsAddresses = {}
  BY SitesAssumption
  DEF AzureAddresses, AwsAddresses, AzureHub, AwsNetwork, AwsTgw, Site, Approval
<1>2. AzureAddresses \cap KvmAddresses = {}
  BY SitesAssumption
  DEF AzureAddresses, KvmAddresses, AzureHub, KvmBgp, KvmLan, Site, Approval
<1> QED BY <1>1, <1>2

(* A changed address that was absent is created, one that will be absent is *)
(* deleted.                                                                 *)
LEMMA ActionOfChange ==
  ASSUME NEW p \in Plans, NEW a \in Changes(p)
  PROVE  /\ p.before[a] = "absent" <=> Action(p, a) = "create"
         /\ p.after[a] = "absent" <=> Action(p, a) = "delete"
BY DEF Action, Changes

(* A plan that only updates neither creates nor deletes.                    *)
LEMMA UpdatesKeep ==
  ASSUME NEW p \in Plans, NEW a \in With(p, {"update"})
  PROVE  a \in Changes(p) /\ p.before[a] # "absent" /\ p.after[a] # "absent"
BY ActionOfChange DEF With

(* Every scope of the Azure steps keeps to Azure and deletes nothing.       *)
LEMMA AzureScopes ==
  ASSUME NEW p \in Plans,
         \/ AzureBuild(p) \/ AzureBindings(p)
         \/ AzureApprovals(p) \/ AzureConverge(p),
         NEW a \in Changes(p)
  PROVE  a \in AzureAddresses /\ p.after[a] # "absent"
<1>1. AzureSiteUpdates(p) \subseteq AzureAddresses \cap With(p, {"update"})
  BY DEF AzureSiteUpdates, AzureAddresses
<1>2. \A b \in AzureApprovalCreates(p) :
         b \in AzureAddresses /\ p.after[b] # "absent"
  BY DEF AzureApprovalCreates, AzureAddresses, Created, With, Changes, Action
<1>3. CASE AzureBuild(p)
  BY <1>3, ActionOfChange DEF AzureBuild, With
<1>4. CASE AzureBindings(p)
  BY <1>4, <1>1, UpdatesKeep DEF AzureBindings
<1>5. CASE AzureApprovals(p)
  BY <1>5, <1>1, <1>2, UpdatesKeep DEF AzureApprovals
<1>6. CASE AzureConverge(p)
  BY <1>6, UpdatesKeep DEF AzureConverge
<1> QED BY <1>3, <1>4, <1>5, <1>6

(* A full destroy creates nothing.                                          *)
LEMMA DestroyScope ==
  ASSUME NEW p \in Plans, FullDestroy(p), NEW a \in Changes(p)
  PROVE  p.before[a] # "absent"
BY ActionOfChange DEF FullDestroy, Deleted, With

------------------------------------------------------------------------------
(* The objects of an estate around a plan and an apply.                     *)

(* A refresh neither finds nor loses an object whose existence the state    *)
(* and the clouds agree on.                                                 *)
LEMMA RefreshedHeld ==
  ASSUME NEW state \in Estates, NEW cloud \in Estates,
         Held(state) \subseteq Held(cloud)
  PROVE  Held(Refreshed(state, cloud)) = Held(state)
BY DEF Held, Refreshed

(* An apply that completes a part of its plan creates and deletes only what *)
(* the plan does, in the state.                                             *)
LEMMA StateHeld ==
  ASSUME NEW p \in Plans, NEW part \in SUBSET Changes(p),
         NEW state \in Estates, Held(p.before) = Held(state)
  PROVE  /\ \A a \in Held(StateAfter(p, part)) \ Held(state) :
              a \in Changes(p) /\ p.before[a] = "absent"
         /\ \A a \in Held(state) \ Held(StateAfter(p, part)) :
              a \in Changes(p) /\ p.after[a] = "absent"
BY DEF Held, StateAfter

(* The same in the clouds, where `part` may also hold objects that do not   *)
(* reach the state.                                                         *)
LEMMA CloudHeld ==
  ASSUME NEW p \in Plans, NEW part \in SUBSET Changes(p),
         NEW cloud \in Estates, Held(p.before) \subseteq Held(cloud)
  PROVE  /\ \A a \in Held(CloudAfter(p, part, cloud)) \ Held(cloud) :
              a \in Changes(p) /\ p.before[a] = "absent"
         /\ \A a \in Held(cloud) \ Held(CloudAfter(p, part, cloud)) :
              a \in Changes(p) /\ p.after[a] = "absent"
BY PlanParts DEF Held, CloudAfter, Estates

(* After an apply the clouds still hold all the state knows.                *)
LEMMA ApplyCovers ==
  ASSUME NEW p \in Plans, NEW part \in SUBSET Changes(p),
         NEW orphan \in SUBSET Created(p),
         NEW state \in Estates, NEW cloud \in Estates,
         Held(p.before) = Held(state), Held(state) \subseteq Held(cloud)
  PROVE  Held(StateAfter(p, part))
           \subseteq Held(CloudAfter(p, part \cup orphan, cloud))
<1>1. \A a \in orphan : p.after[a] # "absent"
  BY ActionOfChange DEF Created, With
<1> QED BY <1>1 DEF Held, StateAfter, CloudAfter

(* ... and every site with a registration still exists.                     *)
LEMMA ApplyRegistered ==
  ASSUME NEW p \in Plans, NEW part \in SUBSET Changes(p),
         NEW orphan \in SUBSET Created(p),
         NEW cloud \in Estates, NEW reg \in [Sites -> RegStates],
         \A s \in Sites : reg[s] # "none" => Site(s) \in Held(cloud),
         NEW s \in Sites, RegAfter(p, part, reg)[s] # "none"
  PROVE  Site(s) \in Held(CloudAfter(p, part \cup orphan, cloud))
<1>1. \A a \in orphan : p.after[a] # "absent"
  BY ActionOfChange DEF Created, With
<1>2. Site(s) \in Addresses
  BY DEF Sites, Addresses, AwsAddresses, KvmAddresses, AzureAddresses
<1>3. CASE Site(s) \in part
  <2>1. Action(p, Site(s)) = "update"
    BY <1>3 DEF RegAfter
  <2>2. p.after[Site(s)] # "absent"
    BY <1>3, <2>1, ActionOfChange
  <2> QED BY <1>2, <1>3, <2>2 DEF Held, CloudAfter
<1>4. CASE Site(s) \notin part
  <2>1. reg[s] # "none"
    BY <1>4 DEF RegAfter
  <2> QED BY <1>1, <1>2, <1>4, <2>1 DEF Held, CloudAfter
<1> QED BY <1>3, <1>4
=============================================================================
