-------------------------- MODULE ShowcaseBuildProofs --------------------------
(***************************************************************************)
(* Theorems about the stops and the passes of ShowcaseLifecycle, for every *)
(* number of sites, polls, invocations, faults and overwritten plans, from *)
(* the inductive invariant of ShowcaseBuild.                               *)
(***************************************************************************)
EXTENDS ShowcaseBuild, ShowcaseLifecycleProofs

------------------------------------------------------------------------------
(* The addresses of the estate.                                             *)

LEMMA AddressKinds ==
  /\ \A a \in AwsAddresses :
        \/ a = AwsNetwork \/ a = AwsTgw
        \/ \E s \in AwsSites : a = Site(s) \/ a = Approval(s)
  /\ \A a \in KvmAddresses :
        a \in {Site(KvmSite), Approval(KvmSite), KvmBgp, KvmLan}
  /\ \A a \in AzureAddresses :
        a = AzureHub \/ \E s \in AzureSites : a = Site(s) \/ a = Approval(s)
BY DEF AwsAddresses, KvmAddresses, AzureAddresses

LEMMA AddressesOf ==
  /\ AwsNetwork \in AwsAddresses /\ AwsTgw \in AwsAddresses
  /\ \A s \in AwsSites : Site(s) \in AwsAddresses /\ Approval(s) \in AwsAddresses
  /\ Site(KvmSite) \in KvmAddresses /\ Approval(KvmSite) \in KvmAddresses
  /\ KvmBgp \in KvmAddresses /\ KvmLan \in KvmAddresses
  /\ AzureHub \in AzureAddresses
  /\ \A s \in AzureSites :
        Site(s) \in AzureAddresses /\ Approval(s) \in AzureAddresses
  /\ Addresses = AwsAddresses \cup KvmAddresses \cup AzureAddresses
  /\ AwsKvmAddresses = AwsAddresses \cup KvmAddresses
BY DEF AwsAddresses, KvmAddresses, AzureAddresses, Addresses, AwsKvmAddresses

(* No object is of two kinds or of two sites.                               *)
LEMMA ObjectsApart ==
  /\ \A s : /\ Site(s) \notin {AwsNetwork, AwsTgw, KvmBgp, KvmLan, AzureHub}
            /\ Approval(s) \notin {AwsNetwork, AwsTgw, KvmBgp, KvmLan, AzureHub}
  /\ \A s, t : /\ Site(s) # Approval(t)
               /\ Site(s) = Site(t) => s = t
               /\ Approval(s) = Approval(t) => s = t
  /\ AwsNetwork # AwsTgw /\ KvmBgp # KvmLan
  /\ AwsNetwork \notin {KvmBgp, KvmLan, AzureHub}
  /\ AwsTgw \notin {KvmBgp, KvmLan, AzureHub}
  /\ AzureHub \notin {KvmBgp, KvmLan}
BY DEF Site, Approval, AwsNetwork, AwsTgw, KvmBgp, KvmLan, AzureHub

LEMMA LanesApart ==
  /\ AwsAddresses \cap KvmAddresses = {}
  /\ AzureAddresses \cap AwsKvmAddresses = {}
<1>1. AwsAddresses \cap KvmAddresses = {}
  BY SitesAssumption, AddressKinds, ObjectsApart
<1> QED BY <1>1, AzureApart DEF AwsKvmAddresses

------------------------------------------------------------------------------
(* What a configuration wants of each object.                               *)
LEMMA WantedAwsValues ==
  ASSUME NEW cfg, NEW r
  PROVE  /\ Wanted(cfg, r)[AwsNetwork] = "present"
         /\ Wanted(cfg, r)[AwsTgw] = IF cfg.tgw THEN "present" ELSE "absent"
         /\ \A s \in AwsSites :
              /\ cfg.aws = "bootstrap" => Wanted(cfg, r)[Site(s)] = "bootstrap"
              /\ cfg.aws = "configured" => Wanted(cfg, r)[Site(s)] = "final"
              /\ cfg.aws = "bootstrap_retirement" =>
                   Wanted(cfg, r)[Site(s)] = "absent"
              /\ r[s] # "NEW" => Wanted(cfg, r)[Approval(s)] = "absent"
              /\ r[s] = "NEW" /\ cfg.aws \in {"bootstrap", "configured"} =>
                   Wanted(cfg, r)[Approval(s)] = "present"
              /\ cfg.aws = "bootstrap_retirement" =>
                   Wanted(cfg, r)[Approval(s)] = "absent"
<1>0. AwsAddresses \subseteq Addresses
  BY DEF Addresses
<1>1. \A a \in AwsAddresses : Wanted(cfg, r)[a] = WantedAws(cfg, r)[a]
  BY <1>0, LanesApart DEF Wanted
<1>2. /\ WantedAws(cfg, r)[AwsNetwork] = "present"
      /\ WantedAws(cfg, r)[AwsTgw] = IF cfg.tgw THEN "present" ELSE "absent"
  BY AddressesOf, ObjectsApart DEF WantedAws
<1>3. ASSUME NEW s \in AwsSites
      PROVE  /\ cfg.aws = "bootstrap" => WantedAws(cfg, r)[Site(s)] = "bootstrap"
             /\ cfg.aws = "configured" => WantedAws(cfg, r)[Site(s)] = "final"
             /\ cfg.aws = "bootstrap_retirement" =>
                  WantedAws(cfg, r)[Site(s)] = "absent"
  <2>1. Site(s) \in AwsAddresses /\ Site(s) # AwsNetwork /\ Site(s) # AwsTgw
    BY AddressesOf, ObjectsApart
  <2> QED BY <2>1 DEF WantedAws
<1>4. ASSUME NEW s \in AwsSites
      PROVE  /\ r[s] # "NEW" => WantedAws(cfg, r)[Approval(s)] = "absent"
             /\ r[s] = "NEW" /\ cfg.aws \in {"bootstrap", "configured"} =>
                  WantedAws(cfg, r)[Approval(s)] = "present"
             /\ cfg.aws = "bootstrap_retirement" =>
                  WantedAws(cfg, r)[Approval(s)] = "absent"
  <2>1. /\ Approval(s) \in AwsAddresses /\ Approval(s) # AwsNetwork
        /\ Approval(s) # AwsTgw /\ \A t : Approval(s) # Site(t)
    BY AddressesOf, ObjectsApart
  <2>2. Approval(s)[2] = s
    BY DEF Approval
  <2> QED BY <2>1, <2>2 DEF WantedAws
<1>5. /\ Wanted(cfg, r)[AwsNetwork] = "present"
      /\ Wanted(cfg, r)[AwsTgw] = IF cfg.tgw THEN "present" ELSE "absent"
  BY <1>1, <1>2, AddressesOf
<1>6. \A s \in AwsSites :
        /\ Wanted(cfg, r)[Site(s)] = WantedAws(cfg, r)[Site(s)]
        /\ Wanted(cfg, r)[Approval(s)] = WantedAws(cfg, r)[Approval(s)]
  BY <1>1, AddressesOf
<1> QED BY <1>3, <1>4, <1>5, <1>6

LEMMA WantedKvmValues ==
  ASSUME NEW cfg, NEW r
  PROVE  /\ Wanted(cfg, r)[Site(KvmSite)] = "present"
         /\ Wanted(cfg, r)[Approval(KvmSite)] =
              IF r[KvmSite] = "NEW" THEN "present" ELSE "absent"
         /\ Wanted(cfg, r)[KvmBgp] =
              IF cfg.aws = "configured" THEN "present" ELSE "absent"
         /\ Wanted(cfg, r)[KvmLan] =
              IF cfg.lan = "configured" THEN "present" ELSE "absent"
<1>1. \A a \in KvmAddresses : Wanted(cfg, r)[a] = WantedKvm(cfg, r)[a]
  BY AddressesOf, LanesApart DEF Wanted
<1> QED BY <1>1, AddressesOf, ObjectsApart DEF WantedKvm

LEMMA WantedAzureValues ==
  ASSUME NEW cfg, NEW r
  PROVE  /\ ~cfg.azure => \A a \in AzureAddresses : Wanted(cfg, r)[a] = "absent"
         /\ cfg.azure =>
              /\ Wanted(cfg, r)[AzureHub] = "present"
              /\ \A s \in AzureSites :
                   /\ Wanted(cfg, r)[Site(s)] =
                        IF cfg.azphase = "configured" THEN "bound" ELSE "unbound"
                   /\ Wanted(cfg, r)[Approval(s)] =
                        IF /\ cfg.azphase = "configured" /\ cfg.approve
                           /\ r[s] # "none"
                          THEN "present" ELSE "absent"
<1>1. \A a \in AzureAddresses : Wanted(cfg, r)[a] = WantedAzure(cfg, r)[a]
  BY AddressesOf, LanesApart DEF Wanted
<1>2. ASSUME ~cfg.azure, NEW a \in AzureAddresses
      PROVE  WantedAzure(cfg, r)[a] = "absent"
  BY <1>2 DEF WantedAzure
<1>3. ASSUME cfg.azure PROVE WantedAzure(cfg, r)[AzureHub] = "present"
  BY <1>3, AddressesOf, ObjectsApart DEF WantedAzure
<1>4. ASSUME cfg.azure, NEW s \in AzureSites
      PROVE  WantedAzure(cfg, r)[Site(s)] =
               IF cfg.azphase = "configured" THEN "bound" ELSE "unbound"
  <2>1. Site(s) \in AzureAddresses /\ Site(s) # AzureHub
    BY AddressesOf, ObjectsApart
  <2> QED BY <1>4, <2>1 DEF WantedAzure
<1>5. ASSUME cfg.azure, NEW s \in AzureSites
      PROVE  WantedAzure(cfg, r)[Approval(s)] =
               IF /\ cfg.azphase = "configured" /\ cfg.approve
                  /\ r[s] # "none"
                 THEN "present" ELSE "absent"
  <2>1. /\ Approval(s) \in AzureAddresses /\ Approval(s) # AzureHub
        /\ \A t : Approval(s) # Site(t)
    BY AddressesOf, ObjectsApart
  <2>2. Approval(s)[2] = s
    BY DEF Approval
  <2> QED BY <1>5, <2>1, <2>2 DEF WantedAzure
<1>6. ASSUME ~cfg.azure
      PROVE  \A a \in AzureAddresses : Wanted(cfg, r)[a] = "absent"
  BY <1>1, <1>2, <1>6
<1>7. /\ Wanted(cfg, r)[AzureHub] = WantedAzure(cfg, r)[AzureHub]
      /\ \A s \in AzureSites :
            /\ Wanted(cfg, r)[Site(s)] = WantedAzure(cfg, r)[Site(s)]
            /\ Wanted(cfg, r)[Approval(s)] = WantedAzure(cfg, r)[Approval(s)]
  BY <1>1, AddressesOf
<1>8. ASSUME cfg.azure
      PROVE  /\ Wanted(cfg, r)[AzureHub] = "present"
             /\ \A s \in AzureSites :
                   /\ Wanted(cfg, r)[Site(s)] =
                        IF cfg.azphase = "configured" THEN "bound" ELSE "unbound"
                   /\ Wanted(cfg, r)[Approval(s)] =
                        IF /\ cfg.azphase = "configured" /\ cfg.approve
                           /\ r[s] # "none"
                          THEN "present" ELSE "absent"
  BY <1>3, <1>4, <1>5, <1>7, <1>8
<1> QED BY <1>6, <1>8

------------------------------------------------------------------------------
(* The -var arguments of the steps.                                         *)
LEMMA StepConfigs ==
  /\ \A s \in {"boot_create", "boot_wait", "boot_approve"} :
        StepConfig(s) = [aws |-> "bootstrap", tgw |-> FALSE, azure |-> FALSE,
                         azphase |-> "configured", approve |-> TRUE,
                         lan |-> "hardware"]
  /\ StepConfig("retire") =
       [aws |-> "bootstrap_retirement", tgw |-> FALSE, azure |-> FALSE,
        azphase |-> "configured", approve |-> TRUE, lan |-> "hardware"]
  /\ \A s \in {"conf_create", "conf_wait", "conf_approve"} :
        StepConfig(s) = [aws |-> "configured", tgw |-> FALSE, azure |-> FALSE,
                         azphase |-> "configured", approve |-> TRUE,
                         lan |-> "hardware"]
  /\ \A s \in {"tgw", "eni_repair", "kvm_repair"} \cup VerifySteps
              \cup ObserveSteps :
        StepConfig(s) = [aws |-> "configured", tgw |-> TRUE, azure |-> FALSE,
                         azphase |-> "configured", approve |-> TRUE,
                         lan |-> "hardware"]
  /\ StepConfig("lan") =
       [aws |-> "configured", tgw |-> TRUE, azure |-> FALSE,
        azphase |-> "configured", approve |-> TRUE, lan |-> "configured"]
  /\ StepConfig("az_build") =
       [aws |-> "configured", tgw |-> TRUE, azure |-> TRUE,
        azphase |-> "bootstrap", approve |-> TRUE, lan |-> "configured"]
  /\ StepConfig("az_bind") =
       [aws |-> "configured", tgw |-> TRUE, azure |-> TRUE,
        azphase |-> "configured", approve |-> FALSE, lan |-> "configured"]
  /\ \A s \in {"az_approve", "settle", "final"} :
        StepConfig(s) = [aws |-> "configured", tgw |-> TRUE, azure |-> TRUE,
                         azphase |-> "configured", approve |-> TRUE,
                         lan |-> "configured"]
  /\ StepConfig("destroy").azure
BY DEF StepConfig, AwsPhase, PhaseSteps, WaitSteps, VerifySteps, ObserveSteps

(* What a step wants differs from its target only in approvals: of AWS and  *)
(* KVM sites that wait for one, of Azure sites that have not registered.    *)
LEMMA TypeOfConfig ==
  ASSUME NEW s
  PROVE  /\ StepConfig(s).aws \in {"bootstrap", "bootstrap_retirement",
                                   "configured"}
         /\ StepConfig(s).tgw \in BOOLEAN /\ StepConfig(s).azure \in BOOLEAN
BY StepConfigType DEF Configs

LEMMA AllAreOnline == \A s \in Sites : AllOnline[s] = "ONLINE"
BY DEF AllOnline

LEMMA WantedAwsNear ==
  ASSUME NEW s, NEW r, NEW a \in AwsAddresses
  PROVE  \/ Wanted(StepConfig(s), r)[a] = Target(s)[a]
         \/ \E x \in AwsSites :
              /\ a = Approval(x) /\ r[x] = "NEW" /\ Target(s)[a] = "absent"
              /\ Wanted(StepConfig(s), r)[a] = "present"
<1> DEFINE cfg == StepConfig(s)
<1>1. /\ Wanted(cfg, r)[AwsNetwork] = Wanted(cfg, AllOnline)[AwsNetwork]
      /\ Wanted(cfg, r)[AwsTgw] = Wanted(cfg, AllOnline)[AwsTgw]
  BY WantedAwsValues
<1>2. ASSUME NEW x \in AwsSites
      PROVE  /\ Wanted(cfg, r)[Site(x)] = Wanted(cfg, AllOnline)[Site(x)]
             /\ Wanted(cfg, AllOnline)[Approval(x)] = "absent"
             /\ \/ Wanted(cfg, r)[Approval(x)] = "absent"
                \/ r[x] = "NEW" /\ Wanted(cfg, r)[Approval(x)] = "present"
  <2>1. AllOnline[x] # "NEW"
    BY AllAreOnline DEF Sites
  <2> QED BY <2>1, WantedAwsValues, TypeOfConfig
<1> QED BY <1>1, <1>2, AddressKinds DEF Target

LEMMA WantedKvmNear ==
  ASSUME NEW s, NEW r, NEW a \in KvmAddresses
  PROVE  \/ Wanted(StepConfig(s), r)[a] = Target(s)[a]
         \/ /\ a = Approval(KvmSite) /\ r[KvmSite] = "NEW"
            /\ Target(s)[a] = "absent"
            /\ Wanted(StepConfig(s), r)[a] = "present"
<1>1. AllOnline[KvmSite] # "NEW"
  BY AllAreOnline DEF Sites
<1> QED BY <1>1, WantedKvmValues, AddressKinds DEF Target

LEMMA WantedNear ==
  ASSUME NEW s, NEW r, NEW a \in AwsKvmAddresses
  PROVE  \/ Wanted(StepConfig(s), r)[a] = Target(s)[a]
         \/ \E x \in AwsKvmSites :
              /\ a = Approval(x) /\ r[x] = "NEW" /\ Target(s)[a] = "absent"
              /\ Wanted(StepConfig(s), r)[a] = "present"
<1>1. CASE a \in AwsAddresses
  <2>1. \/ Wanted(StepConfig(s), r)[a] = Target(s)[a]
        \/ \E x \in AwsSites :
             /\ a = Approval(x) /\ r[x] = "NEW" /\ Target(s)[a] = "absent"
             /\ Wanted(StepConfig(s), r)[a] = "present"
    BY <1>1, WantedAwsNear
  <2> QED BY <2>1 DEF AwsKvmSites
<1>2. CASE a \in KvmAddresses
  <2>1. \/ Wanted(StepConfig(s), r)[a] = Target(s)[a]
        \/ /\ a = Approval(KvmSite) /\ r[KvmSite] = "NEW"
           /\ Target(s)[a] = "absent"
           /\ Wanted(StepConfig(s), r)[a] = "present"
    BY <1>2, WantedKvmNear
  <2> QED BY <2>1 DEF AwsKvmSites
<1> QED BY <1>1, <1>2 DEF AwsKvmAddresses

LEMMA WantedNoAzure ==
  ASSUME NEW s, NEW r, ~StepConfig(s).azure, NEW a \in AzureAddresses
  PROVE  Wanted(StepConfig(s), r)[a] = "absent" /\ Target(s)[a] = "absent"
BY WantedAzureValues DEF Target

LEMMA WantedAzureNear ==
  ASSUME NEW s, NEW r, NEW a \in AzureAddresses
  PROVE  \/ Wanted(StepConfig(s), r)[a] = Target(s)[a]
         \/ \E x \in AzureSites : a = Approval(x) /\ r[x] = "none"
<1>1. CASE ~StepConfig(s).azure
  BY <1>1, WantedNoAzure
<1>2. CASE StepConfig(s).azure
  <2>1. Wanted(StepConfig(s), r)[AzureHub] = Target(s)[AzureHub]
    BY <1>2, WantedAzureValues DEF Target
  <2>2. ASSUME NEW x \in AzureSites
        PROVE  /\ Wanted(StepConfig(s), r)[Site(x)] = Target(s)[Site(x)]
               /\ \/ r[x] = "none"
                  \/ Wanted(StepConfig(s), r)[Approval(x)]
                       = Target(s)[Approval(x)]
    <3>1. AllOnline[x] # "none"
      BY AllAreOnline DEF Sites
    <3> QED BY <1>2, <3>1, WantedAzureValues DEF Target
  <2> QED BY <2>1, <2>2, AddressKinds
<1> QED BY <1>1, <1>2, TypeOfConfig

(* The targets as tables.                                                   *)
LEMMA TargetAws ==
  ASSUME NEW s
  PROVE  /\ Target(s)[AwsNetwork] = "present"
         /\ Target(s)[AwsTgw] =
              IF StepConfig(s).tgw THEN "present" ELSE "absent"
         /\ \A x \in AwsSites :
              /\ StepConfig(s).aws = "bootstrap" =>
                   Target(s)[Site(x)] = "bootstrap"
              /\ StepConfig(s).aws = "configured" => Target(s)[Site(x)] = "final"
              /\ StepConfig(s).aws = "bootstrap_retirement" =>
                   Target(s)[Site(x)] = "absent"
              /\ Target(s)[Approval(x)] = "absent"
<1>1. \A x \in AwsSites : AllOnline[x] # "NEW"
  BY AllAreOnline DEF Sites
<1> QED BY <1>1, WantedAwsValues DEF Target

LEMMA TargetKvm ==
  ASSUME NEW s
  PROVE  /\ Target(s)[Site(KvmSite)] = "present"
         /\ Target(s)[Approval(KvmSite)] = "absent"
         /\ Target(s)[KvmBgp] =
              IF StepConfig(s).aws = "configured" THEN "present" ELSE "absent"
         /\ Target(s)[KvmLan] =
              IF StepConfig(s).lan = "configured" THEN "present" ELSE "absent"
<1>1. AllOnline[KvmSite] # "NEW"
  BY AllAreOnline DEF Sites
<1> QED BY <1>1, WantedKvmValues DEF Target

LEMMA TargetAzure ==
  ASSUME NEW s
  PROVE  /\ ~StepConfig(s).azure =>
              \A a \in AzureAddresses : Target(s)[a] = "absent"
         /\ StepConfig(s).azure =>
              /\ Target(s)[AzureHub] = "present"
              /\ \A x \in AzureSites :
                   /\ Target(s)[Site(x)] =
                        IF StepConfig(s).azphase = "configured" THEN "bound"
                                                                ELSE "unbound"
                   /\ Target(s)[Approval(x)] =
                        IF /\ StepConfig(s).azphase = "configured"
                           /\ StepConfig(s).approve
                          THEN "present" ELSE "absent"
<1>1. \A x \in AzureSites : AllOnline[x] # "none"
  BY AllAreOnline DEF Sites
<1> QED BY <1>1, WantedAzureValues DEF Target

(* Steps with the same arguments have the same target.                      *)
LEMMA SameTargets ==
  /\ \A s \in {"boot_wait", "boot_approve"} : Target(s) = Target("boot_create")
  /\ \A s \in {"conf_wait", "conf_approve"} : Target(s) = Target("conf_create")
  /\ \A s \in {"eni_repair", "kvm_repair"} \cup VerifySteps \cup ObserveSteps :
        Target(s) = Target("tgw")
  /\ \A s \in {"az_approve", "settle", "final"} : Target(s) = Converged
<1>1. Target("final") = Converged
  BY DEF Target, Converged, AllOnline
<1> QED BY <1>1, StepConfigs DEF Target

------------------------------------------------------------------------------
(* The steps of the system by what they do to a build.                      *)

(* Nothing of the script: a Customer Edge registers or is admitted, an      *)
(* output settles, a plan file is overwritten, a poll is counted.           *)
Outside ==
  /\ UNCHANGED <<mode, cycle, step, at, receipt, scoped, state, shown, legacy,
                 done, absent, faults>>
  /\ exit' = exit
  /\ \A s \in Sites :
        \/ reg'[s] = reg[s]
        \/ reg[s] \in {"none", "APPROVED"}
             /\ Site(s) \in Held(cloud) /\ reg'[s] \in {"NEW", "ONLINE"}
  /\ \A a \in Addresses :
        \/ cloud'[a] = cloud[a]
        \/ /\ cloud'[a] = "drifted" /\ cloud[a] # "absent"
           /\ \E s \in AzureSites :
                a = Site(s) /\ reg[s] \in {"none", "APPROVED"}
  /\ real \subseteq real'
  /\ \/ plan' = plan /\ overwrites' = overwrites
     \/ /\ plan' \in {Planned("final"),
                      DestroyPlanFor(StepConfig("destroy"), state, cloud, reg)}
        /\ overwrites' = overwrites + 1 /\ Running

(* The plan a step saves.                                                   *)
OwnFile ==
  CASE step = "destroy" -> DestroyPlanFor(StepConfig(step), state, cloud, reg)
    [] step \in ObserveSteps ->
         RefreshPlanFor(StepConfig(step), state, cloud, reg, Outs)
    [] OTHER -> Planned(step)

Saved ==
  /\ Running /\ at = "plan" /\ exit' = "running" /\ at' = "scope"
  /\ step \in PlanSteps /\ plan' = OwnFile
  /\ UNCHANGED <<mode, cycle, step, state, cloud, reg, real, shown, legacy,
                 absent, faults, overwrites>>
  /\ done' = IF step = "boot_create" THEN {} ELSE done
  /\ step \in PhaseSteps =>
       receipt' = plan' /\ Preflight(AwsPhase(step), Planned(step), cloud)
  /\ step \in VerifySteps => ~AwsKvmZero(Planned(step))
  /\ step \in ObserveSteps => plan'.drift = {DriftTarget(step)}
  /\ step = "az_approve" =>
       AzureApprovalCreates(Planned(step)) = {Approval(s) : s \in AzureSites}
  /\ step = "settle" => Changes(Planned(step)) # {}

Permitted ==
  /\ Running /\ at = "scope" /\ exit' = "running" /\ at' = "apply"
  /\ scoped' = plan
  /\ UNCHANGED <<mode, cycle, step, plan, receipt, state, cloud, reg, real,
                 shown, legacy, done, absent, faults, overwrites>>

(* From one step to the next without an apply.                              *)
WayOn ==
  \/ /\ step = "start" /\ step' = "boot_create" /\ state = NoEstate
     /\ cycle' \in {"build", "first"} /\ mode # "destroy"
  \/ step = "start" /\ step' = "final" /\ cycle' = "verify" /\ mode = "verify"
  \/ /\ step = "start" /\ step' = "destroy"
     /\ cycle' = IF mode = "destroy" THEN "requested" ELSE "initial"
  \/ /\ step \in WaitSteps /\ cycle' = cycle
     /\ LET aws == Cardinality(AwsSites)
            kvm == IF step = "boot_wait" THEN 1 ELSE 0
        IN  GateReady(Planned(step), aws, kvm)
     /\ step' = AfterWait(step, ApprovalCount(Planned(step)))
  \/ /\ step \in {"capture", "client"} \cup DriftSteps
     /\ step' = NextStep(step) /\ cycle' = cycle
  \/ step \in VerifySteps /\ step' = NextStep(step) /\ cycle' = cycle
  \/ /\ step = "az_online" /\ step' = "settle" /\ cycle' = cycle
     /\ \A s \in AzureSites : reg[s] = "ONLINE"
  \/ /\ step = "settle" /\ step' = "final" /\ cycle' = cycle
     /\ ZeroChange(Planned(step))
  \/ /\ step = "final" /\ step' = "forget" /\ cycle = "first" /\ cycle' = cycle
     /\ AzureVerified /\ ZeroChange(Planned(step))
  \/ step = "forget" /\ step' = "destroy" /\ cycle' = cycle
  \/ /\ step = "absence" /\ step' = "boot_create" /\ absent'
     /\ \/ cycle = "initial" /\ cycle' = "first"
        \/ cycle = "first" /\ cycle' = "second"

Moved ==
  /\ Running /\ exit' = "running" /\ at' = "plan" /\ mode' = mode
  /\ UNCHANGED <<state, reg, real, shown, legacy, faults, overwrites>>
  /\ IF step \in DriftSteps
       THEN /\ cloud' = [cloud EXCEPT ![DriftTarget(step)] = "drifted"]
            /\ state[DriftTarget(step)] # "absent"
       ELSE cloud' = cloud
  /\ done' \in {done, done \cup {step}}
  /\ step \notin {"start", "forget", "absence"} => done' = done \cup {step}
  /\ WayOn

(* The script stops without an apply, and why.                              *)
Reason ==
  /\ exit' = "passed" =>
       \/ step = "final" /\ AzureVerified /\ ZeroChange(Planned(step))
       \/ step = "absence" /\ cycle \notin {"initial", "first"}
  /\ exit' = "gate" =>
       /\ step \in WaitSteps
       /\ LET aws == Cardinality(AwsSites)
              kvm == IF step = "boot_wait" THEN 1 ELSE 0
          IN  GateError(Planned(step), aws, kvm)
  /\ exit' = "preflight" =>
       /\ step \in PhaseSteps \cup VerifySteps /\ at = "plan"
       /\ ~Preflight(AwsPhase(step), Planned(step), cloud)
  /\ exit' = "scope" =>
       \/ at = "scope" /\ ~ScopePermits(StepScope(step, plan), plan)
       \/ /\ step = "settle" /\ Changes(Planned(step)) = {}
          /\ ~ZeroChange(Planned(step))
       \/ /\ step = "final" /\ AzureVerified
          /\ legacy \/ ~ZeroChange(Planned(step))
  /\ exit' = "digest" => at = "apply" /\ plan # Digest
  /\ exit' = "absence" => step = "absence" /\ \E a \in Queried : cloud[a] # "absent"
  /\ step = "start" => mode # "destroy" \/ exit' = "fault"
  /\ step = "destroy" =>
       exit' \in {"fault", "scope", "digest"} \/ RequireKvm(cycle)
  /\ step = "absence" => exit' \in {"fault", "passed", "absence"}

Stopped ==
  /\ Running /\ exit' # "running" /\ Reason
  /\ UNCHANGED <<mode, cycle, step, state, cloud, reg, real, shown, legacy,
                 overwrites>>
  /\ faults' \in {faults, faults + 1}
  /\ done' \subseteq done \cup {"final"}

StepClass ==
  \/ Outside \/ Saved \/ Permitted \/ Moved \/ Stopped \/ Rerun
  \/ Apply \/ ApplyStops \/ ApplyFails

LEMMA OutsideSteps ==
  ASSUME TypeOK, EstateInv,
         Environment \/ Overwrite \/ UNCHANGED vars
  PROVE  Outside
<1> USE DEF script, files, private, backend, world, history, bounds
<1>1. ASSUME NEW s \in Sites, Register(s) PROVE Outside
  <2>1. /\ Site(s) \in Held(cloud) /\ reg[s] = "none"
        /\ \E r \in Admissions : /\ reg' = [reg EXCEPT ![s] = r]
                                 /\ cloud' \in Labelled(s, r)
    BY <1>1 DEF Register, Held, Sites, Addresses, AwsAddresses, KvmAddresses,
                AzureAddresses
  <2>2. PICK r \in {"NEW", "ONLINE"} :
          reg' = [reg EXCEPT ![s] = r] /\ cloud' \in Labelled(s, r)
    BY <2>1, LifecycleAssumption
  <2>3. \A t \in Sites :
          \/ reg'[t] = reg[t]
          \/ reg[t] \in {"none", "APPROVED"}
               /\ Site(t) \in Held(cloud) /\ reg'[t] \in {"NEW", "ONLINE"}
    BY <2>1, <2>2 DEF TypeOK
  <2>4. \A a \in Addresses :
          \/ cloud'[a] = cloud[a]
          \/ /\ cloud'[a] = "drifted" /\ cloud[a] # "absent"
             /\ \E t \in AzureSites :
                  a = Site(t) /\ reg[t] \in {"none", "APPROVED"}
    BY <2>1, <2>2 DEF TypeOK, Labelled, Estates, Held
  <2> QED BY <1>1, <2>3, <2>4 DEF Register, Outside
<1>2. ASSUME NEW s \in Sites, Admit(s) PROVE Outside
  <2>1. reg[s] = "APPROVED" /\ Site(s) \in Held(cloud)
    BY <1>2 DEF Admit, EstateInv, CloudCovers
  <2>2. \A t \in Sites :
          \/ reg'[t] = reg[t]
          \/ reg[t] \in {"none", "APPROVED"}
               /\ Site(t) \in Held(cloud) /\ reg'[t] \in {"NEW", "ONLINE"}
    BY <1>2, <2>1 DEF TypeOK, Admit
  <2>3. \A a \in Addresses :
          \/ cloud'[a] = cloud[a]
          \/ /\ cloud'[a] = "drifted" /\ cloud[a] # "absent"
             /\ \E t \in AzureSites :
                  a = Site(t) /\ reg[t] \in {"none", "APPROVED"}
    BY <1>2, <2>1 DEF TypeOK, Admit, Labelled, Estates, Held
  <2> QED BY <1>2, <2>2, <2>3 DEF Admit, Outside
<1>3. ASSUME NEW o \in Outputs, Settle(o) PROVE Outside
  BY <1>3 DEF Settle, Outside
<1>4. CASE Overwrite
  BY <1>4 DEF Overwrite, Outside
<1>5. CASE UNCHANGED vars
  BY <1>5 DEF vars, Outside
<1> QED BY <1>1, <1>2, <1>3, <1>4, <1>5 DEF Environment

LEMMA SavingSteps ==
  ASSUME TypeOK, EstateInv
  PROVE  /\ PhasePlan => Saved \/ Stopped
         /\ VerifyPlan => Saved \/ Moved \/ Stopped
         /\ ObservePlan => Saved \/ Stopped
         /\ DirectPlan => Saved
         /\ ApprovalPlan => Saved \/ Outside \/ Stopped
         /\ SettlePlan => Saved \/ Moved \/ Stopped
         /\ DestroyPlan => Saved \/ Stopped
<1> USE DEF script, files, private, backend, world, history, bounds, Running
<1>s. /\ \A s \in PhaseSteps \cup VerifySteps \cup ObserveSteps :
            s \notin {"az_approve", "settle", "start", "destroy", "absence"}
      /\ \A s \in PhaseSteps : s \notin VerifySteps \cup ObserveSteps
      /\ \A s \in VerifySteps : s \notin ObserveSteps
      /\ \A s \in {"lan", "az_build", "az_bind", "az_approve", "settle",
                   "destroy", "final", "absence", "az_online", "start"} :
            s \notin PhaseSteps \cup VerifySteps \cup ObserveSteps
                       \cup DriftSteps \cup WaitSteps
      /\ \A s \in WaitSteps \cup DriftSteps : s \notin PhaseSteps
            \cup VerifySteps \cup ObserveSteps
      /\ WaitSteps \cap DriftSteps = {}
      /\ "boot_create" \in PhaseSteps
  BY DEF PhaseSteps, VerifySteps, ObserveSteps, DriftSteps, WaitSteps
<1>p. PhaseSteps \cup VerifySteps \cup ObserveSteps
        \cup {"lan", "az_build", "az_bind", "az_approve", "settle", "destroy"}
        \subseteq PlanSteps
  BY DEF PlanSteps, AzureSteps
<1>f. faults \in Nat
  BY DEF TypeOK
<1>1. ASSUME PhasePlan PROVE Saved \/ Stopped
  <2>0. step \in PhaseSteps /\ at = "plan" /\ exit = "running"
    BY <1>1 DEF PhasePlan
  <2>1. CASE step = "boot_create" /\ cycle \in used
    <3>1. Reason /\ exit' = "reuse"
      BY <1>1, <2>0, <2>1, <1>s DEF PhasePlan, Die, Reason
    <3> QED BY <1>1, <2>0, <2>1, <3>1 DEF PhasePlan, Die, Stopped
  <2>2. CASE ~(step = "boot_create" /\ cycle \in used)
    <3>1. CASE Preflight(AwsPhase(step), Planned(step), cloud)
      <4>1. OwnFile = Planned(step)
        BY <2>0, <1>s DEF OwnFile
      <4> QED BY <1>1, <2>0, <2>2, <3>1, <4>1, <1>s, <1>p DEF PhasePlan, Saved
    <3>2. CASE ~Preflight(AwsPhase(step), Planned(step), cloud)
      <4>1. exit' = "preflight"
        BY <1>1, <2>2, <3>2 DEF PhasePlan, Die
      <4>2. Reason
        BY <2>0, <3>2, <4>1, <1>s DEF Reason
      <4> QED BY <1>1, <2>0, <2>2, <3>2, <4>1, <4>2 DEF PhasePlan, Die, Stopped
    <3> QED BY <3>1, <3>2
  <2> QED BY <2>1, <2>2
<1>2. ASSUME VerifyPlan PROVE Saved \/ Moved \/ Stopped
  <2>0. step \in VerifySteps /\ at = "plan" /\ exit = "running"
        /\ AwsPhase(step) = "configured"
    BY <1>2 DEF VerifyPlan, AwsPhase, VerifySteps
  <2>1. CASE ~Preflight("configured", Planned(step), cloud)
    <3>1. exit' = "preflight"
      BY <1>2, <2>1 DEF VerifyPlan, Die
    <3>2. Reason
      BY <2>0, <2>1, <3>1, <1>s DEF Reason
    <3> QED BY <1>2, <2>0, <2>1, <3>1, <3>2 DEF VerifyPlan, Die, Stopped
  <2>2. CASE /\ Preflight("configured", Planned(step), cloud)
             /\ AwsKvmZero(Planned(step))
    <3>1. CASE "kvm_runtime_status" \in shown
      <4>1. WayOn
        BY <1>2, <2>0, <2>2, <3>1 DEF VerifyPlan, Advance, GoTo, WayOn
      <4> QED BY <1>2, <2>0, <2>2, <3>1, <4>1, <1>s
              DEF VerifyPlan, Advance, GoTo, Moved
    <3>2. CASE "kvm_runtime_status" \notin shown
      <4>1. exit' = "kvm_status"
        BY <1>2, <2>2, <3>2 DEF VerifyPlan, Die
      <4>2. Reason
        BY <2>0, <4>1, <1>s DEF Reason
      <4> QED BY <1>2, <2>0, <2>2, <3>2, <4>1, <4>2 DEF VerifyPlan, Die, Stopped
    <3> QED BY <3>1, <3>2
  <2>3. CASE /\ Preflight("configured", Planned(step), cloud)
             /\ ~AwsKvmZero(Planned(step))
    <3>1. CASE tries < 2
      <4>1. OwnFile = Planned(step)
        BY <2>0, <1>s DEF OwnFile
      <4> QED BY <1>2, <2>0, <2>3, <3>1, <4>1, <1>s, <1>p DEF VerifyPlan, Saved
    <3>2. CASE ~(tries < 2)
      <4>1. exit' = "settle"
        BY <1>2, <2>3, <3>2 DEF VerifyPlan, Die
      <4>2. Reason
        BY <2>0, <4>1, <1>s DEF Reason
      <4> QED BY <1>2, <2>0, <2>3, <3>2, <4>1, <4>2 DEF VerifyPlan, Die, Stopped
    <3> QED BY <3>1, <3>2
  <2> QED BY <2>1, <2>2, <2>3
<1>3. ASSUME ObservePlan PROVE Saved \/ Stopped
  <2> DEFINE p == RefreshPlanFor(StepConfig(step), state, cloud, reg, Outs)
  <2>0. step \in ObserveSteps /\ at = "plan" /\ exit = "running"
    BY <1>3 DEF ObservePlan
  <2>1. CASE p.drift = {DriftTarget(step)}
    <3>1. plan' = p /\ at' = "scope" /\ OwnFile = p
      BY <1>3, <2>0, <2>1, <1>s DEF ObservePlan, OwnFile
    <3>2. plan'.drift = {DriftTarget(step)} /\ plan' = OwnFile
      BY <2>1, <3>1
    <3> QED BY <1>3, <2>0, <2>1, <3>1, <3>2, <1>s, <1>p DEF ObservePlan, Saved
  <2>2. CASE ~(p.drift = {DriftTarget(step)})
    <3>1. exit' = "drift"
      BY <1>3, <2>2 DEF ObservePlan, Die
    <3>2. Reason
      BY <2>0, <3>1, <1>s DEF Reason
    <3> QED BY <1>3, <2>0, <2>2, <3>1, <3>2 DEF ObservePlan, Die, Stopped
  <2> QED BY <2>1, <2>2
<1>4. ASSUME DirectPlan PROVE Saved
  <2>0. step \in {"lan", "az_build", "az_bind"} /\ at = "plan"
        /\ exit = "running"
    BY <1>4 DEF DirectPlan
  <2>1. OwnFile = Planned(step)
    BY <2>0, <1>s DEF OwnFile
  <2> QED BY <1>4, <2>0, <2>1, <1>s, <1>p DEF DirectPlan, SavePlan, Saved
<1>5. ASSUME ApprovalPlan PROVE Saved \/ Outside \/ Stopped
  <2>0. step = "az_approve" /\ at = "plan" /\ exit = "running"
    BY <1>5 DEF ApprovalPlan
  <2>1. CASE AzureApprovalCreates(Planned(step))
               = {Approval(s) : s \in AzureSites}
    <3>1. OwnFile = Planned(step)
      BY <2>0, <1>s DEF OwnFile
    <3> QED BY <1>5, <2>0, <2>1, <3>1, <1>s, <1>p
            DEF ApprovalPlan, SavePlan, Saved
  <2>2. CASE AzureApprovalCreates(Planned(step))
               # {Approval(s) : s \in AzureSites}
    <3>1. PollAgain /\ UNCHANGED files
      BY <1>5, <2>2 DEF ApprovalPlan
    <3>2. CASE tries < MaxPolls
      BY <1>5, <3>1, <3>2 DEF ApprovalPlan, PollAgain, Outside
    <3>3. CASE ~(tries < MaxPolls)
      <4>1. exit' = "deadline"
        BY <3>1, <3>3 DEF PollAgain, Die
      <4>2. Reason
        BY <2>0, <4>1 DEF Reason
      <4> QED BY <1>5, <2>0, <3>1, <3>3, <4>1, <4>2
              DEF ApprovalPlan, PollAgain, Die, Stopped
    <3> QED BY <3>2, <3>3
  <2> QED BY <2>1, <2>2
<1>6. ASSUME SettlePlan PROVE Saved \/ Moved \/ Stopped
  <2>0. step = "settle" /\ at = "plan" /\ exit = "running"
    BY <1>6 DEF SettlePlan
  <2>1. CASE Changes(Planned(step)) = {} /\ ZeroChange(Planned(step))
    <3>1. Advance
      BY <1>6, <2>1 DEF SettlePlan
    <3>2. WayOn
      BY <2>0, <2>1, <3>1 DEF Advance, GoTo, NextStep, WayOn
    <3> QED BY <1>6, <2>0, <2>1, <3>1, <3>2, <1>s
            DEF SettlePlan, Advance, GoTo, Moved
  <2>2. CASE Changes(Planned(step)) = {} /\ ~ZeroChange(Planned(step))
    <3>1. exit' = "scope"
      BY <1>6, <2>2 DEF SettlePlan, Die
    <3>2. Reason
      BY <2>0, <2>2, <3>1 DEF Reason
    <3> QED BY <1>6, <2>0, <2>2, <3>1, <3>2 DEF SettlePlan, Die, Stopped
  <2>3. CASE Changes(Planned(step)) # {} /\ tries = 3
    <3>1. exit' = "settle"
      BY <1>6, <2>3 DEF SettlePlan, Die
    <3>2. Reason
      BY <2>0, <3>1 DEF Reason
    <3> QED BY <1>6, <2>0, <2>3, <3>1, <3>2 DEF SettlePlan, Die, Stopped
  <2>4. CASE Changes(Planned(step)) # {} /\ tries # 3
    <3>1. OwnFile = Planned(step)
      BY <2>0, <1>s DEF OwnFile
    <3> QED BY <1>6, <2>0, <2>4, <3>1, <1>s, <1>p DEF SettlePlan, SavePlan, Saved
  <2> QED BY <2>1, <2>2, <2>3, <2>4
<1>7. ASSUME DestroyPlan PROVE Saved \/ Stopped
  <2> DEFINE p == DestroyPlanFor(StepConfig(step), state, cloud, reg)
  <2>0. step = "destroy" /\ at = "plan" /\ exit = "running"
    BY <1>7 DEF DestroyPlan
  <2>1. CASE RequireKvm(cycle) /\ exit' # "running"
    <3>1. exit' \in {"decode", "destroy"}
      BY <1>7, <2>0, <2>1 DEF DestroyPlan, Die, SavePlan
    <3>2. Reason
      BY <2>0, <2>1, <3>1 DEF Reason
    <3>3. UNCHANGED <<mode, cycle, step>>
      BY <1>7 DEF DestroyPlan, Die, SavePlan
    <3> QED BY <1>7, <2>0, <2>1, <3>2, <3>3 DEF DestroyPlan, Stopped
  <2>2. CASE ~(RequireKvm(cycle) /\ exit' # "running")
    <3>1. SavePlan(p)
      BY <1>7, <2>0, <2>2 DEF DestroyPlan, Die
    <3>2. OwnFile = p
      BY <2>0, <1>s DEF OwnFile
    <3> QED BY <1>7, <2>0, <3>1, <3>2, <1>s, <1>p DEF DestroyPlan, SavePlan, Saved
  <2> QED BY <2>1, <2>2
<1> QED BY <1>1, <1>2, <1>3, <1>4, <1>5, <1>6, <1>7

LEMMA PassingSteps ==
  ASSUME TypeOK, EstateInv
  PROVE  /\ Start => Moved \/ Stopped
         /\ ScopePlan => Permitted \/ Stopped
         /\ DigestChanged => Stopped
         /\ Probe => Moved \/ Outside \/ Stopped
         /\ PlanFails => Outside \/ Stopped
         /\ Capture => Moved \/ Stopped
         /\ InjectDrift => Moved \/ Stopped
         /\ AzureOnline => Moved \/ Outside \/ Stopped
         /\ ClientCheck => Moved
         /\ FinalPlan => Moved \/ Stopped
         /\ Forget => Moved
         /\ Absence => Moved \/ Stopped
         /\ Interrupt => Stopped
<1> USE DEF script, files, private, backend, world, history, bounds, Running
<1>s. /\ \A s \in WaitSteps \cup DriftSteps :
            s \notin {"start", "destroy", "absence", "az_bind", "az_approve"}
      /\ \A s \in {"capture", "client", "az_online", "start", "final",
                   "forget", "absence", "az_bind", "az_approve"} :
            s \notin DriftSteps \cup WaitSteps
      /\ WaitSteps \cap DriftSteps = {}
  BY DEF DriftSteps, WaitSteps
<1>p. {"start", "absence"} \cap PlanSteps = {}
  BY DEF PlanSteps, PhaseSteps, VerifySteps, ObserveSteps, AzureSteps
<1>f. faults \in Nat
  BY DEF TypeOK
<1>1. ASSUME Start PROVE Moved \/ Stopped
  <2>0. step = "start" /\ exit = "running" /\ mode \in Modes
    BY <1>1 DEF Start, TypeOK
  <2>1. CASE exit' # "running"
    <3>1. exit' \in {"no_mapping", "not_empty"} /\ mode \in {"verify", "build"}
      BY <1>1, <2>0, <2>1 DEF Start, GoTo, Die, Modes
    <3>2. Reason
      BY <2>0, <3>1 DEF Reason
    <3>3. UNCHANGED <<mode, cycle, step>>
      BY <1>1, <2>1 DEF Start, GoTo, Die
    <3> QED BY <1>1, <2>0, <2>1, <3>2, <3>3 DEF Start, Stopped
  <2>2. CASE exit' = "running"
    <3>1. /\ at' = "plan" /\ mode' = mode
          /\ \/ step' = "final" /\ cycle' = "verify" /\ mode = "verify"
             \/ step' = "destroy" /\ cycle' = "requested" /\ mode = "destroy"
             \/ /\ step' = "boot_create" /\ state = NoEstate
                /\ cycle' \in {"build", "first"} /\ mode # "destroy"
             \/ step' = "destroy" /\ cycle' = "initial" /\ mode # "destroy"
      BY <1>1, <2>0, <2>2 DEF Start, GoTo, Die
    <3>2. WayOn
      BY <2>0, <3>1 DEF WayOn
    <3> QED BY <1>1, <2>0, <2>2, <3>1, <3>2, <1>s DEF Start, Moved
  <2> QED BY <2>1, <2>2
<1>2. ASSUME ScopePlan PROVE Permitted \/ Stopped
  <2>0. at = "scope" /\ exit = "running"
    BY <1>2 DEF ScopePlan
  <2>1. CASE ScopePermits(StepScope(step, plan), plan)
    BY <1>2, <2>0, <2>1 DEF ScopePlan, Permitted
  <2>2. CASE ~ScopePermits(StepScope(step, plan), plan)
    <3>1. exit' = "scope"
      BY <1>2, <2>2 DEF ScopePlan, Die
    <3>2. step \in PlanSteps
      BY <2>0 DEF EstateInv, PlanIsCurrent
    <3>3. Reason
      BY <2>0, <2>2, <3>1, <3>2, <1>p DEF Reason
    <3> QED BY <1>2, <2>0, <2>2, <3>1, <3>3 DEF ScopePlan, Die, Stopped
  <2> QED BY <2>1, <2>2
<1>3. ASSUME DigestChanged PROVE Stopped
  <2>0. at = "apply" /\ exit = "running" /\ plan # Digest /\ exit' = "digest"
    BY <1>3 DEF DigestChanged, Die
  <2>1. step \in PlanSteps
    BY <2>0 DEF EstateInv, PlanIsCurrent
  <2>2. Reason
    BY <2>0, <2>1, <1>p DEF Reason
  <2> QED BY <1>3, <2>0, <2>2 DEF DigestChanged, Die, Stopped
<1>w. ASSUME PollAgain, Running, step \notin {"start", "destroy", "absence"},
             UNCHANGED <<files, state, shown, legacy, world, done, absent,
                         faults, overwrites>>
      PROVE  Outside \/ Stopped
  <2>1. CASE tries < MaxPolls
    BY <1>w, <2>1 DEF PollAgain, Outside
  <2>2. CASE ~(tries < MaxPolls)
    <3>1. exit' = "deadline"
      BY <1>w, <2>2 DEF PollAgain, Die
    <3>2. Reason
      BY <1>w, <3>1 DEF Reason
    <3> QED BY <1>w, <2>2, <3>1, <3>2 DEF PollAgain, Die, Stopped
  <2> QED BY <2>1, <2>2
<1>4. ASSUME Probe PROVE Moved \/ Outside \/ Stopped
  <2> DEFINE aws == Cardinality(AwsSites)
             kvm == IF step = "boot_wait" THEN 1 ELSE 0
             p == Planned(step)
  <2>0. step \in WaitSteps /\ exit = "running"
    BY <1>4 DEF Probe
  <2>1. CASE GateError(p, aws, kvm)
    <3>1. Die("gate") /\ UNCHANGED <<projection, done>>
      BY <1>4, <2>1 DEF Probe
    <3>2. exit' = "gate"
      BY <3>1 DEF Die
    <3>3. Reason
      BY <2>0, <2>1, <3>2, <1>s DEF Reason
    <3> QED BY <1>4, <2>0, <3>1, <3>2, <3>3 DEF Probe, Die, Stopped
  <2>2. CASE ~GateError(p, aws, kvm) /\ GateReady(p, aws, kvm)
    <3>1. /\ done' = done \cup {step}
          /\ GoTo(AfterWait(step, ApprovalCount(p)), cycle)
      BY <1>4, <2>2 DEF Probe
    <3>2. WayOn
      BY <2>0, <2>2, <3>1 DEF GoTo, WayOn
    <3> QED BY <1>4, <2>0, <3>1, <3>2, <1>s DEF Probe, GoTo, Moved
  <2>3. CASE ~GateError(p, aws, kvm) /\ ~GateReady(p, aws, kvm)
    <3>1. PollAgain /\ UNCHANGED <<projection, done>>
      BY <1>4, <2>3 DEF Probe
    <3> QED BY <1>4, <2>0, <3>1, <1>s, <1>w DEF Probe
  <2> QED BY <2>1, <2>2, <2>3
<1>5. ASSUME PlanFails PROVE Outside \/ Stopped
  BY <1>5, <1>s, <1>w DEF PlanFails
<1>6. ASSUME Capture PROVE Moved \/ Stopped
  <2>0. step = "capture" /\ exit = "running"
    BY <1>6 DEF Capture
  <2>1. CASE projection = AwsSites
    <3>1. Advance /\ done' = done \cup {step}
      BY <1>6, <2>1 DEF Capture
    <3>2. WayOn
      BY <2>0, <3>1 DEF Advance, GoTo, WayOn
    <3> QED BY <1>6, <2>0, <3>1, <3>2, <1>s DEF Capture, Advance, GoTo, Moved
  <2>2. CASE projection # AwsSites
    <3>1. exit' = "capture"
      BY <1>6, <2>2 DEF Capture, Die
    <3>2. Reason
      BY <2>0, <3>1 DEF Reason
    <3> QED BY <1>6, <2>0, <2>2, <3>1, <3>2 DEF Capture, Die, Stopped
  <2> QED BY <2>1, <2>2
<1>7. ASSUME InjectDrift PROVE Moved \/ Stopped
  <2>0. step \in DriftSteps /\ exit = "running"
    BY <1>7 DEF InjectDrift
  <2> DEFINE gone == \/ state[DriftTarget(step)] = "absent"
                     \/ step = "kvm_drift" /\ cloud[Site(KvmSite)] # "present"
  <2>1. CASE ~gone
    <3>1. /\ Advance /\ done' = done \cup {step}
          /\ cloud' = [cloud EXCEPT ![DriftTarget(step)] = "drifted"]
      BY <1>7, <2>1 DEF InjectDrift
    <3>2. WayOn
      BY <2>0, <3>1 DEF Advance, GoTo, WayOn
    <3> QED BY <1>7, <2>0, <2>1, <3>1, <3>2 DEF InjectDrift, Advance, GoTo, Moved
  <2>2. CASE gone
    <3>1. exit' = "drift"
      BY <1>7, <2>2 DEF InjectDrift, Die
    <3>2. Reason
      BY <2>0, <3>1, <1>s DEF Reason
    <3> QED BY <1>7, <2>0, <2>2, <3>1, <3>2 DEF InjectDrift, Die, Stopped
  <2> QED BY <2>1, <2>2
<1>8. ASSUME AzureOnline PROVE Moved \/ Outside \/ Stopped
  <2>0. step = "az_online" /\ exit = "running"
    BY <1>8 DEF AzureOnline
  <2>1. CASE \A s \in AzureSites : reg[s] = "ONLINE"
    <3>1. Advance /\ done' = done \cup {step}
      BY <1>8, <2>1 DEF AzureOnline
    <3>2. WayOn
      BY <2>0, <2>1, <3>1 DEF Advance, GoTo, NextStep, WayOn
    <3> QED BY <1>8, <2>0, <3>1, <3>2, <1>s DEF AzureOnline, Advance, GoTo, Moved
  <2>2. CASE ~(\A s \in AzureSites : reg[s] = "ONLINE")
    <3>1. PollAgain /\ UNCHANGED done
      BY <1>8, <2>2 DEF AzureOnline
    <3> QED BY <1>8, <2>0, <3>1, <1>w DEF AzureOnline
  <2> QED BY <2>1, <2>2
<1>9. ASSUME ClientCheck PROVE Moved
  <2>0. step = "client" /\ exit = "running"
    BY <1>9 DEF ClientCheck
  <2>1. WayOn
    BY <1>9, <2>0 DEF ClientCheck, Advance, GoTo, WayOn
  <2> QED BY <1>9, <2>0, <2>1, <1>s DEF ClientCheck, Advance, GoTo, Moved
<1>10. ASSUME FinalPlan PROVE Moved \/ Stopped
  <2> DEFINE unused == cycle \notin used \/ cycle # "verify"
             zero == ~legacy /\ ZeroChange(Planned(step))
  <2>0. step = "final" /\ exit = "running"
    BY <1>10 DEF FinalPlan
  <2>1. CASE ~unused
    <3>1. Die("reuse") /\ UNCHANGED done
      BY <1>10, <2>1 DEF FinalPlan
    <3>2. Reason
      BY <2>0, <3>1 DEF Reason, Die
    <3> QED BY <1>10, <2>0, <3>1, <3>2 DEF FinalPlan, Die, Stopped
  <2>2. CASE unused /\ ~AzureVerified
    <3>1. Die("azure_uat") /\ UNCHANGED done
      BY <1>10, <2>2 DEF FinalPlan
    <3>2. Reason
      BY <2>0, <3>1 DEF Reason, Die
    <3> QED BY <1>10, <2>0, <3>1, <3>2 DEF FinalPlan, Die, Stopped
  <2>3. CASE unused /\ AzureVerified /\ ~zero
    <3>1. Die("scope") /\ UNCHANGED done
      BY <1>10, <2>3 DEF FinalPlan
    <3>2. Reason
      BY <2>0, <2>3, <3>1 DEF Reason, Die
    <3> QED BY <1>10, <2>0, <3>1, <3>2 DEF FinalPlan, Die, Stopped
  <2>4. CASE unused /\ AzureVerified /\ zero
    <3>1. /\ done' = done \cup {step}
          /\ IF cycle = "first" THEN GoTo("forget", cycle) ELSE Pass
      BY <1>10, <2>4 DEF FinalPlan
    <3>2. CASE cycle = "first"
      <4>1. WayOn
        BY <2>0, <2>4, <3>1, <3>2 DEF GoTo, WayOn
      <4> QED BY <1>10, <2>0, <3>1, <3>2, <4>1, <1>s DEF FinalPlan, GoTo, Moved
    <3>3. CASE cycle # "first"
      <4>1. Pass
        BY <3>1, <3>3
      <4>2. Reason
        BY <2>0, <2>4, <4>1 DEF Reason, Pass
      <4> QED BY <1>10, <2>0, <3>1, <4>1, <4>2 DEF FinalPlan, Pass, Stopped
    <3> QED BY <3>2, <3>3
  <2> HIDE DEF unused, zero
  <2> QED BY <2>1, <2>2, <2>3, <2>4
<1>11. ASSUME Forget PROVE Moved
  <2>0. step = "forget" /\ exit = "running"
    BY <1>11 DEF Forget
  <2>1. WayOn
    BY <1>11, <2>0 DEF Forget, GoTo, WayOn
  <2> QED BY <1>11, <2>0, <2>1, <1>s DEF Forget, GoTo, Moved
<1>12. ASSUME Absence PROVE Moved \/ Stopped
  <2>0. step = "absence" /\ exit = "running"
    BY <1>12 DEF Absence
  <2>1. CASE \E a \in Queried : cloud[a] # "absent"
    <3>1. Die("absence") /\ UNCHANGED absent
      BY <1>12, <2>1 DEF Absence
    <3>2. Reason
      BY <2>0, <2>1, <3>1 DEF Reason, Die
    <3> QED BY <1>12, <2>0, <3>1, <3>2 DEF Absence, Die, Stopped
  <2>2. CASE ~(\E a \in Queried : cloud[a] # "absent")
    <3>1. /\ absent' = TRUE
          /\ CASE cycle = "initial" -> GoTo("boot_create", "first")
               [] cycle = "first" -> GoTo("boot_create", "second")
               [] OTHER -> Pass
      BY <1>12, <2>2 DEF Absence
    <3>2. CASE cycle \in {"initial", "first"}
      <4>1. /\ step' = "boot_create" /\ at' = "plan"
            /\ \/ cycle = "initial" /\ cycle' = "first"
               \/ cycle = "first" /\ cycle' = "second"
            /\ UNCHANGED <<mode, exit>>
        BY <3>1, <3>2 DEF GoTo
      <4>2. WayOn
        BY <2>0, <3>1, <4>1 DEF WayOn
      <4> QED BY <1>12, <2>0, <4>1, <4>2, <1>s DEF Absence, Moved
    <3>3. CASE cycle \notin {"initial", "first"}
      <4>1. Pass
        BY <3>1, <3>3
      <4>2. Reason
        BY <2>0, <3>3, <4>1 DEF Reason, Pass
      <4> QED BY <1>12, <2>0, <4>1, <4>2 DEF Absence, Pass, Stopped
    <3> QED BY <3>2, <3>3
  <2> QED BY <2>1, <2>2
<1>13. ASSUME Interrupt PROVE Stopped
  <2>1. exit' = "fault" /\ exit = "running"
    BY <1>13 DEF Interrupt, Die
  <2>2. Reason
    BY <2>1 DEF Reason
  <2> QED BY <1>13, <2>1, <2>2 DEF Interrupt, Die, Stopped
<1> QED BY <1>1, <1>2, <1>3, <1>4, <1>5, <1>6, <1>7, <1>8, <1>9, <1>10, <1>11,
           <1>12, <1>13

LEMMA Classes ==
  ASSUME TypeOK, EstateInv, [Next]_vars
  PROVE  StepClass
BY OutsideSteps, SavingSteps, PassingSteps
DEF Next, Script, Failures, StepClass

(* Which of them leave the script running, and which under review.          *)
Finished == Apply /\ exit' = "running"

LEMMA RunningClasses ==
  ASSUME TypeOK, EstateInv, [Next]_vars, Running'
  PROVE  \/ Outside /\ Running
         \/ Saved \/ Permitted \/ Moved \/ Rerun \/ Finished
BY Classes DEF StepClass, Outside, Stopped, ApplyStops, ApplyFails, Die, Running,
               Finished

LEMMA FinishedPlan == Finished => at' = "plan"
BY DEF Finished, Apply, Advance, GoTo, Die, CanApply, Running

LEMMA ReviewClasses ==
  ASSUME TypeOK, EstateInv, [Next]_vars, Running', at' # "plan"
  PROVE  \/ Outside /\ Running /\ at # "plan"
         \/ Saved \/ Permitted
<1>1. Moved \/ Rerun \/ Finished => at' = "plan"
  BY FinishedPlan DEF Moved, Rerun
<1>2. Outside => at' = at
  BY DEF Outside
<1> QED BY <1>1, <1>2, RunningClasses

LEMMA BuildingClasses ==
  ASSUME TypeOK, EstateInv, [Next]_vars, Building'
  PROVE  \/ (Outside \/ Saved \/ Permitted) /\ Building
         \/ Moved \/ Finished
<1>1. step' # "start" /\ Running'
  BY DEF Building
<1>2. Rerun => step' = "start"
  BY DEF Rerun
<1>3. Outside /\ Running => Building
  BY DEF Outside, Building, Running
<1>4. Saved \/ Permitted => Building
  BY DEF Saved, Permitted, Building, Running
<1> QED BY <1>1, <1>2, <1>3, <1>4, RunningClasses

(* A plan made now.                                                         *)
LEMMA PlannedParts ==
  ASSUME NEW s
  PROVE  /\ Planned(s).cfg = StepConfig(s)
         /\ Planned(s).before = Refreshed(state, cloud)
         /\ Planned(s).after = Wanted(StepConfig(s), reg)
         /\ Planned(s).online = OnlineSites(reg)
         /\ Planned(s).drift = Drifted(state, cloud)
         /\ Planned(s).outs = Outs
BY DEF Planned, PlanFor, PlanTo

LEMMA OtherPlanParts ==
  ASSUME NEW s
  PROVE  /\ LET p == DestroyPlanFor(StepConfig(s), state, cloud, reg)
            IN  /\ p.cfg = StepConfig(s) /\ p.after = NoEstate /\ p.outs = {}
                /\ p.before = Refreshed(state, cloud)
         /\ LET p == RefreshPlanFor(StepConfig(s), state, cloud, reg, Outs)
            IN  /\ p.after = Refreshed(state, cloud) /\ p.outs = Outs
                /\ p.before = Refreshed(state, cloud)
BY DEF DestroyPlanFor, RefreshPlanFor, PlanTo

LEMMA FreshBefore ==
  ASSUME NEW a \in Addresses
  PROVE  /\ state[a] = "absent" => Refreshed(state, cloud)[a] = "absent"
         /\ state[a] # "absent" => Refreshed(state, cloud)[a] = cloud[a]
BY DEF Refreshed

LEMMA OwnFileBefore == OwnFile.before = Refreshed(state, cloud)
<1>1. /\ Planned(step).before = Refreshed(state, cloud)
      /\ DestroyPlanFor(StepConfig(step), state, cloud, reg).before
           = Refreshed(state, cloud)
      /\ RefreshPlanFor(StepConfig(step), state, cloud, reg, Outs).before
           = Refreshed(state, cloud)
  BY PlannedParts, OtherPlanParts
<1> QED BY <1>1 DEF OwnFile

LEMMA PhaseFile ==
  ASSUME step \notin ObserveSteps \cup {"destroy"}
  PROVE  OwnFile = Planned(step)
BY DEF OwnFile

------------------------------------------------------------------------------
(* The plan under review.                                                   *)
LEMMA StepKindsApart ==
  /\ PhaseSteps \cap (VerifySteps \cup ObserveSteps \cup AzureSteps
                      \cup DriftSteps \cup WaitSteps) = {}
  /\ VerifySteps \cap (ObserveSteps \cup AzureSteps \cup DriftSteps
                      \cup WaitSteps) = {}
  /\ ObserveSteps \cap (AzureSteps \cup DriftSteps \cup WaitSteps) = {}
  /\ AzureSteps \cap (DriftSteps \cup WaitSteps) = {}
  /\ DriftSteps \cap WaitSteps = {}
  /\ {"start", "capture", "lan", "client", "final", "forget", "destroy",
      "absence"} \cap (PhaseSteps \cup VerifySteps \cup ObserveSteps
                       \cup AzureSteps \cup DriftSteps \cup WaitSteps) = {}
BY DEF PhaseSteps, VerifySteps, ObserveSteps, AzureSteps, DriftSteps, WaitSteps

(* A retirement plan creates nothing.                                       *)
LEMMA RetirementCreates ==
  ASSUME NEW p, RetirementShape(p)
  PROVE  Created(p) = {}
BY DEF RetirementShape, Created, Deleted, With

LEMMA NextNamesFree ==
  ASSUME TypeOK, EstateInv, NamesFree, [Next]_vars
  PROVE  NamesFree'
<1> SUFFICES ASSUME Running', at' # "plan", step' \in PhaseSteps
             PROVE  Colliding(receipt', cloud') = {}
  BY DEF NamesFree
<1>1. CASE Outside /\ Running /\ at # "plan"
  <2>1. Colliding(receipt, cloud) = {} /\ receipt' = receipt
    BY <1>1 DEF Outside, NamesFree
  <2>2. \A a \in Created(receipt) : cloud'[a] # "absent" => cloud[a] # "absent"
    BY <1>1 DEF Outside, Created, With, Changes
  <2> QED BY <2>1, <2>2 DEF Colliding
<1>2. CASE Saved
  <2>1. /\ receipt' = Planned(step) /\ cloud' = cloud
        /\ Preflight(AwsPhase(step), Planned(step), cloud)
    BY <1>2, PhaseFile, StepKindsApart DEF Saved
  <2>2. CASE AwsPhase(step) = "bootstrap_retirement"
    BY <2>1, <2>2, RetirementCreates DEF Preflight, Colliding
  <2>3. CASE AwsPhase(step) # "bootstrap_retirement"
    BY <2>1, <2>3 DEF Preflight
  <2> QED BY <2>1, <2>2, <2>3
<1>3. CASE Permitted
  BY <1>3 DEF Permitted, NamesFree, Running
<1> QED BY <1>1, <1>2, <1>3, ReviewClasses

LEMMA NextPlanFollows ==
  ASSUME TypeOK, EstateInv, PlanFollows, [Next]_vars
  PROVE  PlanFollows'
<1> SUFFICES ASSUME Running', at' # "plan", NEW p \in {plan', Reviewed'},
                    NEW a \in Held(state')
             PROVE  \/ cloud'[a] = p.before[a]
                    \/ a \in AzureSiteAddresses /\ cloud'[a] = "drifted"
  BY DEF PlanFollows, AzureSiteAddresses
<1>a. a \in Addresses
  BY DEF Held
<1>1. CASE Outside /\ Running /\ at # "plan"
  <2>1. a \in Held(state) /\ state[a] # "absent"
    BY <1>1 DEF Outside, Held
  <2>2. p \in {plan, Reviewed}
             \cup {Planned("final"),
                   DestroyPlanFor(StepConfig("destroy"), state, cloud, reg)}
    BY <1>1 DEF Outside, Reviewed
  <2>3. \/ cloud[a] = p.before[a]
        \/ a \in AzureSiteAddresses /\ cloud[a] = "drifted"
    <3>1. CASE p \in {plan, Reviewed}
      BY <1>1, <2>1, <3>1 DEF PlanFollows
    <3>2. CASE p \in {Planned("final"),
                      DestroyPlanFor(StepConfig("destroy"), state, cloud, reg)}
      <4>1. p.before = Refreshed(state, cloud)
        BY <3>2, PlannedParts, OtherPlanParts
      <4> QED BY <1>a, <2>1, <4>1, FreshBefore
    <3> QED BY <2>2, <3>1, <3>2
  <2>4. \/ cloud'[a] = cloud[a]
        \/ cloud'[a] = "drifted" /\ a \in AzureSiteAddresses
    BY <1>1, <1>a DEF Outside, AzureSiteAddresses
  <2> QED BY <2>3, <2>4
<1>2. CASE Saved
  <2>1. p = OwnFile
    BY <1>2 DEF Saved, Reviewed
  <2>2. state' = state /\ cloud' = cloud
    BY <1>2 DEF Saved
  <2> QED BY <1>a, <2>1, <2>2, OwnFileBefore, FreshBefore DEF Held
<1>3. CASE Permitted
  <2>1. /\ plan' = plan /\ Reviewed' = Reviewed /\ state' = state
        /\ cloud' = cloud /\ at # "plan" /\ Running
    BY <1>3 DEF Permitted, Reviewed
  <2> QED BY <2>1 DEF PlanFollows
<1> QED BY <1>1, <1>2, <1>3, ReviewClasses

LEMMA NextPlanKept ==
  ASSUME TypeOK, EstateInv, PlanKept, [Next]_vars
  PROVE  PlanKept'
<1> SUFFICES ASSUME Running', at' # "plan", overwrites' = 0,
                    at' = "apply" \/ step' \in PhaseSteps
             PROVE  plan' = Digest'
  BY DEF PlanKept
<1>1. CASE Outside /\ Running /\ at # "plan"
  <2>1. plan' = plan /\ overwrites = 0
    BY <1>1 DEF Outside, TypeOK
  <2> QED BY <1>1, <2>1 DEF Outside, PlanKept, Digest
<1>2. CASE Saved
  BY <1>2 DEF Saved, Digest
<1>3. CASE Permitted
  BY <1>3 DEF Permitted, PlanKept, Digest
<1> QED BY <1>1, <1>2, <1>3, ReviewClasses

------------------------------------------------------------------------------
(* Applies.                                                                 *)

(* What an apply, complete or not, makes of one object.                     *)
LEMMA AppliedValues ==
  ASSUME TypeOK, EstateInv, PlanFollows, CanApply,
         NEW part \in SUBSET Changes(plan), NEW orphan \in SUBSET Created(plan),
         Applied(plan, part, orphan), NEW a \in Addresses
  PROVE  /\ a \in part =>
              state'[a] = plan.after[a] /\ cloud'[a] = plan.after[a]
         /\ a \notin part => state'[a] = plan.before[a]
         /\ a \notin part \cup orphan => cloud'[a] = cloud[a]
         /\ a \in orphan =>
              plan.before[a] = "absent" /\ cloud'[a] = plan.after[a]
         /\ plan.before[a] = "absent" <=> state[a] = "absent"
         /\ state[a] # "absent" =>
              \/ cloud[a] = plan.before[a]
              \/ a \in AzureSiteAddresses /\ cloud[a] = "drifted"
<1>1. /\ plan \in Plans /\ Held(plan.before) = Held(state)
      /\ Running /\ at # "plan"
  BY CanApplyHasPlan DEF CanApply, EstateInv, PlanIsCurrent
<1>2. a \in orphan => plan.before[a] = "absent"
  BY <1>1, ActionOfChange DEF Created, With
<1>3. plan.before[a] = "absent" <=> state[a] = "absent"
  BY <1>1 DEF Held
<1>4. state[a] # "absent" =>
        \/ cloud[a] = plan.before[a]
        \/ a \in AzureSiteAddresses /\ cloud[a] = "drifted"
  BY <1>1 DEF PlanFollows, Held
<1> QED BY <1>2, <1>3, <1>4 DEF Applied, StateAfter, CloudAfter

(* The parts of the three applies.                                          *)
LEMMA ApplyParts ==
  ASSUME Apply \/ ApplyStops \/ ApplyFails
  PROVE  /\ CanApply
         /\ \E part \in SUBSET Changes(plan), orphan \in SUBSET Created(plan) :
              /\ Applied(plan, part, orphan)
              /\ orphan \cap Approvals = {}
              /\ ApplyFails \/ orphan = {}
              /\ ~Orphans => orphan = {}
<1>0. {} \in SUBSET Created(plan)
  OBVIOUS
<1>1. CASE Apply
  BY <1>0, <1>1 DEF Apply
<1>2. CASE ApplyStops
  <2>1. Changes(plan) \ (Taken(plan) \cup {AwsTgw, KvmBgp})
          \in SUBSET Changes(plan)
    OBVIOUS
  <2> QED BY <1>0, <1>2, <2>1 DEF ApplyStops
<1>3. CASE ApplyFails
  <2>1. PICK part \in FailedParts(plan) :
          \E orphan \in Orphaned(plan, part) : Applied(plan, part, orphan)
    BY <1>3 DEF ApplyFails
  <2>2. PICK orphan \in Orphaned(plan, part) : Applied(plan, part, orphan)
    BY <2>1
  <2>3. part \in SUBSET Changes(plan)
    BY DEF FailedParts
  <2>4. /\ orphan \in SUBSET Created(plan) /\ orphan \cap Approvals = {}
        /\ ~Orphans => orphan = {}
    BY DEF Orphaned
  <2> QED BY <1>3, <2>2, <2>3, <2>4 DEF ApplyFails
<1> QED BY <1>1, <1>2, <1>3

(* What stays of the world when the script does not apply.                  *)
LEMMA WorldClasses ==
  ASSUME TypeOK, EstateInv, [Next]_vars
  PROVE  \/ Outside \/ Moved
         \/ UNCHANGED <<state, cloud, reg, real, shown, legacy>>
              /\ faults' \in {faults, faults + 1}
         \/ Apply \/ ApplyStops \/ ApplyFails
<1>1. Saved \/ Permitted \/ Stopped \/ Rerun =>
        /\ UNCHANGED <<state, cloud, reg, real, shown, legacy>>
        /\ faults' \in {faults, faults + 1}
  BY DEF Saved, Permitted, Stopped, Rerun, backend, world
<1> QED BY <1>1, Classes DEF StepClass

LEMMA DriftInjected ==
  ASSUME TypeOK, Moved, NEW a \in Addresses
  PROVE  \/ cloud'[a] = cloud[a]
         \/ /\ cloud'[a] = "drifted" /\ state[a] # "absent"
            /\ step \in DriftSteps /\ a = DriftTarget(step)
BY DEF Moved, TypeOK, Estates

(* The clouds hold what the state says, or a drifted version of it.         *)
LEMMA NextStateFollows ==
  ASSUME TypeOK, EstateInv, PlanFollows, StateFollows, [Next]_vars
  PROVE  StateFollows'
<1> SUFFICES ASSUME NEW a \in Addresses, state'[a] # "absent"
             PROVE  cloud'[a] \in {state'[a], "drifted"}
  BY DEF StateFollows, Held
<1>1. ASSUME state' = state, cloud'[a] \in {cloud[a], "drifted"}
      PROVE  cloud'[a] \in {state'[a], "drifted"}
  BY <1>1 DEF StateFollows, Held
<1>2. CASE Outside
  BY <1>1, <1>2 DEF Outside
<1>3. CASE Moved
  BY <1>1, <1>3, DriftInjected DEF Moved
<1>4. CASE UNCHANGED <<state, cloud, reg, real, shown, legacy>>
  BY <1>1, <1>4
<1>5. CASE Apply \/ ApplyStops \/ ApplyFails
  <2>1. CanApply
    BY <1>5, ApplyParts
  <2>2. PICK part \in SUBSET Changes(plan), orphan \in SUBSET Created(plan) :
          Applied(plan, part, orphan)
    BY <1>5, ApplyParts
  <2> QED BY <2>1, <2>2, AppliedValues
<1> QED BY <1>2, <1>3, <1>4, <1>5, WorldClasses

LEMMA HeldSteps ==
  ASSUME TypeOK, EstateInv, [Next]_vars
  PROVE  \/ Apply \/ ApplyStops \/ ApplyFails
         \/ SameObjects /\ faults' \in {faults, faults + 1}
<1> SUFFICES ASSUME ~(Apply \/ ApplyStops \/ ApplyFails)
             PROVE  SameObjects /\ faults' \in {faults, faults + 1}
  OBVIOUS
<1>1. faults' \in {faults, faults + 1}
  BY WorldClasses DEF Outside, Moved
<1>2. CASE Outside
  <2>1. Held(cloud') = Held(cloud)
    BY <1>2 DEF Outside, Held
  <2> QED BY <1>1, <1>2, <2>1 DEF Outside, SameObjects
<1>3. CASE Moved
  <2>1. \A a \in Addresses : state[a] # "absent" => cloud[a] # "absent"
    BY DEF EstateInv, CloudCovers, Held
  <2>2. Held(cloud') = Held(cloud)
    BY <1>3, <2>1, DriftInjected DEF Held
  <2> QED BY <1>1, <1>3, <2>2 DEF Moved, SameObjects
<1>4. CASE UNCHANGED <<state, cloud, reg, real, shown, legacy>>
  BY <1>1, <1>4 DEF SameObjects
<1> QED BY <1>2, <1>3, <1>4, WorldClasses

(* Outside of the state the clouds hold no approval, and nothing at all     *)
(* before an apply has failed.                                              *)
LEMMA NextStraysKnown ==
  ASSUME TypeOK, EstateInv, PlanFollows, StraysKnown, [Next]_vars
  PROVE  StraysKnown'
<1>1. CASE SameObjects /\ faults' \in {faults, faults + 1}
  <2>1. faults' = 0 => faults = 0
    BY <1>1 DEF TypeOK
  <2>2. Held(cloud') = Held(cloud) /\ Held(state') = Held(state)
    BY <1>1 DEF SameObjects
  <2> QED BY <2>1, <2>2 DEF StraysKnown
<1>2. CASE Apply \/ ApplyStops \/ ApplyFails
  <2>1. CanApply
    BY <1>2, ApplyParts
  <2>2. PICK part \in SUBSET Changes(plan), orphan \in SUBSET Created(plan) :
          /\ Applied(plan, part, orphan)
          /\ orphan \cap Approvals = {}
          /\ ApplyFails \/ orphan = {}
          /\ ~Orphans => orphan = {}
    BY <1>2, ApplyParts
  <2>3. ASSUME NEW a \in Addresses, cloud'[a] # "absent", a \notin orphan,
               cloud[a] # "absent" => state[a] # "absent"
        PROVE  state'[a] # "absent"
    BY <2>1, <2>2, <2>3, AppliedValues
  <2>4. Held(cloud') \cap Approvals \subseteq Held(state')
    BY <2>2, <2>3 DEF StraysKnown, Held
  <2>5. ASSUME ~Orphans \/ faults' = 0 PROVE Held(cloud') = Held(state')
    <3>1. ApplyFails => faults' # 0
      BY DEF ApplyFails, TypeOK
    <3>2. orphan = {}
      BY <2>2, <2>5, <3>1
    <3>3. ~Orphans \/ faults = 0
      BY <2>5, <1>2 DEF Apply, ApplyStops, ApplyFails, bounds, TypeOK
    <3>4. Held(cloud') \subseteq Held(state')
      BY <2>3, <3>2, <3>3 DEF StraysKnown, Held
    <3>5. Held(state') \subseteq Held(cloud')
      BY NextCovers DEF CloudCovers
    <3> QED BY <3>4, <3>5
  <2> QED BY <2>4, <2>5 DEF StraysKnown
<1> QED BY <1>1, <1>2, HeldSteps

------------------------------------------------------------------------------
(* The modes and the way through a destroy.                                 *)

(* An apply that goes through goes to the next step or plans again.         *)
LoopSteps == VerifySteps \cup {"settle"}

LEMMA FinishedStep ==
  ASSUME TypeOK, EstateInv, Finished
  PROVE  /\ CanApply /\ Running /\ at = "apply" /\ step \in PlanSteps
         /\ UNCHANGED <<mode, cycle, faults, overwrites>>
         /\ step \in LoopSteps => step' = step /\ done' = done
         /\ step \notin LoopSteps =>
              step' = NextStep(step) /\ done' = done \cup {step}
         /\ step = "destroy" => state' = NoEstate
         /\ at' = "plan" /\ shown' = real'
<1>1. CanApply /\ Running /\ at = "apply" /\ step \in PlanSteps
  BY DEF Finished, Apply, CanApply, EstateInv, PlanIsCurrent
<1>2. CASE step \in LoopSteps
  <2>1. step # "destroy"
    BY <1>2, StepKindsApart DEF LoopSteps
  <2> QED BY <1>1, <1>2, <2>1 DEF Finished, Apply, LoopSteps, bounds
<1>3. CASE step \notin LoopSteps
  <2>1. CASE step = "destroy" /\ state' # NoEstate
    BY <1>3, <2>1 DEF Finished, Apply, LoopSteps, Die
  <2>2. CASE ~(step = "destroy" /\ state' # NoEstate)
    <3>1. Advance /\ done' = done \cup {step}
      BY <1>3, <2>2 DEF Finished, Apply, LoopSteps
    <3> QED BY <1>1, <1>3, <2>2, <3>1 DEF Finished, Apply, Advance, GoTo, bounds
  <2> QED BY <2>1, <2>2
<1> QED BY <1>2, <1>3

LEMMA NextSteps ==
  /\ NextStep("boot_create") = "boot_wait"
  /\ NextStep("boot_approve") = "capture" /\ NextStep("capture") = "retire"
  /\ NextStep("retire") = "conf_create"
  /\ NextStep("conf_create") = "conf_wait"
  /\ NextStep("conf_approve") = "tgw" /\ NextStep("tgw") = "healthy"
  /\ NextStep("healthy") = "eni_drift"
  /\ NextStep("eni_drift") = "eni_observe"
  /\ NextStep("eni_observe") = "eni_repair"
  /\ NextStep("eni_repair") = "eni_verify"
  /\ NextStep("eni_verify") = "kvm_drift"
  /\ NextStep("kvm_drift") = "kvm_observe"
  /\ NextStep("kvm_observe") = "kvm_repair"
  /\ NextStep("kvm_repair") = "kvm_verify"
  /\ NextStep("kvm_verify") = "lan" /\ NextStep("lan") = "client"
  /\ NextStep("client") = "az_build" /\ NextStep("az_build") = "az_bind"
  /\ NextStep("az_bind") = "az_approve"
  /\ NextStep("az_approve") = "az_online"
  /\ NextStep("destroy") = "absence"
BY DEF NextStep

(* The steps an apply, or the way on without one, leads to.                 *)
LEMMA AppliedNext ==
  ASSUME step \in PlanSteps \ LoopSteps
  PROVE  \/ step = "boot_create" /\ NextStep(step) = "boot_wait"
         \/ step = "boot_approve" /\ NextStep(step) = "capture"
         \/ step = "retire" /\ NextStep(step) = "conf_create"
         \/ step = "conf_create" /\ NextStep(step) = "conf_wait"
         \/ step = "conf_approve" /\ NextStep(step) = "tgw"
         \/ step = "tgw" /\ NextStep(step) = "healthy"
         \/ step = "eni_observe" /\ NextStep(step) = "eni_repair"
         \/ step = "eni_repair" /\ NextStep(step) = "eni_verify"
         \/ step = "kvm_observe" /\ NextStep(step) = "kvm_repair"
         \/ step = "kvm_repair" /\ NextStep(step) = "kvm_verify"
         \/ step = "lan" /\ NextStep(step) = "client"
         \/ step = "az_build" /\ NextStep(step) = "az_bind"
         \/ step = "az_bind" /\ NextStep(step) = "az_approve"
         \/ step = "az_approve" /\ NextStep(step) = "az_online"
         \/ step = "destroy" /\ NextStep(step) = "absence"
<1>1. step \in {"boot_create", "boot_approve", "retire", "conf_create",
                "conf_approve", "tgw", "eni_repair", "kvm_repair",
                "eni_observe", "kvm_observe", "az_build", "az_bind",
                "az_approve", "lan", "destroy"}
  BY DEF PlanSteps, LoopSteps, PhaseSteps, VerifySteps, ObserveSteps,
         AzureSteps
<1> QED BY <1>1, NextSteps

LEMMA QuietNext ==
  ASSUME WayOn
  PROVE  \/ /\ step = "start"
            /\ \/ step' = "boot_create" /\ state = NoEstate
                    /\ cycle' \in {"build", "first"} /\ mode # "destroy"
               \/ step' = "final" /\ cycle' = "verify" /\ mode = "verify"
               \/ /\ step' = "destroy"
                  /\ cycle' = IF mode = "destroy" THEN "requested" ELSE "initial"
         \/ /\ cycle' = cycle
            /\ \/ step = "boot_wait" /\ step' \in {"boot_approve", "capture"}
               \/ step = "conf_wait" /\ step' \in {"conf_approve", "tgw"}
               \/ step = "capture" /\ step' = "retire"
               \/ step = "healthy" /\ step' = "eni_drift"
               \/ step = "eni_drift" /\ step' = "eni_observe"
               \/ step = "eni_verify" /\ step' = "kvm_drift"
               \/ step = "kvm_drift" /\ step' = "kvm_observe"
               \/ step = "kvm_verify" /\ step' = "lan"
               \/ step = "client" /\ step' = "az_build"
               \/ /\ step = "az_online" /\ step' = "settle"
                  /\ \A s \in AzureSites : reg[s] = "ONLINE"
               \/ /\ step = "settle" /\ step' = "final"
                  /\ ZeroChange(Planned(step))
               \/ /\ step = "final" /\ step' = "forget" /\ cycle = "first"
                  /\ AzureVerified /\ ZeroChange(Planned(step))
               \/ step = "forget" /\ step' = "destroy"
         \/ /\ step = "absence" /\ step' = "boot_create" /\ absent'
            /\ \/ cycle = "initial" /\ cycle' = "first"
               \/ cycle = "first" /\ cycle' = "second"
<1>1. \A n : /\ AfterWait("boot_wait", n) \in {"boot_approve", "capture"}
             /\ AfterWait("conf_wait", n) \in {"conf_approve", "tgw"}
  BY DEF AfterWait
<1>2. step \in WaitSteps => step \in {"boot_wait", "conf_wait"}
  BY DEF WaitSteps
<1>3. /\ step \in VerifySteps => step \in {"healthy", "eni_verify", "kvm_verify"}
      /\ step \in DriftSteps => step \in {"eni_drift", "kvm_drift"}
  BY DEF VerifySteps, DriftSteps
<1> QED BY <1>1, <1>2, <1>3, NextSteps DEF WayOn

LEMMA NextCyclesKnown ==
  ASSUME TypeOK, EstateInv, CyclesKnown, [Next]_vars
  PROVE  CyclesKnown'
<1> SUFFICES ASSUME Running'
             PROVE  /\ cycle' = "verify" => step' = "final" /\ mode' = "verify"
                    /\ cycle' = "requested" => mode' = "destroy"
                    /\ step' = "forget" => cycle' = "first"
                    /\ step' \in {"destroy", "absence"} =>
                         cycle' \in {"requested", "initial", "first"}
                    /\ mode' = "destroy" =>
                         \/ step' = "start"
                         \/ step' \in {"destroy", "absence"}
                              /\ cycle' = "requested"
  BY DEF CyclesKnown
<1>1. CASE (Outside \/ Saved \/ Permitted) /\ Running
  <2>1. UNCHANGED <<mode, cycle, step>>
    BY <1>1 DEF Outside, Saved, Permitted
  <2> QED BY <1>1, <2>1 DEF CyclesKnown
<1>2. CASE Moved
  <2>1. Running /\ mode' = mode /\ WayOn
    BY <1>2 DEF Moved
  <2>2. /\ cycle = "verify" => step = "final" /\ mode = "verify"
        /\ cycle = "requested" => mode = "destroy"
        /\ step = "forget" => cycle = "first"
        /\ step \in {"destroy", "absence"} =>
             cycle \in {"requested", "initial", "first"}
        /\ mode = "destroy" =>
             \/ step = "start"
             \/ step \in {"destroy", "absence"} /\ cycle = "requested"
    BY <2>1 DEF CyclesKnown
  <2> QED BY <2>1, <2>2, QuietNext
<1>3. CASE Rerun
  BY <1>3 DEF Rerun
<1>4. CASE Finished
  <2>1. /\ UNCHANGED <<mode, cycle>> /\ step \in PlanSteps /\ Running
        /\ \/ step \in LoopSteps /\ step' = step
           \/ step \notin LoopSteps /\ step' = NextStep(step)
    BY <1>4, FinishedStep
  <2>2. step \notin {"start", "final", "forget", "absence"}
    BY <2>1, StepKindsApart DEF PlanSteps
  <2>3. CASE step \in LoopSteps
    <3>1. step # "destroy"
      BY <2>3, StepKindsApart DEF LoopSteps
    <3> QED BY <2>1, <2>2, <2>3, <3>1 DEF CyclesKnown
  <2>4. CASE step \notin LoopSteps
    <3>1. /\ step' \notin {"start", "final", "forget", "destroy"}
          /\ step' = "absence" => step = "destroy"
      BY <2>1, <2>4, AppliedNext
    <3>2. mode = "destroy" => step = "destroy" /\ step' = "absence"
      BY <2>1, <2>2, <2>4, NextSteps DEF CyclesKnown
    <3> QED BY <2>1, <2>2, <3>1, <3>2 DEF CyclesKnown
  <2> QED BY <2>3, <2>4
<1> QED BY <1>1, <1>2, <1>3, <1>4, RunningClasses DEF Saved, Permitted

LEMMA NextSecondBuild ==
  ASSUME TypeOK, EstateInv, StraysKnown, FirstDestroyed, SecondBuildFromNothing,
         [Next]_vars
  PROVE  SecondBuildFromNothing'
<1> SUFFICES ASSUME step' = "boot_create", cycle' = "second", at' = "plan",
                    Running'
             PROVE  absent' /\ state' = NoEstate /\ Held(cloud') = {}
  BY DEF SecondBuildFromNothing
<1>1. CASE Outside /\ Running
  <2>1. absent /\ state = NoEstate /\ Held(cloud) = {}
    BY <1>1 DEF Outside, SecondBuildFromNothing
  <2>2. Held(cloud') = {}
    BY <1>1, <2>1 DEF Outside, Held
  <2> QED BY <1>1, <2>1, <2>2 DEF Outside
<1>2. CASE Saved \/ Permitted
  BY <1>2 DEF Saved, Permitted
<1>3. CASE Moved
  <2>1. step = "absence" /\ absent' /\ cycle = "first"
    BY <1>3, QuietNext DEF Moved
  <2>2. cloud' = cloud /\ state' = state
    BY <1>3, <2>1, StepKindsApart DEF Moved
  <2>3. Held(cloud) = {} /\ state = NoEstate
    BY <1>3, <2>1 DEF Moved, FirstDestroyed, EstateInv, StartsEmpty
  <2> QED BY <2>1, <2>2, <2>3
<1>4. CASE Rerun
  BY <1>4 DEF Rerun
<1>5. CASE Finished
  <2>1. /\ step \in PlanSteps
        /\ \/ step \in LoopSteps /\ step' = step
           \/ step \notin LoopSteps /\ step' = NextStep(step)
    BY <1>5, FinishedStep
  <2>2. "boot_create" \notin LoopSteps
    BY DEF LoopSteps, VerifySteps
  <2> QED BY <2>1, <2>2, AppliedNext
<1> QED BY <1>1, <1>2, <1>3, <1>4, <1>5, RunningClasses

(* No step wants a drifted object; the two generations of a site are of AWS *)
(* sites alone; a complete deployment lacks only approvals.                 *)
LEMMA TargetPlain ==
  ASSUME NEW s, NEW a \in Addresses
  PROVE  /\ Target(s)[a] # "drifted"
         /\ Target(s)[a] \in {"bootstrap", "final"} =>
              \E x \in AwsSites : a = Site(x)
<1>1. CASE a \in AwsAddresses
  <2>1. CASE a = AwsNetwork \/ a = AwsTgw
    BY <2>1, TargetAws
  <2>2. ASSUME NEW x \in AwsSites, a = Approval(x) PROVE Target(s)[a] = "absent"
    BY <2>2, TargetAws
  <2>3. ASSUME NEW x \in AwsSites, a = Site(x)
        PROVE  Target(s)[a] \in {"bootstrap", "final", "absent"}
    BY <2>3, TargetAws, TypeOfConfig
  <2> QED BY <1>1, <2>1, <2>2, <2>3, AddressKinds
<1>2. CASE a \in KvmAddresses
  BY <1>2, TargetKvm, AddressKinds
<1>3. CASE a \in AzureAddresses
  <2>1. CASE ~StepConfig(s).azure
    BY <1>3, <2>1, TargetAzure
  <2>2. CASE StepConfig(s).azure
    <3>1. Target(s)[AzureHub] = "present"
      BY <2>2, TargetAzure
    <3>2. ASSUME NEW x \in AzureSites
          PROVE  /\ Target(s)[Site(x)] \in {"bound", "unbound"}
                 /\ Target(s)[Approval(x)] \in {"present", "absent"}
      BY <2>2, TargetAzure
    <3> QED BY <1>3, <3>1, <3>2, AddressKinds
  <2> QED BY <2>1, <2>2, TypeOfConfig
<1> QED BY <1>1, <1>2, <1>3 DEF Addresses

LEMMA ApprovalsOf ==
  /\ \A s \in Sites : Approval(s) \in Approvals /\ Approval(s) \in Addresses
  /\ \A s : Site(s) \notin Approvals
  /\ {AwsNetwork, AwsTgw, KvmBgp, KvmLan, AzureHub} \cap Approvals = {}
<1>1. \A s \in Sites : Approval(s) \in Approvals
  BY DEF Approvals
<1>2. \A s \in Sites : Approval(s) \in Addresses
  BY AddressesOf DEF Sites
<1>3. \A s : Site(s) \notin Approvals
  BY ObjectsApart DEF Approvals
<1>4. {AwsNetwork, AwsTgw, KvmBgp, KvmLan, AzureHub} \cap Approvals = {}
  BY ObjectsApart DEF Approvals
<1> QED BY <1>1, <1>2, <1>3, <1>4

LEMMA FinalConfig ==
  /\ StepConfig("final") =
       [aws |-> "configured", tgw |-> TRUE, azure |-> TRUE,
        azphase |-> "configured", approve |-> TRUE, lan |-> "configured"]
  /\ Target("final") = Converged /\ Target("settle") = Converged
  /\ StepConfig("settle") = StepConfig("final")
BY StepConfigs, SameTargets

LEMMA ConvergedValues ==
  ASSUME NEW a \in Addresses
  PROVE  /\ Converged[a] # "drifted"
         /\ Converged[a] = "absent" =>
              \E s \in AwsKvmSites : a = Approval(s)
         /\ \A s \in AwsKvmSites : a = Approval(s) => Converged[a] = "absent"
<1>1. Converged[a] # "drifted"
  BY FinalConfig, TargetPlain
<1>2. CASE a \in AwsAddresses
  <2>1. /\ Converged[AwsNetwork] = "present" /\ Converged[AwsTgw] = "present"
        /\ \A x \in AwsSites : /\ Converged[Site(x)] = "final"
                               /\ Converged[Approval(x)] = "absent"
    BY FinalConfig, TargetAws
  <2>2. \A s \in AwsKvmSites : a = Approval(s) => s \in AwsSites
    BY <1>2, LanesApart, AddressesOf DEF AwsKvmSites
  <2> QED BY <1>1, <1>2, <2>1, <2>2, AddressKinds DEF AwsKvmSites
<1>3. CASE a \in KvmAddresses
  <2>1. /\ Converged[Site(KvmSite)] = "present"
        /\ Converged[Approval(KvmSite)] = "absent"
        /\ Converged[KvmBgp] = "present" /\ Converged[KvmLan] = "present"
    BY FinalConfig, TargetKvm
  <2>2. \A s \in AwsKvmSites : a = Approval(s) => s = KvmSite
    BY <1>3, LanesApart, AddressesOf DEF AwsKvmSites
  <2> QED BY <1>1, <1>3, <2>1, <2>2, AddressKinds DEF AwsKvmSites
<1>4. CASE a \in AzureAddresses
  <2>1. /\ Converged[AzureHub] = "present"
        /\ \A x \in AzureSites : /\ Converged[Site(x)] = "bound"
                                 /\ Converged[Approval(x)] = "present"
    BY FinalConfig, TargetAzure
  <2>2. \A s \in AwsKvmSites : a # Approval(s)
    BY <1>4, LanesApart, AddressesOf DEF AwsKvmSites
  <2> QED BY <1>1, <1>4, <2>1, <2>2, AddressKinds
<1> QED BY <1>2, <1>3, <1>4 DEF Addresses

(* A plan that changes nothing.                                             *)
LEMMA NothingToChange ==
  ASSUME NEW s, Changes(Planned(s)) = {}, NEW a \in Addresses
  PROVE  Refreshed(state, cloud)[a] = Wanted(StepConfig(s), reg)[a]
BY PlannedParts DEF Changes

(* ... for a complete deployment finds everything there but approvals.      *)
LEMMA CompleteMeansHeld ==
  ASSUME Changes(Planned("final")) = {}, NEW a \in Addresses, a \notin Approvals
  PROVE  state[a] # "absent"
<1>1. Wanted(StepConfig("final"), reg)[a] = Converged[a]
  <2>1. CASE a \in AwsKvmAddresses
    BY <2>1, WantedNear, FinalConfig, ApprovalsOf DEF AwsKvmSites, Sites
  <2>2. CASE a \in AzureAddresses
    BY <2>2, WantedAzureNear, FinalConfig, ApprovalsOf DEF Sites
  <2> QED BY <2>1, <2>2 DEF Addresses, AwsKvmAddresses
<1>2. Converged[a] # "absent"
  BY ConvergedValues, ApprovalsOf DEF AwsKvmSites, Sites
<1> QED BY <1>1, <1>2, NothingToChange, FreshBefore

LEMMA NextFirstDestroyed ==
  ASSUME TypeOK, EstateInv, PlanFollows, StraysKnown, CyclesKnown,
         FirstDestroyed, [Next]_vars
  PROVE  FirstDestroyed'
<1> SUFFICES ASSUME Running', cycle' = "first"
             PROVE  /\ step' \in {"forget", "destroy"} =>
                         Held(cloud') = Held(state')
                    /\ step' = "absence" => Held(cloud') = {}
  BY DEF FirstDestroyed
<1>1. CASE (Outside \/ Saved \/ Permitted) /\ Running
  <2>1. /\ UNCHANGED <<cycle, step, state>> /\ Held(cloud') = Held(cloud)
    BY <1>1 DEF Outside, Saved, Permitted, Held
  <2>2. Held(state') = Held(state)
    BY <2>1
  <2> QED BY <1>1, <2>1, <2>2 DEF FirstDestroyed
<1>2. CASE Moved
  <2>1. CASE step' = "forget"
    <3>1. step = "final" /\ Changes(Planned("final")) = {}
      BY <1>2, <2>1, QuietNext DEF Moved, ZeroChange
    <3>2. cloud' = cloud /\ state' = state
      BY <1>2, <3>1, StepKindsApart DEF Moved
    <3>3. Held(cloud) \subseteq Held(state)
      BY <3>1, CompleteMeansHeld DEF StraysKnown, Held
    <3>4. Held(cloud) = Held(state)
      BY <3>3 DEF EstateInv, CloudCovers
    <3> QED BY <2>1, <3>2, <3>4
  <2>2. CASE step' = "destroy"
    <3>1. step = "forget" /\ cycle = "first"
      BY <1>2, <2>2, QuietNext DEF Moved
    <3>2. cloud' = cloud /\ state' = state
      BY <1>2, <3>1, StepKindsApart DEF Moved
    <3> QED BY <1>2, <2>2, <3>1, <3>2 DEF FirstDestroyed, Moved
  <2>3. step' # "absence"
    BY <1>2, QuietNext DEF Moved
  <2> QED BY <2>1, <2>2, <2>3
<1>3. CASE Rerun
  BY <1>3 DEF Rerun
<1>4. CASE Finished
  <2>1. /\ CanApply /\ Running /\ at = "apply" /\ step \in PlanSteps
        /\ UNCHANGED <<mode, cycle>>
        /\ \/ step \in LoopSteps /\ step' = step
           \/ step \notin LoopSteps /\ step' = NextStep(step)
    BY <1>4, FinishedStep
  <2>2. LoopSteps \cap {"forget", "destroy", "absence"} = {}
    BY StepKindsApart DEF LoopSteps, AzureSteps
  <2>3. step' \notin {"forget", "destroy"}
    BY <2>1, <2>2, AppliedNext
  <2>4. CASE step' = "absence"
    <3>1. step = "destroy" /\ Held(cloud) = Held(state)
      BY <2>1, <2>2, <2>4, AppliedNext DEF FirstDestroyed
    <3>2. step \notin PhaseSteps /\ StepScope(step, plan) = "full-destroy"
      BY <3>1, StepKindsApart DEF StepScope
    <3>3. FullDestroy(plan)
      BY <2>1, <3>2 DEF EstateInv, ScopeReviewed, CanApply, Digest, ScopePermits
    <3>4. plan \in Plans /\ Held(plan.before) = Held(state)
      BY <2>1, CanApplyHasPlan DEF EstateInv, PlanIsCurrent
    <3>5. Applied(plan, Changes(plan), {})
      BY <1>4 DEF Finished, Apply
    <3>6. ASSUME NEW a \in Addresses PROVE cloud'[a] = "absent"
      <4>1. CASE a \in Changes(plan)
        <5>1. plan.after[a] = "absent"
          BY <3>3, <3>4, <4>1, ActionOfChange DEF FullDestroy, Deleted, With
        <5> QED BY <2>1, <3>5, <4>1, <5>1 DEF Applied, CloudAfter
      <4>2. CASE a \notin Changes(plan)
        <5>1. a \notin Held(cloud)
          BY <3>1, <3>3, <3>4, <4>2 DEF FullDestroy, Managed
        <5> QED BY <3>5, <4>2, <5>1 DEF Applied, CloudAfter, Held
      <4> QED BY <4>1, <4>2
    <3> QED BY <2>4, <3>6 DEF Held
  <2> QED BY <2>3, <2>4
<1> QED BY <1>1, <1>2, <1>3, <1>4, RunningClasses DEF Saved, Permitted

------------------------------------------------------------------------------
(* What the steps leave.                                                    *)
TgwSteps == {"healthy", "eni_drift", "eni_observe", "eni_repair", "eni_verify",
             "kvm_drift", "kvm_observe", "kvm_repair", "kvm_verify", "lan"}

LEMMA LeftTable ==
  /\ Left("boot_create") = NoEstate
  /\ \A s \in {"boot_wait", "boot_approve", "capture", "retire"} :
        Left(s) = Target("boot_create")
  /\ Left("conf_create") = Target("retire")
  /\ \A s \in {"conf_wait", "conf_approve", "tgw"} :
        Left(s) = Target("conf_create")
  /\ \A s \in TgwSteps : Left(s) = Target("tgw")
  /\ \A s \in {"client", "az_build"} : Left(s) = Target("lan")
  /\ Left("az_bind") = Target("az_build")
  /\ Left("az_approve") = Target("az_bind")
  /\ \A s \in {"az_online", "settle", "final", "forget"} : Left(s) = Converged
BY DEF Left, AzureBegun, TgwSteps

LEMMA InjectedTable ==
  /\ \A s \in {"eni_observe", "eni_repair"} : Injected(s) = {AwsNetwork}
  /\ \A s \in {"kvm_observe", "kvm_repair"} : Injected(s) = {Site(KvmSite)}
  /\ \A s : s \notin {"eni_observe", "eni_repair", "kvm_observe", "kvm_repair"}
              => Injected(s) = {}
BY DEF Injected

(* Azure leaves the rest as it is.                                          *)
LEMMA AzureLeavesRest ==
  ASSUME NEW a \in AwsKvmAddresses
  PROVE  /\ Target("az_build")[a] = Target("lan")[a]
         /\ Target("az_bind")[a] = Target("lan")[a]
         /\ Converged[a] = Target("lan")[a]
<1>1. CASE a \in AwsAddresses
  <2>1. ASSUME NEW s \in {"lan", "az_build", "az_bind", "final"}
        PROVE  /\ Target(s)[AwsNetwork] = "present"
               /\ Target(s)[AwsTgw] = "present"
               /\ \A x \in AwsSites : /\ Target(s)[Site(x)] = "final"
                                      /\ Target(s)[Approval(x)] = "absent"
    BY StepConfigs, TargetAws
  <2>2. ASSUME NEW s \in {"lan", "az_build", "az_bind", "final"}
        PROVE  Target(s)[a] = Target("lan")[a]
    BY <1>1, <2>1, AddressKinds
  <2> QED BY <2>2, FinalConfig
<1>2. CASE a \in KvmAddresses
  <2>1. ASSUME NEW s \in {"lan", "az_build", "az_bind", "final"}
        PROVE  /\ Target(s)[Site(KvmSite)] = "present"
               /\ Target(s)[Approval(KvmSite)] = "absent"
               /\ Target(s)[KvmBgp] = "present" /\ Target(s)[KvmLan] = "present"
    BY StepConfigs, TargetKvm
  <2>2. ASSUME NEW s \in {"lan", "az_build", "az_bind", "final"}
        PROVE  Target(s)[a] = Target("lan")[a]
    BY <1>2, <2>1, AddressKinds
  <2> QED BY <2>2, FinalConfig
<1> QED BY <1>1, <1>2 DEF AwsKvmAddresses

LEMMA LeftAfterApply ==
  /\ \A s \in {"boot_create", "retire", "conf_create", "conf_approve", "tgw",
               "eni_repair", "kvm_repair", "lan", "az_build", "az_bind",
               "az_approve"} :
        Left(NextStep(s)) = Target(s) /\ Injected(NextStep(s)) = {}
  /\ \A s \in ObserveSteps : /\ Left(NextStep(s)) = Left(s)
                             /\ Injected(NextStep(s)) = Injected(s)
<1>1. Target("conf_approve") = Target("conf_create")
      /\ Target("eni_repair") = Target("tgw")
      /\ Target("kvm_repair") = Target("tgw")
      /\ Target("az_approve") = Converged
  BY SameTargets
<1>2. /\ \A s \in {"boot_create", "retire", "conf_create", "conf_approve",
                   "tgw", "eni_repair", "kvm_repair", "lan"} :
            Left(NextStep(s)) = Target(s)
      /\ \A s \in {"az_build", "az_bind", "az_approve"} :
            Left(NextStep(s)) = Target(s)
  BY <1>1, LeftTable, NextSteps DEF TgwSteps
<1>3. /\ \A s \in {"boot_create", "retire", "conf_create", "conf_approve",
                   "tgw", "eni_repair", "kvm_repair", "lan"} :
            Injected(NextStep(s)) = {}
      /\ \A s \in {"az_build", "az_bind", "az_approve"} :
            Injected(NextStep(s)) = {}
  BY InjectedTable, NextSteps
<1>4. \A s \in ObserveSteps : /\ Left(NextStep(s)) = Left(s)
                              /\ Injected(NextStep(s)) = Injected(s)
  BY LeftTable, InjectedTable, NextSteps DEF TgwSteps, ObserveSteps
<1> QED BY <1>2, <1>3, <1>4

(* A build finds AWS and KVM in the state and in the clouds alike.          *)
LEMMA Resting ==
  ASSUME AwsKvmAsLeft, Building, NEW a \in AwsKvmAddresses
  PROVE  /\ Left(step)[a] # "absent" =>
              /\ state[a] # "absent" /\ cloud[a] = Live(step, a)
              /\ cloud[a] # "absent"
              /\ Refreshed(state, cloud)[a] = cloud[a]
         /\ Left(step)[a] = "absent" /\ ~(step = "tgw" /\ a \in Approvals) =>
              state[a] = "absent" /\ Refreshed(state, cloud)[a] = "absent"
<1>1. a \in Addresses
  BY DEF Addresses, AwsKvmAddresses
<1>2. Left(step)[a] # "absent" =>
        cloud[a] = Live(step, a) /\ state[a] \in {Left(step)[a], cloud[a]}
  BY DEF AwsKvmAsLeft
<1>3. Left(step)[a] = "absent" /\ ~(step = "tgw" /\ a \in Approvals) =>
        state[a] = "absent"
  BY DEF AwsKvmAsLeft
<1>4. Left(step)[a] # "absent" => Live(step, a) # "absent"
  BY DEF Live
<1> QED BY <1>1, <1>2, <1>3, <1>4, FreshBefore

LEMMA NotAzureSite ==
  ASSUME NEW a \in AwsKvmAddresses
  PROVE  a \notin AzureSiteAddresses /\ a \notin AzureAddresses
         /\ a \in Addresses
<1>1. AzureSiteAddresses \subseteq AzureAddresses
  BY AddressesOf DEF AzureSiteAddresses
<1> QED BY <1>1, LanesApart DEF Addresses, AwsKvmAddresses

(* What an apply that goes through makes of one object.                     *)
LEMMA FinishedValues ==
  ASSUME TypeOK, EstateInv, PlanFollows, Finished, NEW a \in Addresses
  PROVE  /\ state'[a] = plan.after[a]
         /\ a \notin Changes(plan) =>
              state'[a] = plan.before[a] /\ cloud'[a] = cloud[a]
         /\ a \in Changes(plan) => cloud'[a] = plan.after[a]
         /\ plan.after[a] # "absent" =>
              \/ cloud'[a] = plan.after[a]
              \/ a \in AzureSiteAddresses /\ cloud'[a] = "drifted"
         /\ plan.before[a] = "absent" <=> state[a] = "absent"
         /\ state[a] # "absent" =>
              \/ cloud[a] = plan.before[a]
              \/ a \in AzureSiteAddresses /\ cloud[a] = "drifted"
<1>1. /\ Applied(plan, Changes(plan), {}) /\ CanApply
      /\ {} \in SUBSET Created(plan) /\ Changes(plan) \in SUBSET Changes(plan)
  BY DEF Finished, Apply
<1>2. a \notin Changes(plan) => plan.before[a] = plan.after[a]
  BY DEF Changes
<1>3. /\ a \in Changes(plan) =>
              state'[a] = plan.after[a] /\ cloud'[a] = plan.after[a]
      /\ a \notin Changes(plan) => state'[a] = plan.before[a]
      /\ a \notin Changes(plan) \cup {} => cloud'[a] = cloud[a]
      /\ plan.before[a] = "absent" <=> state[a] = "absent"
      /\ state[a] # "absent" =>
              \/ cloud[a] = plan.before[a]
              \/ a \in AzureSiteAddresses /\ cloud[a] = "drifted"
  BY <1>1, AppliedValues
<1> QED BY <1>2, <1>3

(* Verifications and observations apply no change, Azure steps none of AWS  *)
(* and KVM.                                                                 *)
LEMMA ReviewedChanges ==
  ASSUME TypeOK, EstateInv, CanApply
  PROVE  /\ step \in VerifySteps \cup ObserveSteps => Changes(plan) = {}
         /\ step \in AzureSteps => Changes(plan) \subseteq AzureAddresses
         /\ step \in PhaseSteps => Changes(plan) \subseteq AwsKvmAddresses
         /\ step = "lan" => /\ Changes(plan) \subseteq KvmAddresses
                            /\ ~plan.cfg.azure
         /\ step = "destroy" => FullDestroy(plan)
<1>1. step \in PlanSteps /\ Running /\ at = "apply" /\ plan = Digest
  BY DEF CanApply, EstateInv, PlanIsCurrent
<1>2. step \notin PhaseSteps => ScopePermits(StepScope(step, plan), plan)
  BY <1>1 DEF EstateInv, ScopeReviewed, Digest
<1>3. ASSUME step \in VerifySteps \cup ObserveSteps PROVE Changes(plan) = {}
  <2>1. step \notin PhaseSteps
    BY <1>3, StepKindsApart
  <2>2. StepScope(step, plan) \in {"kvm-status-output-refresh",
                                  "aws-status-output-refresh", "refresh-only"}
    BY <1>3, <2>1 DEF StepScope, VerifySteps, ObserveSteps
  <2>3. \/ \E out \in Outputs : StatusRefresh(plan, out)
        \/ RefreshOnly(plan)
    BY <1>2, <2>1, <2>2 DEF ScopePermits, Outputs
  <2> QED BY <2>3 DEF StatusRefresh, RefreshOnly
<1>4. ASSUME step \in AzureSteps PROVE Changes(plan) \subseteq AzureAddresses
  <2>1. step \notin PhaseSteps \cup VerifySteps \cup ObserveSteps
        /\ step \in AzureSteps \ {"az_online"}
    BY <1>1, <1>4, StepKindsApart DEF PlanSteps, AzureSteps
  <2>2. \/ AzureBuild(plan) \/ AzureBindings(plan)
        \/ AzureApprovals(plan) \/ AzureConverge(plan)
    BY <1>2, <2>1 DEF StepScope, ScopePermits, AzureSteps
  <2> QED BY <2>2, CanApplyHasPlan, AzureScopes
<1>5. ASSUME step \in PhaseSteps PROVE Changes(plan) \subseteq AwsKvmAddresses
  BY <1>1, <1>5 DEF EstateInv, PhaseReviewed, Digest, AwsKvmAddresses
<1>6. ASSUME step = "lan"
      PROVE  Changes(plan) \subseteq KvmAddresses /\ ~plan.cfg.azure
  BY <1>2, <1>6, StepKindsApart DEF StepScope, ScopePermits, KvmConfigured
<1>7. ASSUME step = "destroy" PROVE FullDestroy(plan)
  BY <1>2, <1>7, StepKindsApart DEF StepScope, ScopePermits
<1> QED BY <1>3, <1>4, <1>5, <1>6, <1>7

(* The plan that is applied leads to the target of its step.                *)
LEMMA AppliedAims ==
  ASSUME TypeOK, EstateInv, Aimed, CanApply, Building,
         step \in PhaseSteps \cup AzureSteps \cup {"lan"},
         step \in AzureSteps => overwrites = 0,
         NEW a \in Addresses
  PROVE  \/ plan.after[a] = Target(step)[a]
         \/ \E s \in AwsKvmSites : a = Approval(s) /\ reg[s] = "NEW"
<1>1. at = "apply" /\ plan = Digest
  BY DEF CanApply
<1>2. Reviewed = plan
  BY <1>1 DEF Reviewed, Digest
<1>3. OwnPlan
  BY ReviewedChanges DEF OwnPlan
<1> QED BY <1>1, <1>2, <1>3 DEF Aimed

(* A site whose name the plan creates has not registered.                   *)
LEMMA CreatedUnregistered ==
  ASSUME TypeOK, EstateInv, NamesFree, CanApply, step \in PhaseSteps,
         NEW s \in Sites, state[Site(s)] = "absent",
         plan.after[Site(s)] # "absent"
  PROVE  reg[s] = "none"
<1>1. Site(s) \in Addresses
  BY AddressesOf DEF Sites
<1>2. /\ plan \in Plans /\ Held(plan.before) = Held(state)
      /\ Running /\ at # "plan" /\ plan = receipt
  BY CanApplyHasPlan DEF CanApply, EstateInv, PlanIsCurrent, Digest
<1>3. plan.before[Site(s)] = "absent"
  BY <1>1, <1>2 DEF Held
<1>4. Site(s) \in Created(plan) \ Approvals
  BY <1>1, <1>2, <1>3, ApprovalsOf, ActionOfChange DEF Created, With, Changes
<1>5. cloud[Site(s)] = "absent"
  BY <1>2, <1>4 DEF NamesFree, Colliding
<1> QED BY <1>5 DEF EstateInv, CloudCovers, Held

(* Only the approval step of the configured phase is applied while a        *)
(* registration waits.                                                      *)
LEMMA NoneWaiting ==
  ASSUME TypeOK, EstateInv, AwsKvmAsLeft, OnlineSoFar, Aimed, NamesFree,
         Finished, Building,
         step \in (PhaseSteps \cup {"lan"}) \ {"boot_approve", "conf_approve"},
         NEW s \in AwsKvmSites
  PROVE  reg[s] # "NEW"
<1>0. CanApply /\ s \in Sites /\ Site(s) \in AwsKvmAddresses /\ Site(s) \in Addresses
  BY FinishedStep, AddressesOf, NotAzureSite DEF AwsKvmSites, Sites
<1>a. \A x \in AwsKvmSites : Site(s) # Approval(x)
  BY ObjectsApart
<1>b. plan.after[Site(s)] = Target(step)[Site(s)]
  BY <1>0, <1>a, AppliedAims, StepKindsApart
<1>1. CASE step = "boot_create"
  <2>1. Target(step)[Site(s)] # "absent"
    <3>1. CASE s \in AwsSites
      BY <1>1, <3>1, TargetAws, StepConfigs
    <3>2. CASE s = KvmSite
      BY <3>2, TargetKvm
    <3> QED BY <3>1, <3>2 DEF AwsKvmSites
  <2>2. state[Site(s)] = "absent"
    BY <1>0, <1>1, LeftTable, Resting DEF NoEstate
  <2>3. step \in PhaseSteps
    BY <1>1 DEF PhaseSteps
  <2> QED BY <1>0, <1>b, <2>1, <2>2, <2>3, CreatedUnregistered
<1>2. CASE step = "conf_create"
  <2>1. CASE s \in AwsSites
    <3>1. Target(step)[Site(s)] = "final" /\ Left(step)[Site(s)] = "absent"
      BY <1>2, <2>1, TargetAws, StepConfigs, LeftTable
    <3>2. state[Site(s)] = "absent"
      BY <1>0, <1>2, <3>1, Resting
    <3>3. step \in PhaseSteps
      BY <1>2 DEF PhaseSteps
    <3> QED BY <1>0, <1>b, <3>1, <3>2, <3>3, CreatedUnregistered
  <2>2. CASE s = KvmSite
    <3>1. s \in OnlineBy(step)
      BY <1>2, <2>2 DEF OnlineBy
    <3> QED BY <3>1 DEF OnlineSoFar
  <2> QED BY <2>1, <2>2 DEF AwsKvmSites
<1>3. CASE step = "tgw"
  <2>1. CASE s \in AwsSites
    <3>1. AwsTgw \in AwsKvmAddresses /\ AwsTgw \in Addresses
          /\ AwsTgw \notin Approvals
      BY AddressesOf, NotAzureSite, ApprovalsOf
    <3>2. Left(step)[AwsTgw] = "absent" /\ Target(step)[AwsTgw] = "present"
      BY <1>3, TargetAws, StepConfigs, LeftTable
    <3>3. state[AwsTgw] = "absent"
      BY <3>1, <3>2, Resting
    <3>4. plan.after[AwsTgw] = "present"
      BY <1>0, <1>3, <3>1, <3>2, AppliedAims, StepKindsApart, ObjectsApart
    <3>5. plan \in Plans /\ Held(plan.before) = Held(state)
      BY <1>0, CanApplyHasPlan DEF CanApply, EstateInv, PlanIsCurrent
    <3>6. plan.before[AwsTgw] = "absent"
      BY <3>1, <3>3, <3>5 DEF Held
    <3>7. AwsTgw \in Created(plan)
      BY <3>1, <3>4, <3>5, <3>6, ActionOfChange DEF Created, With, Changes
    <3>8. AwaitedOnline(plan)
      BY DEF Finished, Apply
    <3> QED BY <2>1, <3>7, <3>8 DEF AwaitedOnline, AwaitedSites
  <2>2. CASE s = KvmSite
    <3>1. s \in OnlineBy(step)
      BY <1>3, <2>2 DEF OnlineBy
    <3> QED BY <3>1 DEF OnlineSoFar
  <2> QED BY <2>1, <2>2 DEF AwsKvmSites
<1>4. CASE step \in {"retire", "eni_repair", "kvm_repair", "lan"}
  <2>1. OnlineBy(step) = AwsKvmSites
    BY <1>4 DEF OnlineBy
  <2> QED BY <2>1 DEF OnlineSoFar
<1> QED BY <1>1, <1>2, <1>3, <1>4 DEF PhaseSteps

(* AWS and KVM are what the steps left.                                     *)
LEMMA QuietLeft ==
  ASSUME WayOn, Building', Building
  PROVE  /\ Left(step') = Left(step)
         /\ step # "tgw" /\ Injected(step) = {}
         /\ step \in DriftSteps => Injected(step') = {DriftTarget(step)}
         /\ step \notin DriftSteps => Injected(step') = {}
<1>1. step \notin {"start", "destroy", "absence"}
  BY DEF Building
<1>2. step' \notin {"start", "destroy", "absence"}
  BY DEF Building
<1>3. \/ step = "boot_wait" /\ step' \in {"boot_approve", "capture"}
      \/ step = "conf_wait" /\ step' \in {"conf_approve", "tgw"}
      \/ step = "capture" /\ step' = "retire"
      \/ step = "healthy" /\ step' = "eni_drift"
      \/ step = "eni_drift" /\ step' = "eni_observe"
      \/ step = "eni_verify" /\ step' = "kvm_drift"
      \/ step = "kvm_drift" /\ step' = "kvm_observe"
      \/ step = "kvm_verify" /\ step' = "lan"
      \/ step = "client" /\ step' = "az_build"
      \/ step = "az_online" /\ step' = "settle"
      \/ step = "settle" /\ step' = "final"
      \/ step = "final" /\ step' = "forget"
  BY <1>1, <1>2, QuietNext
<1>4. Left(step') = Left(step) /\ step # "tgw"
  BY <1>3, LeftTable DEF TgwSteps
<1>5. /\ Injected(step) = {}
      /\ step' \notin {"eni_observe", "kvm_observe"} => Injected(step') = {}
      /\ step' = "eni_observe" => Injected(step') = {AwsNetwork}
      /\ step' = "kvm_observe" => Injected(step') = {Site(KvmSite)}
  BY <1>3, InjectedTable
<1>6. /\ step = "eni_drift" => DriftTarget(step) = AwsNetwork
      /\ step = "kvm_drift" => DriftTarget(step) = Site(KvmSite)
  BY DEF DriftTarget
<1>7. step \in DriftSteps <=> step \in {"eni_drift", "kvm_drift"}
  BY DEF DriftSteps
<1> QED BY <1>3, <1>4, <1>5, <1>6, <1>7

LEMMA NextAwsKvmAsLeft ==
  ASSUME TypeOK, EstateInv, PlanFollows, CyclesKnown, AwsKvmAsLeft, OnlineSoFar,
         ApprovalPending, Aimed, NamesFree, [Next]_vars
  PROVE  AwsKvmAsLeft'
<1> SUFFICES ASSUME Building', NEW a \in AwsKvmAddresses
             PROVE  /\ Left(step')[a] # "absent" =>
                         /\ cloud'[a] = Live(step', a)
                         /\ state'[a] \in {Left(step')[a], cloud'[a]}
                    /\ /\ Left(step')[a] = "absent"
                       /\ ~(step' = "tgw" /\ a \in Approvals)
                       => state'[a] = "absent"
  BY DEF AwsKvmAsLeft
<1>0. a \in Addresses /\ a \notin AzureSiteAddresses
  BY NotAzureSite
<1>1. CASE (Outside \/ Saved \/ Permitted) /\ Building
  <2>1. cloud'[a] = cloud[a] /\ state' = state /\ step' = step
    BY <1>0, <1>1 DEF Outside, Saved, Permitted, AzureSiteAddresses
  <2> QED BY <1>1, <2>1 DEF AwsKvmAsLeft
<1>2. CASE Moved
  <2>0. Running /\ WayOn
    BY <1>2 DEF Moved
  <2>1. CASE step \in {"start", "absence"}
    <3>1. step' = "boot_create" /\ state = NoEstate
      BY <2>0, <2>1, QuietNext DEF Building, EstateInv, StartsEmpty
    <3>2. state' = state
      BY <1>2 DEF Moved
    <3> QED BY <1>0, <3>1, <3>2, LeftTable DEF NoEstate
  <2>2. CASE step \notin {"start", "absence"}
    <3>1. Building
      BY <2>0, <2>2, QuietNext DEF Building
    <3>2. /\ Left(step') = Left(step)
          /\ step # "tgw" /\ Injected(step) = {}
          /\ step \in DriftSteps => Injected(step') = {DriftTarget(step)}
          /\ step \notin DriftSteps => Injected(step') = {}
      BY <2>0, <3>1, QuietLeft
    <3>3. /\ Left(step)[a] # "absent" => cloud[a] = Left(step)[a]
          /\ Left(step)[a] # "absent" => state[a] = Left(step)[a]
          /\ Left(step)[a] = "absent" => state[a] = "absent"
      BY <3>1, <3>2 DEF AwsKvmAsLeft, Live
    <3>4. /\ a \in Injected(step') => cloud'[a] = "drifted"
          /\ a \notin Injected(step') => cloud'[a] = cloud[a]
      BY <1>0, <1>2, <3>2 DEF Moved, TypeOK, Estates
    <3>5. state' = state
      BY <1>2 DEF Moved
    <3> QED BY <3>2, <3>3, <3>4, <3>5 DEF Live
  <2> QED BY <2>1, <2>2
<1>3. CASE Finished
  <2>0. /\ CanApply /\ Running /\ at = "apply" /\ step \in PlanSteps
        /\ cycle' = cycle
    BY <1>3, FinishedStep
  <2>1. step # "destroy"
    <3>1. step = "destroy" => step' = "absence"
      BY <1>3, FinishedStep, NextSteps, StepKindsApart DEF LoopSteps, AzureSteps
    <3> QED BY <3>1 DEF Building
  <2>2. Building
    BY <2>0, <2>1, StepKindsApart DEF Building, PlanSteps
  <2>3. /\ state'[a] = plan.after[a]
        /\ plan.after[a] # "absent" => cloud'[a] = plan.after[a]
    BY <1>0, <1>3, FinishedValues
  <2>4. ASSUME a \notin Changes(plan), step # "tgw",
               Left(step')[a] = Left(step)[a], Injected(step') = Injected(step)
        PROVE  /\ Left(step')[a] # "absent" =>
                    /\ cloud'[a] = Live(step', a)
                    /\ state'[a] \in {Left(step')[a], cloud'[a]}
               /\ Left(step')[a] = "absent" => state'[a] = "absent"
    <3>1. state'[a] = plan.before[a] /\ cloud'[a] = cloud[a]
          /\ (plan.before[a] = "absent" <=> state[a] = "absent")
          /\ (state[a] # "absent" => cloud[a] = plan.before[a])
      BY <1>0, <1>3, <2>4, FinishedValues
    <3>2. Live(step', a) = Live(step, a)
      BY <2>4 DEF Live
    <3> QED BY <2>2, <2>4, <3>1, <3>2, Resting
  <2>5. CASE step \in LoopSteps
    <3>1. step' = step /\ step # "tgw"
      BY <1>3, <2>5, FinishedStep DEF LoopSteps, VerifySteps
    <3>2. a \notin Changes(plan)
      BY <2>0, <2>5, ReviewedChanges, NotAzureSite DEF LoopSteps, AzureSteps
    <3> QED BY <2>4, <3>1, <3>2
  <2>6. CASE step \in ObserveSteps
    <3>1. step' = NextStep(step) /\ step # "tgw"
      BY <1>3, <2>6, FinishedStep, StepKindsApart
      DEF LoopSteps, AzureSteps, ObserveSteps
    <3>2. a \notin Changes(plan)
      BY <2>0, <2>6, ReviewedChanges
    <3> QED BY <2>4, <2>6, <3>1, <3>2, LeftAfterApply
  <2>7. CASE step \in {"az_build", "az_bind", "az_approve"}
    <3>1. step' = NextStep(step) /\ step # "tgw"
      BY <1>3, <2>7, FinishedStep DEF LoopSteps, VerifySteps
    <3>2. a \notin Changes(plan)
      BY <2>0, <2>7, ReviewedChanges, NotAzureSite DEF AzureSteps
    <3>3. Left(step') = Target(step) /\ Injected(step') = {}
      BY <2>7, <3>1, LeftAfterApply
    <3>4. Injected(step) = {}
      BY <2>7, InjectedTable
    <3>5. Left(step')[a] = Left(step)[a]
      BY <2>7, <3>3, LeftTable, AzureLeavesRest, SameTargets
    <3> QED BY <2>4, <3>1, <3>2, <3>3, <3>4, <3>5
  <2>8. CASE step \in (PhaseSteps \cup {"lan"}) \ {"boot_approve"}
    <3>1. step \notin LoopSteps
      BY <2>8, StepKindsApart DEF LoopSteps, AzureSteps
    <3>2. step' = NextStep(step)
      BY <1>3, <3>1, FinishedStep
    <3>3. Left(step') = Target(step) /\ Injected(step') = {}
      BY <2>8, <3>2, LeftAfterApply DEF PhaseSteps
    <3>4. \/ plan.after[a] = Target(step)[a]
          \/ \E s \in AwsKvmSites : a = Approval(s) /\ reg[s] = "NEW"
      BY <1>0, <2>0, <2>2, <2>8, AppliedAims, StepKindsApart
    <3>5. CASE plan.after[a] = Target(step)[a]
      BY <2>3, <3>3, <3>5 DEF Live
    <3>6. ASSUME NEW s \in AwsKvmSites, a = Approval(s), reg[s] = "NEW"
          PROVE  /\ step' = "tgw" /\ a \in Approvals
                 /\ Left(step')[a] = "absent"
      <4>1. step = "conf_approve"
        BY <1>3, <2>2, <2>8, <3>6, NoneWaiting
      <4>2. a \in Approvals
        BY <3>6, ApprovalsOf DEF AwsKvmSites, Sites
      <4>3. Target(step)[a] = "absent"
        BY <3>6, TargetAws, TargetKvm DEF AwsKvmSites
      <4> QED BY <3>2, <3>3, <4>1, <4>2, <4>3, NextSteps
    <3> QED BY <3>4, <3>5, <3>6
  <2>9. step # "boot_approve"
    BY <2>0 DEF ApprovalPending
  <2> QED BY <2>0, <2>1, <2>4, <2>5, <2>6, <2>7, <2>8, <2>9
          DEF PlanSteps, LoopSteps, AzureSteps
<1> QED BY <1>1, <1>2, <1>3, BuildingClasses

------------------------------------------------------------------------------
(* The sites a step relies on.                                              *)

(* An apply keeps a registration unless it makes or removes the site.       *)
LEMMA OnlineKept ==
  ASSUME NEW part, NEW orphan, Applied(plan, part, orphan), NEW s \in Sites,
         reg[s] = "ONLINE",
         Site(s) \notin part \/ Action(plan, Site(s)) = "update"
  PROVE  reg'[s] = "ONLINE"
BY DEF Applied, RegAfter

(* A site that a step wants as it was left is at most updated.              *)
LEMMA PlanBefore ==
  ASSUME TypeOK, EstateInv, PlanFollows, CanApply, NEW a \in Addresses
  PROVE  /\ plan.before[a] = "absent" <=> state[a] = "absent"
         /\ state[a] # "absent" =>
              \/ cloud[a] = plan.before[a]
              \/ a \in AzureSiteAddresses /\ cloud[a] = "drifted"
<1>1. /\ Running /\ at # "plan" /\ plan \in Plans
      /\ Held(plan.before) = Held(state)
  BY CanApplyHasPlan DEF CanApply, EstateInv, PlanIsCurrent
<1> QED BY <1>1 DEF PlanFollows, Held

LEMMA SiteKept ==
  ASSUME TypeOK, EstateInv, PlanFollows, AwsKvmAsLeft, Aimed, CanApply, Building,
         step \in PhaseSteps \cup {"lan"}, NEW s \in AwsKvmSites,
         Left(step)[Site(s)] = Target(step)[Site(s)],
         Left(step)[Site(s)] # "absent"
  PROVE  Site(s) \notin Changes(plan) \/ Action(plan, Site(s)) = "update"
<1>0. /\ s \in Sites /\ Site(s) \in AwsKvmAddresses
      /\ Site(s) \in Addresses
  BY AddressesOf, NotAzureSite DEF AwsKvmSites, Sites
<1>1. plan.after[Site(s)] = Target(step)[Site(s)]
  BY <1>0, AppliedAims, StepKindsApart, ObjectsApart
<1>2. /\ state[Site(s)] # "absent" => cloud[Site(s)] = plan.before[Site(s)]
  BY <1>0, PlanBefore, NotAzureSite
<1>3. plan.before[Site(s)] \in {Left(step)[Site(s)], "drifted"}
  BY <1>0, <1>2, Resting DEF Live
<1> QED BY <1>0, <1>1, <1>3 DEF Changes, Action

(* A bootstrap gate that asks for no approval has seen every site ONLINE.   *)
LEMMA GateMeansOnline ==
  ASSUME TypeOK, NEW s, NEW site \in AwsKvmSites,
         GateReady(Planned(s), Cardinality(AwsSites), 1),
         ~(ApprovalCount(Planned(s)) > 0)
  PROVE  reg[site] = "ONLINE"
<1> DEFINE p == Planned(s)
<1>1. IsFiniteSet(AwsKvmSites) /\ IsFiniteSet({KvmSite})
  BY SitesAssumption, FS_AddElement, FS_Singleton DEF AwsKvmSites
<1>2. GateApprovals(p, AwsKvmSites) = {}
  <2>1. GateApprovals(p, AwsKvmSites) \in SUBSET AwsKvmSites
    BY DEF GateApprovals, ApprovalCreates
  <2>2. IsFiniteSet(GateApprovals(p, AwsKvmSites))
    BY <1>1, <2>1, FS_Subset
  <2>3. Cardinality(GateApprovals(p, AwsKvmSites)) = 0
    BY <2>2, FS_CardinalityType DEF ApprovalCount, AwsKvmSites
  <2> QED BY <2>2, <2>3, FS_EmptySet
<1>3. Covered(p, AwsSites) = AwsSites
  <2>1. Covered(p, AwsSites) \in SUBSET AwsSites
    BY DEF Covered, GateOnline, GateApprovals, ApprovalCreates
  <2>2. Cardinality(Covered(p, AwsSites)) = Cardinality(AwsSites)
    BY DEF GateReady
  <2> QED BY <2>1, <2>2, FS_Subset, SitesAssumption
<1>4. Covered(p, {KvmSite}) = {KvmSite}
  <2>1. Covered(p, {KvmSite}) \in SUBSET {KvmSite}
    BY DEF Covered, GateOnline, GateApprovals, ApprovalCreates
  <2>2. Cardinality(Covered(p, {KvmSite})) = Cardinality({KvmSite})
    <3>1. Cardinality({KvmSite}) = 1
      BY FS_Singleton
    <3>2. Cardinality(Covered(p, {KvmSite})) = 1
      BY DEF GateReady
    <3> QED BY <3>1, <3>2
  <2> QED BY <1>1, <2>1, <2>2, FS_Subset
<1>5. site \in p.online
  BY <1>2, <1>3, <1>4 DEF Covered, GateOnline, GateApprovals, ApprovalCreates,
     AwsKvmSites
<1> QED BY <1>5, PlannedParts DEF OnlineSites

LEMMA OnlineByTable ==
  /\ \A s \in {"boot_create", "boot_wait", "boot_approve"} : OnlineBy(s) = {}
  /\ \A s \in {"conf_create", "conf_wait", "conf_approve", "tgw"} :
        OnlineBy(s) = {KvmSite}
  /\ \A s \in {"settle", "final", "forget"} : OnlineBy(s) = Sites
  /\ \A s \in TgwSteps \cup {"capture", "retire", "client", "az_build",
                            "az_bind", "az_approve", "az_online"} :
        OnlineBy(s) = AwsKvmSites
BY DEF OnlineBy, TgwSteps

LEMMA NextOnlineSoFar ==
  ASSUME TypeOK, EstateInv, PlanFollows, CyclesKnown, AwsKvmAsLeft, OnlineSoFar,
         ApprovalPending, Aimed, [Next]_vars
  PROVE  OnlineSoFar'
<1> SUFFICES ASSUME Building', NEW s \in OnlineBy(step')
             PROVE  reg'[s] = "ONLINE"
  BY DEF OnlineSoFar
<1>0. AwsKvmSites \subseteq Sites /\ KvmSite \in AwsKvmSites
      /\ Sites = AwsKvmSites \cup AzureSites
  BY DEF AwsKvmSites, Sites
<1>a. s \in Sites
  BY <1>0 DEF OnlineBy
<1>1. CASE (Outside \/ Saved \/ Permitted) /\ Building
  <2>1. step' = step /\ (reg'[s] = reg[s] \/ reg[s] \in {"none", "APPROVED"})
    BY <1>1, <1>a DEF Outside, Saved, Permitted
  <2>2. reg[s] = "ONLINE"
    BY <1>1, <2>1 DEF OnlineSoFar
  <2> QED BY <2>1, <2>2
<1>2. CASE Moved
  <2>0. Running /\ WayOn /\ reg' = reg
    BY <1>2 DEF Moved
  <2>1. CASE step \in {"start", "absence"}
    <3>1. step' = "boot_create"
      BY <2>0, <2>1, QuietNext DEF Building
    <3> QED BY <3>1, OnlineByTable
  <2>2. CASE step \notin {"start", "absence"}
    <3>0. Building
      BY <2>0, <2>2, QuietNext DEF Building
    <3>1. CASE step = "boot_wait"
      <4>1. CASE step' = "boot_approve"
        BY <4>1, OnlineByTable
      <4>2. CASE step' = "capture"
        <5>1. /\ GateReady(Planned(step), Cardinality(AwsSites), 1)
              /\ step' = AfterWait(step, ApprovalCount(Planned(step)))
          BY <2>0, <3>1 DEF WayOn, DriftSteps, VerifySteps
        <5>2. ~(ApprovalCount(Planned(step)) > 0)
          BY <3>1, <4>2, <5>1 DEF AfterWait
        <5>3. s \in AwsKvmSites
          BY <4>2, OnlineByTable
        <5>4. reg[s] = "ONLINE"
          BY <5>1, <5>2, <5>3, GateMeansOnline
        <5> QED BY <2>0, <5>4
      <4> QED BY <2>0, <3>1, <4>1, <4>2, QuietNext
    <3>2. CASE step = "az_online"
      <4>1. step' = "settle" /\ \A x \in AzureSites : reg[x] = "ONLINE"
        BY <2>0, <3>2, QuietNext
      <4>2. \A x \in AwsKvmSites : reg[x] = "ONLINE"
        BY <3>0, <3>2, OnlineByTable DEF OnlineSoFar
      <4> QED BY <1>0, <1>a, <2>0, <4>1, <4>2
    <3>3. CASE step \notin {"boot_wait", "az_online"}
      <4>1. OnlineBy(step') = OnlineBy(step)
        <5>1. \/ step = "conf_wait" /\ step' \in {"conf_approve", "tgw"}
              \/ step = "capture" /\ step' = "retire"
              \/ step = "healthy" /\ step' = "eni_drift"
              \/ step = "eni_drift" /\ step' = "eni_observe"
              \/ step = "eni_verify" /\ step' = "kvm_drift"
              \/ step = "kvm_drift" /\ step' = "kvm_observe"
              \/ step = "kvm_verify" /\ step' = "lan"
              \/ step = "client" /\ step' = "az_build"
              \/ step = "settle" /\ step' = "final"
              \/ step = "final" /\ step' = "forget"
          BY <2>0, <2>2, <3>3, QuietNext DEF Building
        <5> QED BY <5>1, OnlineByTable DEF TgwSteps
      <4> QED BY <2>0, <3>0, <4>1 DEF OnlineSoFar
    <3> QED BY <3>1, <3>2, <3>3
  <2> QED BY <2>1, <2>2
<1>3. CASE Finished
  <2>0. /\ CanApply /\ Running /\ at = "apply" /\ step \in PlanSteps
        /\ cycle' = cycle
    BY <1>3, FinishedStep
  <2>1. step # "destroy" /\ step # "boot_approve"
    <3>1. step = "destroy" => step' = "absence"
      BY <1>3, FinishedStep, NextSteps, StepKindsApart DEF LoopSteps, AzureSteps
    <3> QED BY <2>0, <3>1 DEF Building, ApprovalPending
  <2>2. Building
    BY <2>0, <2>1, StepKindsApart DEF Building, PlanSteps
  <2>3. ASSUME reg[s] = "ONLINE",
               Site(s) \notin Changes(plan) \/ Action(plan, Site(s)) = "update"
        PROVE  reg'[s] = "ONLINE"
    <3>1. Applied(plan, Changes(plan), {})
      BY <1>3 DEF Finished, Apply
    <3> QED BY <1>a, <2>3, <3>1, OnlineKept
  <2>4. \A x \in OnlineBy(step) : reg[x] = "ONLINE"
    BY <2>2 DEF OnlineSoFar
  <2>s. \A x \in AwsKvmSites : Site(x) \in AwsKvmAddresses
                               /\ Site(x) \notin AzureAddresses
    BY AddressesOf, NotAzureSite DEF AwsKvmSites
  <2>5. CASE step \in VerifySteps \cup ObserveSteps
    <3>1. Changes(plan) = {}
      BY <2>0, <2>5, ReviewedChanges
    <3>2. OnlineBy(step') = OnlineBy(step)
      <4>1. step' \in {step, NextStep(step)}
        BY <1>3, FinishedStep
      <4> QED BY <2>5, <4>1, NextSteps, OnlineByTable
              DEF TgwSteps, VerifySteps, ObserveSteps
    <3> QED BY <2>3, <2>4, <3>1, <3>2
  <2>6. CASE step = "settle"
    <3>1. step' = step
      BY <1>3, <2>6, FinishedStep DEF LoopSteps
    <3>2. AzureConverge(plan)
      BY <2>0, <2>6, StepKindsApart
      DEF CanApply, Digest, EstateInv, ScopeReviewed, StepScope, ScopePermits,
          AzureSteps
    <3>3. Site(s) \notin Changes(plan) \/ Action(plan, Site(s)) = "update"
      BY <3>2 DEF AzureConverge, With
    <3> QED BY <2>3, <2>4, <3>1, <3>3
  <2>7. CASE step \in {"az_build", "az_bind", "az_approve"}
    <3>1. OnlineBy(step') = AwsKvmSites /\ OnlineBy(step) = AwsKvmSites
      <4>1. step' = NextStep(step)
        BY <1>3, <2>7, FinishedStep DEF LoopSteps, VerifySteps
      <4> QED BY <2>7, <4>1, NextSteps, OnlineByTable
    <3>2. Site(s) \notin Changes(plan)
      BY <2>0, <2>7, <2>s, <3>1, ReviewedChanges DEF AzureSteps
    <3> QED BY <2>3, <2>4, <3>1, <3>2
  <2>8. CASE step = "boot_create"
    <3>1. step' = "boot_wait"
      BY <1>3, <2>8, FinishedStep, NextSteps DEF LoopSteps, VerifySteps
    <3> QED BY <3>1, OnlineByTable
  <2>9. CASE step \in {"retire", "conf_create", "conf_approve", "tgw",
                       "eni_repair", "kvm_repair", "lan"}
    <3>1. step' = NextStep(step)
      BY <1>3, <2>9, FinishedStep DEF LoopSteps, VerifySteps
    <3>2. s \in AwsKvmSites
      BY <1>0, <2>9, <3>1, NextSteps, OnlineByTable DEF TgwSteps
    <3>3. Left(step)[Site(s)] = Target(step)[Site(s)]
          /\ Left(step)[Site(s)] # "absent"
      <4>1. CASE s = KvmSite
        <5>1. \A x : Target(x)[Site(s)] = "present"
          BY <4>1, TargetKvm
        <5> QED BY <2>9, <5>1, LeftTable DEF TgwSteps
      <4>2. CASE s \in AwsSites
        <5>0. s # KvmSite
          BY <4>2, SitesAssumption
        <5>1. step \in {"tgw", "eni_repair", "kvm_repair", "lan"}
          BY <2>9, <3>1, <5>0, NextSteps, OnlineByTable
        <5>2. Left(step) \in {Target("conf_create"), Target("tgw")}
          BY <5>1, LeftTable DEF TgwSteps
        <5>3. Target("conf_create")[Site(s)] = "final"
              /\ Target("tgw")[Site(s)] = "final"
              /\ Target(step)[Site(s)] = "final"
          BY <4>2, <5>1, TargetAws, StepConfigs
        <5> QED BY <5>2, <5>3
      <4> QED BY <3>2, <4>1, <4>2 DEF AwsKvmSites
    <3>4. Site(s) \notin Changes(plan) \/ Action(plan, Site(s)) = "update"
      BY <2>0, <2>2, <2>9, <3>2, <3>3, SiteKept DEF PhaseSteps
    <3>5. reg[s] = "ONLINE"
      <4>1. CASE s \in OnlineBy(step)
        BY <2>4, <4>1
      <4>2. CASE s \notin OnlineBy(step)
        <5>1. step = "tgw" /\ s \in AwsSites
          BY <2>9, <3>1, <3>2, <4>2, NextSteps, OnlineByTable
          DEF TgwSteps, AwsKvmSites
        <5>2. AwsTgw \in AwsKvmAddresses /\ AwsTgw \in Addresses
              /\ AwsTgw \notin Approvals
          BY AddressesOf, NotAzureSite, ApprovalsOf
        <5>3. Left(step)[AwsTgw] = "absent" /\ Target(step)[AwsTgw] = "present"
          BY <5>1, TargetAws, StepConfigs, LeftTable
        <5>4. state[AwsTgw] = "absent"
          BY <2>2, <5>2, <5>3, Resting
        <5>5. step \in PhaseSteps
          BY <5>1 DEF PhaseSteps
        <5>6. plan.after[AwsTgw] = "present"
          BY <2>0, <2>2, <5>2, <5>3, <5>5, AppliedAims, StepKindsApart,
             ObjectsApart
        <5>7. plan \in Plans /\ plan.before[AwsTgw] = "absent"
          BY <1>3, <2>0, <5>2, <5>4, CanApplyHasPlan, FinishedValues
        <5>8. AwsTgw \in Created(plan)
          BY <5>2, <5>6, <5>7, ActionOfChange DEF Created, With, Changes
        <5>9. AwaitedOnline(plan)
          BY <1>3 DEF Finished, Apply
        <5> QED BY <5>1, <5>8, <5>9 DEF AwaitedOnline, AwaitedSites
      <4> QED BY <4>1, <4>2
    <3> QED BY <2>3, <3>4, <3>5
  <2> QED BY <2>0, <2>1, <2>5, <2>6, <2>7, <2>8, <2>9
          DEF PlanSteps, PhaseSteps, AzureSteps
<1> QED BY <1>1, <1>2, <1>3, BuildingClasses

------------------------------------------------------------------------------
(* Approvals.                                                               *)

(* A plan creates the approval of a registration that waits.                *)
LEMMA ApprovalMeansNew ==
  ASSUME TypeOK, NEW s, NEW x \in AwsKvmSites,
         Approval(x) \in Created(Planned(s))
  PROVE  reg[x] = "NEW"
<1>1. Approval(x) \in AwsKvmAddresses /\ Approval(x) \in Addresses
  BY AddressesOf, NotAzureSite DEF AwsKvmSites
<1>2. Planned(s) \in Plans
  BY PlannedType DEF TypeOK
<1>3. Planned(s).after[Approval(x)] # "absent"
  BY <1>1, <1>2, ActionOfChange DEF Created, With
<1>4. Target(s)[Approval(x)] = "absent"
  BY TargetAws, TargetKvm DEF AwsKvmSites
<1>5. PICK y \in AwsKvmSites : Approval(x) = Approval(y) /\ reg[y] = "NEW"
  BY <1>1, <1>3, <1>4, PlannedParts, WantedNear
<1> QED BY <1>5, ObjectsApart

(* A gate that asks for an approval has seen such a registration.           *)
LEMMA CountMeansNew ==
  ASSUME TypeOK, NEW s, ApprovalCount(Planned(s)) > 0
  PROVE  \E x \in AwsKvmSites : reg[x] = "NEW"
<1>1. CASE GateApprovals(Planned(s), AwsKvmSites) = {}
  <2>1. Cardinality(GateApprovals(Planned(s), AwsKvmSites)) = 0
    BY <1>1, FS_EmptySet
  <2> QED BY <2>1 DEF ApprovalCount, AwsKvmSites
<1>2. CASE GateApprovals(Planned(s), AwsKvmSites) # {}
  <2>1. PICK x \in AwsKvmSites : Approval(x) \in Created(Planned(s))
    BY <1>2 DEF GateApprovals, ApprovalCreates
  <2> QED BY <2>1, ApprovalMeansNew
<1> QED BY <1>1, <1>2

(* The bootstrap shape of an approval wants three KVM sites, the showcase   *)
(* has one.                                                                 *)
LEMMA BootApproveRefused ==
  ASSUME TypeOK, AwsKvmAsLeft, Building, step = "boot_approve"
  PROVE  ~Preflight(AwsPhase(step), Planned(step), cloud)
<1> DEFINE p == Planned(step)
<1>1. PICK s : s \in AwsSites
  BY SitesAssumption
<1>2. Site(s) \in AwsKvmAddresses /\ Site(s) \in Addresses
  BY <1>1, AddressesOf, NotAzureSite
<1>3. Left(step)[Site(s)] = "bootstrap"
  BY <1>1, LeftTable, TargetAws, StepConfigs
<1>4. p.before[Site(s)] # "absent"
  BY <1>2, <1>3, Resting, PlannedParts
<1>5. Site(s) \notin Created(p)
  <2>1. p \in Plans
    BY PlannedType DEF TypeOK
  <2> QED BY <1>2, <1>4, <2>1, ActionOfChange DEF Created, With
<1>6. Cardinality(ApprovalCreates(p, {KvmSite})) # 3
  <2>1. ApprovalCreates(p, {KvmSite}) \in SUBSET {KvmSite}
    BY DEF ApprovalCreates
  <2>2. IsFiniteSet({KvmSite}) /\ Cardinality({KvmSite}) = 1
    BY FS_Singleton
  <2>3. /\ IsFiniteSet(ApprovalCreates(p, {KvmSite}))
        /\ Cardinality(ApprovalCreates(p, {KvmSite})) <= Cardinality({KvmSite})
    BY <2>1, <2>2, FS_Subset
  <2>4. Cardinality(ApprovalCreates(p, {KvmSite})) \in Nat
    BY <2>3, FS_CardinalityType
  <2> QED BY <2>2, <2>3, <2>4
<1>7. ~BootstrapShape(p)
  BY <1>1, <1>5, <1>6 DEF BootstrapShape
<1> QED BY <1>7 DEF Preflight, AwsPhase

LEMMA NextApprovalPending ==
  ASSUME TypeOK, EstateInv, CyclesKnown, AwsKvmAsLeft, ApprovalPending,
         [Next]_vars
  PROVE  ApprovalPending'
<1> SUFFICES ASSUME Running'
             PROVE  /\ step' = "boot_approve" => at' = "plan"
                    /\ step' \in {"boot_approve", "conf_approve"}
                         /\ at' = "plan" =>
                         \E s \in AwsKvmSites : reg'[s] = "NEW"
  BY DEF ApprovalPending
<1>0. AwsKvmSites \subseteq Sites
  BY DEF AwsKvmSites, Sites
<1>1. CASE Outside /\ Running
  BY <1>0, <1>1 DEF Outside, ApprovalPending
<1>2. CASE Saved
  <2>1. step' = step /\ at' = "scope" /\ Running
    BY <1>2 DEF Saved
  <2>2. step # "boot_approve"
    <3>1. ASSUME step = "boot_approve" PROVE FALSE
      <4>1. Building
        BY <2>1, <3>1 DEF Building, CyclesKnown
      <4>2. Preflight(AwsPhase(step), Planned(step), cloud)
        BY <1>2, <3>1 DEF Saved, PhaseSteps
      <4> QED BY <3>1, <4>1, <4>2, BootApproveRefused
    <3> QED BY <3>1
  <2> QED BY <2>1, <2>2
<1>3. CASE Permitted
  BY <1>3 DEF Permitted, ApprovalPending
<1>4. CASE Moved
  <2>1. WayOn /\ at' = "plan" /\ reg' = reg
    BY <1>4 DEF Moved
  <2>2. ASSUME step' \in {"boot_approve", "conf_approve"}
        PROVE  \E s \in AwsKvmSites : reg[s] = "NEW"
    <3>1. step \in WaitSteps
      BY <2>1, <2>2, QuietNext DEF WaitSteps
    <3>2. step' = AfterWait(step, ApprovalCount(Planned(step)))
      BY <2>1, <3>1 DEF WayOn, WaitSteps, VerifySteps, DriftSteps
    <3>3. ApprovalCount(Planned(step)) > 0
      BY <2>2, <3>2 DEF AfterWait
    <3> QED BY <3>3, CountMeansNew
  <2> QED BY <2>1, <2>2
<1>5. CASE Rerun
  BY <1>5 DEF Rerun
<1>6. CASE Finished
  <2>1. step' \notin {"boot_approve", "conf_approve"}
    <3>1. step \in PlanSteps
      BY <1>6, FinishedStep
    <3>2. CASE step \in LoopSteps
      BY <1>6, <3>2, FinishedStep DEF LoopSteps, VerifySteps
    <3>3. CASE step \notin LoopSteps
      BY <1>6, <3>1, <3>3, FinishedStep, AppliedNext
    <3> QED BY <3>2, <3>3
  <2> QED BY <2>1
<1> QED BY <1>1, <1>2, <1>3, <1>4, <1>5, <1>6, RunningClasses

------------------------------------------------------------------------------
(* Every plan leads to the target of its step.                              *)
LEMMA AzureConfigs ==
  /\ \A s \in PhaseSteps \cup {"lan"} : ~StepConfig(s).azure
  /\ \A s \in {"az_build", "az_bind", "az_approve", "settle"} :
        StepConfig(s).azure
  /\ StepConfig("az_build").azphase = "bootstrap"
  /\ ~StepConfig("az_bind").approve
  /\ \A s \in {"az_approve", "settle"} : /\ StepConfig(s).azphase = "configured"
                                         /\ StepConfig(s).approve
BY StepConfigs DEF PhaseSteps

LEMMA OwnFileAims ==
  ASSUME TypeOK, OnlineSoFar, Building, Saved,
         step \in PhaseSteps \cup AzureSteps \cup {"lan"}, NEW a \in Addresses
  PROVE  \/ plan'.after[a] = Target(step)[a]
         \/ \E s \in AwsKvmSites : a = Approval(s) /\ reg[s] = "NEW"
<1>1. step \in PhaseSteps \cup {"lan", "az_build", "az_bind", "az_approve",
                                "settle"}
  BY StepKindsApart DEF Saved, PlanSteps, AzureSteps
<1>2. plan' = Planned(step)
  <2>1. step \notin ObserveSteps \cup {"destroy"}
    BY <1>1, StepKindsApart DEF AzureSteps
  <2> QED BY <2>1, PhaseFile DEF Saved
<1>3. plan'.after = Wanted(StepConfig(step), reg)
  BY <1>2, PlannedParts
<1>4. CASE a \in AwsKvmAddresses
  BY <1>3, <1>4, WantedNear
<1>5. CASE a \in AzureAddresses
  <2>1. CASE step \in PhaseSteps \cup {"lan"}
    BY <1>3, <1>5, <2>1, AzureConfigs, WantedNoAzure
  <2>2. ASSUME step \in {"az_build", "az_bind", "az_approve", "settle"},
               NEW x \in AzureSites, a = Approval(x), reg[x] = "none"
        PROVE  plan'.after[a] = Target(step)[a]
    <3>1. CASE step \in {"az_build", "az_bind"}
      <4>1. /\ StepConfig(step).azure
            /\ StepConfig(step).azphase = "bootstrap" \/ ~StepConfig(step).approve
        BY <3>1, AzureConfigs
      <4>2. Wanted(StepConfig(step), reg)[Approval(x)] = "absent"
        BY <2>2, <4>1, WantedAzureValues
      <4>3. Target(step)[Approval(x)] = "absent"
        BY <2>2, <4>1, TargetAzure
      <4> QED BY <1>3, <2>2, <4>2, <4>3
    <3>2. CASE step = "az_approve"
      <4>1. AzureApprovalCreates(Planned(step)) = {Approval(s) : s \in AzureSites}
        BY <3>2 DEF Saved
      <4>2. Approval(x) \in Created(Planned(step))
        BY <2>2, <4>1 DEF AzureApprovalCreates
      <4>3. Planned(step) \in Plans
        BY PlannedType DEF TypeOK
      <4>4. Planned(step).after[a] # "absent"
        BY <2>2, <4>2, <4>3, ActionOfChange DEF Created, With
      <4>5. StepConfig(step).azure
        BY <3>2, AzureConfigs
      <4>6. Wanted(StepConfig(step), reg)[Approval(x)] = "absent"
        BY <2>2, <4>5, WantedAzureValues
      <4> QED BY <1>2, <1>3, <2>2, <4>4, <4>6
    <3>3. CASE step = "settle"
      <4>1. x \in OnlineBy(step)
        BY <2>2, <3>3, OnlineByTable DEF Sites
      <4> QED BY <2>2, <4>1 DEF OnlineSoFar
    <3> QED BY <2>2, <3>1, <3>2, <3>3
  <2> QED BY <1>1, <1>3, <1>5, <2>1, <2>2, WantedAzureNear
<1> QED BY <1>4, <1>5, AddressesOf

LEMMA NextAimed ==
  ASSUME TypeOK, EstateInv, CyclesKnown, OnlineSoFar, Aimed, [Next]_vars
  PROVE  Aimed'
<1> SUFFICES ASSUME Building', at' # "plan", OwnPlan',
                    step' \in PhaseSteps \cup AzureSteps \cup {"lan"},
                    NEW a \in Addresses
             PROVE  \/ Reviewed'.after[a] = Target(step')[a]
                    \/ \E s \in AwsKvmSites : a = Approval(s) /\ reg'[s] = "NEW"
  BY DEF Aimed
<1>0. AwsKvmSites \subseteq Sites /\ Running'
  BY DEF AwsKvmSites, Sites, Building
<1>1. CASE Outside /\ Running /\ at # "plan"
  <2>1. step' = step /\ Building
    BY <1>1 DEF Outside, Building
  <2>2. Reviewed' = Reviewed /\ OwnPlan
    <3>1. CASE step \in PhaseSteps
      BY <1>1, <2>1, <3>1 DEF Outside, Reviewed, OwnPlan
    <3>2. CASE step \notin PhaseSteps
      <4>0. /\ Planned("final").cfg.azure
            /\ DestroyPlanFor(StepConfig("destroy"), state, cloud, reg).cfg.azure
        BY PlannedParts, OtherPlanParts, StepConfigs
      <4>1. overwrites' = overwrites + 1 => overwrites' # 0
        BY DEF TypeOK
      <4>2. overwrites' = 0 \/ ~plan'.cfg.azure
        BY <2>1, <3>2 DEF OwnPlan
      <4>a. ASSUME plan' \in {Planned("final"),
                      DestroyPlanFor(StepConfig("destroy"), state, cloud, reg)}
            PROVE  plan'.cfg.azure
        <5>1. CASE plan' = Planned("final")
          BY <4>0, <5>1, Zenon
        <5>2. CASE plan' = DestroyPlanFor(StepConfig("destroy"), state, cloud, reg)
          BY <4>0, <5>2, Zenon
        <5> QED BY <4>a, <5>1, <5>2
      <4>3. plan' = plan /\ overwrites' = overwrites
        BY <1>1, <4>a, <4>1, <4>2, Zenon DEF Outside
      <4> QED BY <2>1, <3>2, <4>2, <4>3, Zenon DEF Reviewed, OwnPlan
    <3> QED BY <3>1, <3>2
  <2>3. \/ Reviewed.after[a] = Target(step)[a]
        \/ \E s \in AwsKvmSites : a = Approval(s) /\ reg[s] = "NEW"
    BY <1>1, <2>1, <2>2 DEF Aimed
  <2> QED BY <1>0, <1>1, <2>1, <2>2, <2>3 DEF Outside
<1>2. CASE Saved
  <2>1. step' = step /\ reg' = reg /\ Building
    BY <1>2 DEF Saved, Building
  <2>2. Reviewed' = plan'
    BY <1>2, <2>1 DEF Saved, Reviewed
  <2> QED BY <1>2, <2>1, <2>2, OwnFileAims
<1>3. CASE Permitted
  <2>1. step' = step /\ Building /\ Reviewed' = Reviewed /\ OwnPlan /\ reg' = reg
        /\ at # "plan"
    BY <1>3 DEF Permitted, Building, Reviewed, OwnPlan
  <2> QED BY <2>1 DEF Aimed
<1> QED BY <1>0, <1>1, <1>2, <1>3, ReviewClasses

------------------------------------------------------------------------------
(* Healthy sites stay ONLINE.                                               *)
LEMMA ApplyBuilds ==
  ASSUME EstateInv, CyclesKnown, CanApply
  PROVE  step \in PlanSteps /\ (step # "destroy" => Building)
<1>1. Running /\ step \in PlanSteps
  BY DEF CanApply, EstateInv, PlanIsCurrent
<1>2. step \notin {"start", "absence", "final"}
  BY <1>1, StepKindsApart DEF PlanSteps
<1> QED BY <1>1, <1>2 DEF Building, CyclesKnown

(* Only the verification that found the sites ONLINE says so.               *)
LEMMA HealthyNewly ==
  ASSUME TypeOK, EstateInv, CyclesKnown, [Next]_vars, "healthy" \notin done,
         "healthy" \in done'
  PROVE  Moved /\ Building /\ step = "healthy"
<1>1. CASE Outside \/ Saved \/ Permitted \/ Stopped
  BY <1>1 DEF Outside, Saved, Permitted, Stopped
<1>2. CASE Rerun
  BY <1>2 DEF Rerun, history
<1>3. CASE Apply
  <2>1. CASE Finished
    BY <2>1, FinishedStep DEF LoopSteps, VerifySteps
  <2>2. CASE exit' # "running"
    BY <1>3, <2>2 DEF Apply, Advance, GoTo, CanApply, Running
  <2> QED BY <1>3, <2>1, <2>2 DEF Finished
<1>4. CASE ApplyStops \/ ApplyFails
  BY <1>4 DEF ApplyStops, ApplyFails
<1>5. CASE Moved
  <2>1. step = "healthy" /\ Running
    BY <1>5 DEF Moved
  <2> QED BY <1>5, <2>1 DEF Building, CyclesKnown
<1> QED BY <1>1, <1>2, <1>3, <1>4, <1>5, Classes DEF StepClass

(* A build passes the tests in their order.                                 *)
LEMMA GatesTable ==
  /\ \A s \in BeforeHealthy : GatesBefore(s) = {}
  /\ \A s \in {"eni_drift", "eni_observe", "eni_repair", "eni_verify"} :
        GatesBefore(s) = {"healthy"}
  /\ \A s \in {"kvm_drift", "kvm_observe", "kvm_repair", "kvm_verify"} :
        GatesBefore(s) = {"healthy", "eni_verify"}
  /\ \A s \in {"lan", "client"} :
        GatesBefore(s) = {"healthy", "eni_verify", "kvm_verify"}
  /\ \A s \in {"az_build", "az_bind", "az_approve", "az_online", "settle",
                "final", "forget"} : GatesBefore(s) = Gates
BY DEF GatesBefore, BeforeHealthy, Gates

LEMMA NextGatesPassed ==
  ASSUME TypeOK, EstateInv, CyclesKnown, GatesPassed, [Next]_vars
  PROVE  GatesPassed'
<1> SUFFICES ASSUME Building', step' = "boot_create" => at' # "plan"
             PROVE  done' \cap Gates = GatesBefore(step')
  BY DEF GatesPassed
<1>1. CASE (Outside \/ Saved \/ Permitted) /\ Building
  <2>1. step' = step
    BY <1>1 DEF Outside, Saved, Permitted
  <2>2. CASE step = "boot_create" /\ Saved
    BY <2>1, <2>2, GatesTable DEF Saved, BeforeHealthy
  <2>3. CASE ~(step = "boot_create" /\ Saved)
    <3>1. done' = done /\ (step = "boot_create" => at # "plan")
      BY <1>1, <2>1, <2>3 DEF Outside, Saved, Permitted
    <3> QED BY <1>1, <2>1, <3>1 DEF GatesPassed
  <2> QED BY <2>2, <2>3
<1>2. CASE Moved
  <2>1. /\ WayOn /\ at' = "plan" /\ Running
        /\ step \notin {"start", "forget", "absence"} =>
             done' = done \cup {step}
    BY <1>2 DEF Moved
  <2>2. step' \notin {"boot_create", "destroy"} /\ cycle' # "verify"
    BY <2>1 DEF Building
  <2>3. step \notin {"start", "forget", "absence", "boot_create", "destroy"}
        /\ cycle' = cycle
    BY <2>1, <2>2, QuietNext
  <2>4. Building
    BY <2>1, <2>2, <2>3 DEF Building
  <2>5. done \cap Gates = GatesBefore(step) /\ done' = done \cup {step}
    BY <2>1, <2>3, <2>4 DEF GatesPassed
  <2>6. GatesBefore(step') = GatesBefore(step) \cup ({step} \cap Gates)
    BY <2>1, <2>2, <2>3, QuietNext, GatesTable DEF BeforeHealthy, Gates
  <2> QED BY <2>5, <2>6
<1>3. CASE Finished
  <2>0. /\ CanApply /\ Running /\ at = "apply" /\ step \in PlanSteps
        /\ cycle' = cycle
    BY <1>3, FinishedStep
  <2>1. CASE step \in LoopSteps
    <3>1. step' = step /\ done' = done /\ step # "destroy"
      BY <1>3, <2>1, FinishedStep DEF LoopSteps, VerifySteps
    <3>2. Building
      BY <2>0, <3>1, ApplyBuilds
    <3> QED BY <2>0, <3>1, <3>2 DEF GatesPassed
  <2>2. CASE step \notin LoopSteps
    <3>1. step' = NextStep(step) /\ done' = done \cup {step}
      BY <1>3, <2>2, FinishedStep
    <3>2. step # "destroy"
      BY <3>1, NextSteps DEF Building
    <3>3. Building
      BY <2>0, <3>2, ApplyBuilds
    <3>4. done \cap Gates = GatesBefore(step)
      BY <2>0, <3>3 DEF GatesPassed
    <3>5. GatesBefore(step') = GatesBefore(step) /\ step \notin Gates
      BY <2>0, <2>2, <3>1, <3>2, AppliedNext, GatesTable
      DEF BeforeHealthy, Gates
    <3> QED BY <3>1, <3>4, <3>5
  <2> QED BY <2>1, <2>2
<1> QED BY <1>1, <1>2, <1>3, BuildingClasses

(* An apply after the verification keeps the sites that stay.               *)
LEMMA HealthyKept ==
  ASSUME TypeOK, EstateInv, PlanFollows, CyclesKnown, AwsKvmAsLeft, Aimed,
         HealthyMeansOnline, GatesPassed, CanApply, "healthy" \in done,
         NEW part \in SUBSET Changes(plan), NEW orphan \in SUBSET Created(plan),
         Applied(plan, part, orphan),
         NEW s \in AwsKvmSites, state'[Site(s)] # "absent"
  PROVE  reg'[s] = "ONLINE"
<1>0. /\ Site(s) \in AwsKvmAddresses /\ Site(s) \in Addresses
      /\ Site(s) \notin AzureAddresses /\ s \in Sites
  BY AddressesOf, NotAzureSite DEF AwsKvmSites, Sites
<1>1. /\ Site(s) \in part => state'[Site(s)] = plan.after[Site(s)]
      /\ Site(s) \notin part => state'[Site(s)] = plan.before[Site(s)]
      /\ plan.before[Site(s)] = "absent" <=> state[Site(s)] = "absent"
  BY <1>0, AppliedValues
<1>2. state[Site(s)] # "absent" => reg[s] = "ONLINE"
  BY DEF HealthyMeansOnline
<1>3. CASE Site(s) \notin part
  BY <1>0, <1>1, <1>2, <1>3, OnlineKept
<1>4. CASE Site(s) \in part
  <2>0. Site(s) \in Changes(plan)
    BY <1>4
  <2>1. step # "destroy"
    <3>1. ASSUME step = "destroy" PROVE FALSE
      <4>1. Site(s) \in Deleted(plan) /\ plan \in Plans
        BY <2>0, <3>1, ReviewedChanges, CanApplyHasPlan DEF FullDestroy
      <4>2. plan.after[Site(s)] = "absent"
        BY <1>0, <4>1 DEF Deleted, With, Action
      <4> QED BY <1>1, <1>4, <4>2
    <3> QED BY <3>1
  <2>2. Building /\ step \in PlanSteps
    BY <2>1, ApplyBuilds
  <2>3. step \notin BeforeHealthy
    BY <2>2, GatesTable DEF GatesPassed, CanApply, Gates
  <2>4. step \in {"eni_repair", "kvm_repair", "lan"}
    <3>1. step \notin VerifySteps \cup ObserveSteps \cup AzureSteps
      BY <1>0, <2>0, ReviewedChanges
    <3> QED BY <2>1, <2>2, <2>3, <3>1
            DEF PlanSteps, PhaseSteps, BeforeHealthy
  <2>5. Left(step)[Site(s)] = Target(step)[Site(s)]
        /\ Left(step)[Site(s)] # "absent"
    <3>1. Left(step) = Target("tgw")
      BY <2>4, LeftTable DEF TgwSteps
    <3>2. CASE s = KvmSite
      BY <3>1, <3>2, TargetKvm
    <3>3. CASE s \in AwsSites
      <4>1. Target("tgw")[Site(s)] = "final" /\ Target(step)[Site(s)] = "final"
        BY <2>4, <3>3, TargetAws, StepConfigs
      <4> QED BY <3>1, <4>1
    <3> QED BY <3>2, <3>3 DEF AwsKvmSites
  <2>6. Action(plan, Site(s)) = "update"
    BY <2>0, <2>2, <2>4, <2>5, SiteKept DEF PhaseSteps
  <2>7. state[Site(s)] # "absent"
    BY <1>0, <2>2, <2>5, Resting
  <2> QED BY <1>0, <1>2, <2>6, <2>7, OnlineKept
<1> QED BY <1>3, <1>4

LEMMA NextHealthyMeansOnline ==
  ASSUME TypeOK, EstateInv, PlanFollows, CyclesKnown, AwsKvmAsLeft, OnlineSoFar,
         Aimed, HealthyMeansOnline, GatesPassed, [Next]_vars
  PROVE  HealthyMeansOnline'
<1> SUFFICES ASSUME "healthy" \in done', NEW s \in AwsKvmSites,
                    state'[Site(s)] # "absent"
             PROVE  reg'[s] = "ONLINE"
  BY DEF HealthyMeansOnline
<1>0. s \in Sites
  BY DEF Sites, AwsKvmSites
<1>1. CASE "healthy" \notin done
  <2>1. Moved /\ Building /\ step = "healthy"
    BY <1>1, HealthyNewly
  <2>2. OnlineBy(step) = AwsKvmSites
    BY <2>1, OnlineByTable DEF TgwSteps
  <2> QED BY <2>1, <2>2 DEF Moved, OnlineSoFar
<1>2. CASE "healthy" \in done
  <2>1. CASE Apply \/ ApplyStops \/ ApplyFails
    <3>1. CanApply
      BY <2>1, ApplyParts
    <3>2. PICK part \in SUBSET Changes(plan), orphan \in SUBSET Created(plan) :
            Applied(plan, part, orphan)
      BY <2>1, ApplyParts
    <3> QED BY <1>2, <3>1, <3>2, HealthyKept
  <2>2. CASE Outside \/ Saved \/ Permitted \/ Moved \/ Stopped \/ Rerun
    <3>1. state' = state
      BY <2>2 DEF Outside, Saved, Permitted, Moved, Stopped, Rerun, backend
    <3>2. reg'[s] = reg[s] \/ reg[s] \in {"none", "APPROVED"}
      BY <1>0, <2>2 DEF Outside, Saved, Permitted, Moved, Stopped, Rerun, world
    <3> QED BY <1>2, <3>1, <3>2 DEF HealthyMeansOnline
  <2> QED BY <2>1, <2>2, Classes DEF StepClass
<1> QED BY <1>1, <1>2

------------------------------------------------------------------------------
(* Outputs.                                                                 *)

(* An apply that stops leaves something of the complete estate out.         *)
LEMMA StopsShort ==
  ASSUME TypeOK, EstateInv, PlanFollows, ApplyStops
  PROVE  state' # Converged
<1> DEFINE part == Changes(plan) \ (Taken(plan) \cup {AwsTgw, KvmBgp})
<1>1. /\ CanApply /\ Applied(plan, part, {})
      /\ ~AwaitedOnline(plan) \/ Taken(plan) # {}
      /\ part \in SUBSET Changes(plan) /\ {} \in SUBSET Created(plan)
  BY DEF ApplyStops
<1>2. PICK a \in Created(plan) \ Approvals : a \notin part
  <2>1. CASE Taken(plan) # {}
    BY <2>1 DEF Taken, Colliding
  <2>2. CASE ~AwaitedOnline(plan)
    <3>1. AwsTgw \in Created(plan) \/ KvmBgp \in Created(plan)
      BY <2>2 DEF AwaitedOnline, AwaitedSites
    <3> QED BY <3>1, ApprovalsOf
  <2> QED BY <1>1, <2>1, <2>2
<1>3. a \in Addresses /\ plan.before[a] = "absent"
  BY <1>1, CanApplyHasPlan, ActionOfChange DEF Created, With, Changes
<1>4. state'[a] = plan.before[a]
  BY <1>1, <1>2, <1>3, AppliedValues
<1>5. Converged[a] # "absent"
  <2>1. AwsKvmSites \subseteq Sites
    BY DEF AwsKvmSites, Sites
  <2> QED BY <1>2, <1>3, <2>1, ConvergedValues, ApprovalsOf
<1> QED BY <1>3, <1>4, <1>5

LEMMA NextOutputsFollow ==
  ASSUME TypeOK, EstateInv, PlanFollows, OutputsFollow, [Next]_vars
  PROVE  OutputsFollow'
<1>1. ASSUME Building', step' # "boot_create" PROVE shown' \subseteq real'
  <2>1. CASE (Outside \/ Saved \/ Permitted) /\ Building
    BY <1>1, <2>1 DEF Outside, Saved, Permitted, OutputsFollow
  <2>2. CASE Moved
    <3>1. WayOn /\ Running /\ shown' = shown /\ real' = real
      BY <2>2 DEF Moved
    <3>2. Building /\ step # "boot_create"
      BY <1>1, <3>1, QuietNext DEF Building
    <3> QED BY <3>1, <3>2 DEF OutputsFollow
  <2>3. CASE Finished
    BY <2>3, FinishedStep
  <2> QED BY <1>1, <2>1, <2>2, <2>3, BuildingClasses
<1>2. ASSUME faults' = 0 PROVE shown' \subseteq real' \/ state' # Converged
  <2>1. CASE Outside \/ Saved \/ Permitted \/ Moved \/ Stopped \/ Rerun
    <3>1. /\ state' = state /\ shown' = shown /\ real \subseteq real'
          /\ faults' \in {faults, faults + 1}
      BY <2>1 DEF Outside, Saved, Permitted, Moved, Stopped, Rerun, backend, world
    <3>2. faults = 0
      BY <1>2, <3>1 DEF TypeOK
    <3> QED BY <3>1, <3>2 DEF OutputsFollow
  <2>2. CASE Apply
    BY <2>2 DEF Apply
  <2>3. CASE ApplyStops
    BY <2>3, StopsShort
  <2>4. CASE ApplyFails
    BY <1>2, <2>4 DEF ApplyFails, TypeOK
  <2> QED BY <2>1, <2>2, <2>3, <2>4, Classes DEF StepClass
<1> QED BY <1>1, <1>2 DEF OutputsFollow

------------------------------------------------------------------------------
(* Azure is what the steps leave.                                           *)
LEMMA NoAzureLeft ==
  ASSUME NEW s, s \notin AzureBegun, NEW a \in AzureAddresses
  PROVE  Left(s)[a] = "absent"
<1>0. a \in Addresses
  BY DEF Addresses
<1>1. /\ Target("boot_create")[a] = "absent" /\ Target("retire")[a] = "absent"
      /\ Target("conf_create")[a] = "absent" /\ Target("tgw")[a] = "absent"
      /\ Target("lan")[a] = "absent"
  BY TargetAzure, StepConfigs
<1>2. NoEstate[a] = "absent"
  BY <1>0 DEF NoEstate
<1>3. Left(s) \in {NoEstate, Target("boot_create"), Target("retire"),
                   Target("conf_create"), Target("tgw"), Target("lan")}
  BY DEF Left, AzureBegun
<1> QED BY <1>1, <1>2, <1>3

LEMMA DriftApart ==
  ASSUME NEW s PROVE DriftTarget(s) \in AwsKvmAddresses
BY AddressesOf DEF DriftTarget

LEMMA ConvergedAzure ==
  ASSUME NEW a \in AzureAddresses
  PROVE  Converged[a] # "absent" /\ Converged[a] # "drifted"
<1>1. a \in Addresses /\ a \notin AwsKvmAddresses
  BY AddressesOf, LanesApart
<1>2. \A s \in AwsKvmSites : Approval(s) \in AwsKvmAddresses
  BY AddressesOf DEF AwsKvmSites
<1> QED BY <1>1, <1>2, ConvergedValues

(* A plan of the complete configuration wants the complete estate once      *)
(* every site is ONLINE.                                                    *)
LEMMA WantedComplete ==
  ASSUME \A s \in Sites : reg[s] = "ONLINE", NEW a \in Addresses
  PROVE  Wanted(StepConfig("final"), reg)[a] = Converged[a]
<1>1. AwsKvmSites \subseteq Sites /\ AzureSites \subseteq Sites
  BY DEF AwsKvmSites, Sites
<1>2. CASE a \in AwsKvmAddresses
  BY <1>1, <1>2, WantedNear, FinalConfig
<1>3. CASE a \in AzureAddresses
  BY <1>1, <1>3, WantedAzureNear, FinalConfig
<1> QED BY <1>2, <1>3, AddressesOf

(* A plan that changes nothing finds the complete estate.                   *)
LEMMA ZeroMeansConverged ==
  ASSUME TypeOK, StateFollows, \A s \in Sites : reg[s] = "ONLINE",
         Changes(Planned("final")) = {}
  PROVE  \A a \in Addresses :
           /\ state[a] = Converged[a]
           /\ Converged[a] # "absent" => cloud[a] = Converged[a]
<1> SUFFICES ASSUME NEW a \in Addresses
             PROVE  /\ state[a] = Converged[a]
                    /\ Converged[a] # "absent" => cloud[a] = Converged[a]
  OBVIOUS
<1>1. Refreshed(state, cloud)[a] = Converged[a]
  BY NothingToChange, WantedComplete
<1>2. CASE state[a] = "absent"
  BY <1>1, <1>2, FreshBefore
<1>3. CASE state[a] # "absent"
  <2>1. cloud[a] = Converged[a] /\ cloud[a] \in {state[a], "drifted"}
    BY <1>1, <1>3, FreshBefore DEF StateFollows, Held
  <2> QED BY <2>1, ConvergedValues
<1> QED BY <1>2, <1>3

LEMMA NextAzureAsLeft ==
  ASSUME TypeOK, EstateInv, PlanFollows, StateFollows, CyclesKnown, OnlineSoFar,
         Aimed, AzureAsLeft, [Next]_vars
  PROVE  AzureAsLeft'
<1> SUFFICES ASSUME Building', step' \in AzureBegun => overwrites' = 0,
                    NEW a \in AzureAddresses
             PROVE  \/ /\ state'[a] = Left(step')[a]
                       /\ Left(step')[a] # "absent" =>
                            cloud'[a] = Left(step')[a]
                    \/ /\ a \in Labels(step')
                       /\ {state'[a], cloud'[a]} \subseteq
                            {Left(step')[a], "drifted"}
  BY DEF AzureAsLeft
<1>0. a \in Addresses /\ a \notin AwsKvmAddresses
  BY AddressesOf, LanesApart
<1>a. ASSUME Building, step \in AzureBegun => overwrites = 0
      PROVE  \/ /\ state[a] = Left(step)[a]
                /\ Left(step)[a] # "absent" => cloud[a] = Left(step)[a]
             \/ /\ a \in Labels(step)
                /\ {state[a], cloud[a]} \subseteq {Left(step)[a], "drifted"}
  BY <1>a DEF AzureAsLeft
<1>1. CASE Outside /\ Building
  <2>1. /\ state' = state /\ step' = step
        /\ step \in AzureBegun => overwrites = 0
    BY <1>1, LifecycleAssumption DEF Outside, TypeOK
  <2>2. CASE cloud'[a] = cloud[a]
    BY <1>1, <1>a, <2>1, <2>2
  <2>3. CASE cloud'[a] # cloud[a]
    <3>1. /\ cloud'[a] = "drifted"
          /\ \E x \in AzureSites : a = Site(x) /\ reg[x] \in {"none", "APPROVED"}
      BY <1>0, <1>1, <2>3 DEF Outside
    <3>2. CASE Left(step)[a] = "absent" /\ state[a] = "absent"
      BY <2>1, <3>2
    <3>3. CASE step \in Labelling
      <4>1. a \in Labels(step)
        BY <3>1, <3>3 DEF Labels, AzureSiteAddresses
      <4> QED BY <1>1, <1>a, <2>1, <3>1, <4>1
    <3>4. CASE step \notin Labelling /\ ~(Left(step)[a] = "absent"
                                          /\ state[a] = "absent")
      <4>1. Labels(step) = {}
        BY <3>4 DEF Labels
      <4>2. Left(step)[a] # "absent"
        BY <1>1, <1>a, <2>1, <3>4, <4>1
      <4>3. step \in AzureBegun
        BY <4>2, NoAzureLeft
      <4>4. OnlineBy(step) = Sites
        BY <3>4, <4>3, OnlineByTable DEF AzureBegun, Labelling
      <4>5. \A x \in AzureSites : reg[x] = "ONLINE"
        BY <1>1, <4>4 DEF OnlineSoFar, Sites
      <4> QED BY <3>1, <4>5
    <3> QED BY <3>2, <3>3, <3>4
  <2> QED BY <2>2, <2>3
<1>2. CASE (Saved \/ Permitted) /\ Building
  <2>1. UNCHANGED <<state, cloud, step, overwrites>>
    BY <1>2 DEF Saved, Permitted
  <2> QED BY <1>2, <1>a, <2>1
<1>3. CASE Moved
  <2>0. /\ Running /\ WayOn /\ state' = state /\ overwrites' = overwrites
    BY <1>3 DEF Moved
  <2>1. CASE step \in {"start", "absence"}
    <3>1. step' = "boot_create" /\ state = NoEstate
      BY <2>0, <2>1, QuietNext DEF Building, EstateInv, StartsEmpty
    <3> QED BY <1>0, <2>0, <3>1, LeftTable DEF NoEstate
  <2>2. CASE step \notin {"start", "absence"}
    <3>1. Building
      BY <2>0, <2>2, QuietNext DEF Building
    <3>2. Left(step') = Left(step)
      BY <2>0, <3>1, QuietLeft
    <3>3. cloud'[a] = cloud[a]
      BY <1>0, <1>3, DriftApart DEF Moved, TypeOK, Estates
    <3>4. step \in AzureBegun => step' \in AzureBegun
      BY <2>0, <2>2, QuietNext DEF AzureBegun, Building
    <3>5. CASE step = "settle"
      <4>1. step' = "final" /\ ZeroChange(Planned("settle"))
        BY <2>0, <3>5, QuietNext
      <4>2. \A s \in Sites : reg[s] = "ONLINE"
        BY <3>1, <3>5, OnlineByTable DEF OnlineSoFar
      <4>3. Changes(Planned("final")) = {}
        BY <4>1, FinalConfig DEF ZeroChange, Planned
      <4>4. /\ state[a] = Converged[a]
            /\ Converged[a] # "absent" => cloud[a] = Converged[a]
        BY <1>0, <4>2, <4>3, ZeroMeansConverged
      <4> QED BY <2>0, <3>3, <4>1, <4>4, LeftTable
    <3>6. CASE step # "settle"
      <4>1. Labels(step) # {} => Labels(step') = Labels(step)
        BY <2>0, <2>2, <3>6, QuietNext DEF Labels, Labelling
      <4> QED BY <1>a, <2>0, <3>1, <3>2, <3>3, <3>4, <4>1
    <3> QED BY <3>5, <3>6
  <2> QED BY <2>1, <2>2
<1>4. CASE Finished
  <2>0. /\ CanApply /\ Running /\ step \in PlanSteps
        /\ overwrites' = overwrites
    BY <1>4, FinishedStep
  <2>1. step # "destroy"
    <3>1. step = "destroy" => step' = "absence"
      BY <1>4, FinishedStep, NextSteps, StepKindsApart DEF LoopSteps, AzureSteps
    <3> QED BY <3>1 DEF Building
  <2>2. Building
    BY <2>0, <2>1, StepKindsApart, ApplyBuilds
  <2>3. CASE step \in {"az_build", "az_bind", "az_approve", "settle"}
    <3>1. /\ step' \in Labelling /\ step' \in AzureBegun
          /\ Left(step') = Target(step)
      <4>1. CASE step = "settle"
        <5>1. step' = "settle"
          BY <1>4, <4>1, FinishedStep DEF LoopSteps
        <5> QED BY <4>1, <5>1, LeftTable, FinalConfig DEF Labelling, AzureBegun
      <4>2. CASE step \in {"az_build", "az_bind", "az_approve"}
        <5>1. step' = NextStep(step)
          BY <1>4, <4>2, FinishedStep DEF LoopSteps, VerifySteps
        <5>2. Left(step') = Target(step)
          BY <4>2, <5>1, LeftAfterApply
        <5> QED BY <4>2, <5>1, <5>2, NextSteps DEF Labelling, AzureBegun
      <4> QED BY <2>3, <4>1, <4>2
    <3>2. plan.after[a] = Target(step)[a]
      <4>1. \A s \in AwsKvmSites : Approval(s) \in AwsKvmAddresses
        BY AddressesOf DEF AwsKvmSites
      <4>2. step \in AzureSteps /\ overwrites = 0
        BY <2>0, <2>3, <3>1 DEF AzureSteps
      <4> QED BY <1>0, <2>0, <2>2, <4>1, <4>2, AppliedAims
    <3>3. /\ state'[a] = plan.after[a]
          /\ plan.after[a] # "absent" =>
               \/ cloud'[a] = plan.after[a]
               \/ a \in AzureSiteAddresses /\ cloud'[a] = "drifted"
      BY <1>0, <1>4, FinishedValues
    <3>4. Labels(step') = AzureSiteAddresses
      BY <3>1 DEF Labels
    <3> QED BY <3>1, <3>2, <3>3, <3>4
  <2>4. CASE step \notin {"az_build", "az_bind", "az_approve", "settle"}
    <3>1. step \notin AzureSteps /\ step \notin AzureBegun
      BY <2>0, <2>4, StepKindsApart DEF PlanSteps, AzureSteps, AzureBegun
    <3>2. a \notin Changes(plan)
      BY <1>0, <2>0, <2>1, <3>1, ReviewedChanges, AddressesOf DEF PlanSteps
    <3>3. Left(step)[a] = "absent" /\ Labels(step) = {}
      BY <3>1, NoAzureLeft DEF Labels, Labelling, AzureBegun
    <3>4. state[a] = "absent"
      BY <1>a, <2>2, <3>1, <3>3
    <3>5. state'[a] = "absent"
      BY <1>0, <1>4, <3>2, <3>4, FinishedValues
    <3>6. step' \notin AzureBegun
      <4>1. CASE step \in LoopSteps
        BY <1>4, <3>1, <4>1, FinishedStep
      <4>2. CASE step \notin LoopSteps
        <5>1. step' = NextStep(step)
          BY <1>4, <4>2, FinishedStep
        <5> QED BY <2>0, <2>4, <4>2, <5>1, AppliedNext DEF AzureBegun
      <4> QED BY <4>1, <4>2
    <3>7. Left(step')[a] = "absent"
      BY <3>6, NoAzureLeft
    <3> QED BY <3>5, <3>7
  <2> QED BY <2>3, <2>4
<1> QED BY <1>1, <1>2, <1>3, <1>4, BuildingClasses

------------------------------------------------------------------------------
(* What the plan of a step finds.                                           *)
LEMMA AwsKvmFound ==
  ASSUME AwsKvmAsLeft, Building, NEW a \in AwsKvmAddresses,
         ~(step = "tgw" /\ a \in Approvals)
  PROVE  /\ a \notin Injected(step) =>
              Refreshed(state, cloud)[a] = Left(step)[a]
         /\ a \in Injected(step) =>
              /\ Refreshed(state, cloud)[a] = "drifted"
              /\ Left(step)[a] = Target("tgw")[a]
<1>1. CASE Left(step)[a] = "absent"
  <2>1. a \notin Injected(step)
    <3>1. ASSUME a \in Injected(step) PROVE FALSE
      <4>1. Left(step) = Target("tgw") /\ a \in {AwsNetwork, Site(KvmSite)}
        BY <3>1, LeftTable DEF Injected, TgwSteps
      <4> QED BY <1>1, <4>1, TargetAws, TargetKvm
    <3> QED BY <3>1
  <2> QED BY <1>1, <2>1, Resting
<1>2. CASE Left(step)[a] # "absent"
  <2>1. Refreshed(state, cloud)[a] = Live(step, a)
    BY <1>2, Resting
  <2>2. a \in Injected(step) => Left(step) = Target("tgw")
    BY LeftTable DEF Injected, TgwSteps
  <2> QED BY <2>1, <2>2 DEF Live
<1> QED BY <1>1, <1>2

LEMMA AzureFound ==
  ASSUME AzureAsLeft, Building, step \in AzureBegun => overwrites = 0,
         NEW a \in AzureAddresses
  PROVE  /\ Left(step)[a] = "absent" =>
              state[a] = "absent" /\ Refreshed(state, cloud)[a] = "absent"
         /\ Left(step)[a] # "absent" =>
              /\ state[a] # "absent"
              /\ \/ Refreshed(state, cloud)[a] = Left(step)[a]
                 \/ /\ a \in AzureSiteAddresses
                    /\ Refreshed(state, cloud)[a] = "drifted"
<1>0. a \in Addresses
  BY AddressesOf
<1>1. \/ /\ state[a] = Left(step)[a]
         /\ Left(step)[a] # "absent" => cloud[a] = Left(step)[a]
      \/ /\ a \in Labels(step)
         /\ {state[a], cloud[a]} \subseteq {Left(step)[a], "drifted"}
  BY DEF AzureAsLeft
<1>2. a \in Labels(step) =>
        a \in AzureSiteAddresses /\ Left(step)[a] # "absent"
  <2>1. ASSUME a \in Labels(step)
        PROVE  a \in AzureSiteAddresses /\ Left(step)[a] # "absent"
    <3>1. step \in Labelling /\ a \in AzureSiteAddresses
      BY <2>1 DEF Labels
    <3>2. Left(step) \in {Target("az_build"), Target("az_bind"), Converged}
      BY <3>1, LeftTable DEF Labelling
    <3>3. PICK x \in AzureSites : a = Site(x)
      BY <3>1 DEF AzureSiteAddresses
    <3>4. Target("az_build")[a] # "absent" /\ Target("az_bind")[a] # "absent"
      BY <3>3, TargetAzure, AzureConfigs
    <3> QED BY <3>1, <3>2, <3>4, ConvergedAzure
  <2> QED BY <2>1
<1> QED BY <1>0, <1>1, <1>2, FreshBefore

(* Once AWS and KVM are ONLINE a plan wants exactly its target there.       *)
LEMMA WantedOnline ==
  ASSUME \A x \in AwsKvmSites : reg[x] = "ONLINE", NEW s,
         NEW a \in AwsKvmAddresses
  PROVE  Wanted(StepConfig(s), reg)[a] = Target(s)[a]
BY WantedNear

(* Plans of the phases never replace a site.                                *)
LEMMA PhaseNeverReplaces ==
  ASSUME TypeOK, AwsKvmAsLeft, Building, step \in PhaseSteps,
         NEW a \in Addresses
  PROVE  Action(Planned(step), a) # "replace"
<1> DEFINE p == Planned(step)
<1> SUFFICES ASSUME p.before[a] # "absent", p.after[a] # "absent",
                    {p.before[a], p.after[a]} = {"bootstrap", "final"}
             PROVE  FALSE
  BY DEF Action
<1>1. p.before = Refreshed(state, cloud) /\ p.after = Wanted(StepConfig(step), reg)
  BY PlannedParts
<1>2. p.after[a] \in {"bootstrap", "final"} /\ p.before[a] \in {"bootstrap", "final"}
      /\ p.before[a] # p.after[a]
  OBVIOUS
<1>3. CASE a \in AwsKvmAddresses
  <2>1. p.after[a] = Target(step)[a]
    BY <1>1, <1>2, <1>3, WantedNear
  <2>2. PICK x \in AwsSites : a = Site(x)
    BY <1>2, <2>1, TargetPlain
  <2>3. a \notin Approvals
    BY <2>2, ApprovalsOf
  <2>4. p.before[a] = Left(step)[a]
    BY <1>1, <1>2, <1>3, <2>3, AwsKvmFound
  <2>5. CASE step = "boot_create"
    <3>1. Left(step)[a] = "absent"
      BY <1>3, <2>5, LeftTable, NotAzureSite DEF NoEstate
    <3> QED BY <1>2, <2>4, <3>1
  <2>6. CASE step = "retire"
    <3>1. Target(step)[a] = "absent"
      BY <2>2, <2>6, TargetAws, StepConfigs
    <3> QED BY <1>2, <2>1, <3>1
  <2>7. CASE step = "conf_create"
    <3>1. Left(step)[a] = "absent"
      BY <2>2, <2>7, LeftTable, TargetAws, StepConfigs
    <3> QED BY <1>2, <2>4, <3>1
  <2>8. CASE step = "boot_approve"
    <3>1. Left(step)[a] = "bootstrap" /\ Target(step)[a] = "bootstrap"
      BY <2>2, <2>8, LeftTable, TargetAws, StepConfigs
    <3> QED BY <1>2, <2>1, <2>4, <3>1
  <2>9. CASE step \in {"conf_approve", "tgw", "eni_repair", "kvm_repair"}
    <3>1. Left(step) \in {Target("conf_create"), Target("tgw")}
      BY <2>9, LeftTable DEF TgwSteps
    <3>2. /\ Target("conf_create")[a] = "final" /\ Target("tgw")[a] = "final"
          /\ Target(step)[a] = "final"
      BY <2>2, <2>9, TargetAws, StepConfigs
    <3> QED BY <1>2, <2>1, <2>4, <3>1, <3>2
  <2> QED BY <2>5, <2>6, <2>7, <2>8, <2>9 DEF PhaseSteps
<1>4. CASE a \in AzureAddresses
  <2>1. p.after[a] = "absent"
    BY <1>1, <1>4, AzureConfigs, WantedNoAzure
  <2> QED BY <1>2, <2>1
<1> QED BY <1>3, <1>4, AddressesOf

(* Plans of the phases change something.                                    *)
LEMMA PhaseChanges ==
  ASSUME TypeOK, AwsKvmAsLeft, ApprovalPending, Building, at = "plan",
         step \in PhaseSteps \ {"boot_approve"}
  PROVE  Changes(Planned(step)) # {}
<1> DEFINE p == Planned(step)
<1>1. p.before = Refreshed(state, cloud) /\ p.after = Wanted(StepConfig(step), reg)
  BY PlannedParts
<1>2. PICK s : s \in AwsSites
  BY SitesAssumption
<1>3. /\ {AwsNetwork, AwsTgw, Site(s), Site(KvmSite)} \subseteq AwsKvmAddresses
      /\ {AwsNetwork, AwsTgw, Site(s), Site(KvmSite)} \cap Approvals = {}
  BY <1>2, AddressesOf, ApprovalsOf
<1>4. AwsKvmAddresses \subseteq Addresses
  BY NotAzureSite
<1>5. \A a \in AwsKvmAddresses \ Approvals :
        /\ a \notin Injected(step) => p.before[a] = Left(step)[a]
        /\ a \in Injected(step) => p.before[a] = "drifted"
  BY <1>1, AwsKvmFound
<1>6. /\ p.after[AwsNetwork] = "present" /\ p.after[Site(KvmSite)] = "present"
      /\ StepConfig(step).tgw => p.after[AwsTgw] = "present"
      /\ StepConfig(step).aws = "bootstrap_retirement" => p.after[Site(s)] = "absent"
      /\ StepConfig(step).aws = "configured" => p.after[Site(s)] = "final"
  BY <1>1, <1>2, WantedAwsValues, WantedKvmValues
<1>7. \A a \in Addresses : p.before[a] # p.after[a] => Changes(p) # {}
  BY DEF Changes
<1>8. CASE step = "boot_create"
  <2>1. Left(step)[AwsNetwork] = "absent" /\ Injected(step) = {}
    BY <1>3, <1>4, <1>8, LeftTable, InjectedTable DEF NoEstate
  <2>2. p.before[AwsNetwork] = "absent"
    BY <1>3, <1>5, <2>1
  <2> QED BY <1>3, <1>4, <1>6, <1>7, <2>2
<1>9. CASE step = "retire"
  <2>1. Left(step)[Site(s)] = "bootstrap" /\ Injected(step) = {}
    BY <1>2, <1>9, LeftTable, InjectedTable, TargetAws, StepConfigs
  <2>2. p.before[Site(s)] = "bootstrap"
    BY <1>3, <1>5, <2>1
  <2>3. p.after[Site(s)] = "absent"
    BY <1>6, <1>9, StepConfigs
  <2> QED BY <1>3, <1>4, <1>7, <2>2, <2>3
<1>10. CASE step = "conf_create"
  <2>1. Left(step)[Site(s)] = "absent" /\ Injected(step) = {}
    BY <1>2, <1>10, LeftTable, InjectedTable, TargetAws, StepConfigs
  <2>2. p.before[Site(s)] = "absent"
    BY <1>3, <1>5, <2>1
  <2>3. p.after[Site(s)] = "final"
    BY <1>6, <1>10, StepConfigs
  <2> QED BY <1>3, <1>4, <1>7, <2>2, <2>3
<1>11. CASE step = "conf_approve"
  <2>1. PICK x \in AwsKvmSites : reg[x] = "NEW"
    BY <1>11 DEF ApprovalPending, Building
  <2>2. Approval(x) \in AwsKvmAddresses
    BY AddressesOf DEF AwsKvmSites
  <2>3. Left(step)[Approval(x)] = "absent" /\ Injected(step) = {}
    BY <1>11, LeftTable, InjectedTable, TargetAws, TargetKvm DEF AwsKvmSites
  <2>4. p.before[Approval(x)] = "absent"
    BY <1>1, <1>11, <2>2, <2>3, AwsKvmFound
  <2>5. p.after[Approval(x)] = "present"
    <3>1. StepConfig(step).aws = "configured"
      BY <1>11, StepConfigs
    <3> QED BY <1>1, <2>1, <3>1, WantedAwsValues, WantedKvmValues
            DEF AwsKvmSites
  <2> QED BY <1>4, <1>7, <2>2, <2>4, <2>5
<1>12. CASE step = "tgw"
  <2>1. Left(step)[AwsTgw] = "absent" /\ Injected(step) = {}
    BY <1>12, LeftTable, InjectedTable, TargetAws, StepConfigs
  <2>2. p.before[AwsTgw] = "absent"
    BY <1>3, <1>5, <2>1
  <2>3. p.after[AwsTgw] = "present"
    BY <1>6, <1>12, StepConfigs
  <2> QED BY <1>3, <1>4, <1>7, <2>2, <2>3
<1>13. CASE step = "eni_repair"
  <2>1. p.before[AwsNetwork] = "drifted"
    BY <1>3, <1>5, <1>13, InjectedTable
  <2> QED BY <1>3, <1>4, <1>6, <1>7, <2>1
<1>14. CASE step = "kvm_repair"
  <2>1. p.before[Site(KvmSite)] = "drifted"
    BY <1>3, <1>5, <1>14, InjectedTable
  <2> QED BY <1>3, <1>4, <1>6, <1>7, <2>1
<1> QED BY <1>8, <1>9, <1>10, <1>11, <1>12, <1>13, <1>14 DEF PhaseSteps

LEMMA PhaseAccepted ==
  ASSUME TypeOK, AwsKvmAsLeft, ApprovalPending, Building, Saved,
         step \in PhaseSteps
  PROVE  AwsKvmBuild(Planned(step))
<1> DEFINE p == Planned(step)
<1>1. Preflight(AwsPhase(step), p, cloud) /\ at = "plan"
  BY DEF Saved
<1>2. step # "boot_approve"
  BY <1>1, BootApproveRefused
<1>3. Changes(p) # {}
  BY <1>1, <1>2, PhaseChanges
<1>4. Changes(p) \subseteq AwsAddresses \cup KvmAddresses
  BY <1>1 DEF Preflight
<1>5. With(p, {"create", "update", "delete"}) = Changes(p)
  <2>1. \A a \in Changes(p) : Action(p, a) # "replace"
    BY PhaseNeverReplaces DEF Changes
  <2>2. \A a \in Changes(p) : Action(p, a) \in {"create", "update", "delete"}
    BY <2>1 DEF Action
  <2> QED BY <2>2 DEF With
<1>6. HardwareStage(p)
  <2>1. ~StepConfig(step).azure
    BY AzureConfigs
  <2>2. StepConfig(step).lan = "hardware"
    BY StepConfigs DEF PhaseSteps
  <2> QED BY <2>1, <2>2, PlannedParts DEF HardwareStage
<1> QED BY <1>3, <1>4, <1>5, <1>6 DEF AwsKvmBuild

------------------------------------------------------------------------------
(* Every plan of an undisturbed step is one its own scope permits, unless a *)
(* status output settles meanwhile.                                         *)

(* The AWS and KVM part of a plan after the sites were found ONLINE.        *)
LEMMA SteadyPlan ==
  ASSUME AwsKvmAsLeft, OnlineSoFar, Building, AwsKvmSites \subseteq OnlineBy(step),
         NEW a \in AwsKvmAddresses, a \notin Injected(step), step # "tgw"
  PROVE  /\ Planned(step).before[a] = Left(step)[a]
         /\ Planned(step).after[a] = Target(step)[a]
         /\ a \in Changes(Planned(step)) => Left(step)[a] # Target(step)[a]
<1>1. Planned(step).before[a] = Left(step)[a]
  BY AwsKvmFound, PlannedParts
<1>2. Planned(step).after[a] = Target(step)[a]
  BY WantedOnline, PlannedParts DEF OnlineSoFar
<1> QED BY <1>1, <1>2 DEF Changes

LEMMA VerifyAccepted ==
  ASSUME TypeOK, AwsKvmAsLeft, AzureAsLeft, OnlineSoFar, Building,
         step \in VerifySteps
  PROVE  Changes(Planned(step)) = {} /\ HardwareStage(Planned(step))
<1> DEFINE p == Planned(step)
<1>1. Left(step) = Target("tgw") /\ Target(step) = Target("tgw")
  BY LeftTable, SameTargets DEF VerifySteps, TgwSteps
<1>2. /\ OnlineBy(step) = AwsKvmSites /\ Injected(step) = {}
      /\ step # "tgw" /\ step \notin AzureBegun
  <2>1. step \in {"healthy", "eni_verify", "kvm_verify"}
    BY DEF VerifySteps
  <2>2. step # "tgw" /\ step \notin AzureBegun /\ step \in TgwSteps
    BY <2>1 DEF AzureBegun, TgwSteps
  <2>3. Injected(step) = {}
    BY <2>1, InjectedTable
  <2> QED BY <2>2, <2>3, OnlineByTable
<1>3. ~StepConfig(step).azure /\ StepConfig(step).lan = "hardware"
  <2>1. StepConfig(step) =
          [aws |-> "configured", tgw |-> TRUE, azure |-> FALSE,
           azphase |-> "configured", approve |-> TRUE, lan |-> "hardware"]
    BY StepConfigs, Zenon
  <2> QED BY <2>1
<1>4. ASSUME NEW a \in AwsKvmAddresses PROVE a \notin Changes(p)
  BY <1>1, <1>2, SteadyPlan
<1>5. ASSUME NEW a \in AzureAddresses PROVE a \notin Changes(p)
  <2>1. Left(step)[a] = "absent"
    BY <1>2, NoAzureLeft
  <2>2. Refreshed(state, cloud)[a] = "absent"
    BY <1>2, <2>1, AzureFound
  <2>3. p.after[a] = "absent"
    BY <1>3, WantedNoAzure, PlannedParts
  <2> QED BY <2>2, <2>3, PlannedParts DEF Changes
<1>6. Changes(p) \subseteq AwsKvmAddresses \cup AzureAddresses
  BY AddressesOf DEF Changes
<1> QED BY <1>3, <1>4, <1>5, <1>6, PlannedParts DEF HardwareStage

LEMMA LanAccepted ==
  ASSUME TypeOK, AwsKvmAsLeft, AzureAsLeft, OnlineSoFar, Building, step = "lan"
  PROVE  KvmConfigured(Planned(step))
<1> DEFINE p == Planned(step)
<1>1. Left(step) = Target("tgw")
  BY LeftTable DEF TgwSteps
<1>2. /\ OnlineBy(step) = AwsKvmSites /\ Injected(step) = {}
      /\ step # "tgw" /\ step \notin AzureBegun
  BY OnlineByTable, InjectedTable DEF TgwSteps, AzureBegun
<1>3. ~StepConfig(step).azure /\ StepConfig(step).lan = "configured"
  BY StepConfigs
<1>4. ASSUME NEW a \in AwsAddresses PROVE a \notin Changes(p)
  <2>1. a \in AwsKvmAddresses
    BY AddressesOf
  <2>2. Target("tgw")[a] = Target("lan")[a]
    <3>1. /\ StepConfig("tgw").aws = "configured"
          /\ StepConfig("lan").aws = "configured"
          /\ StepConfig("tgw").tgw /\ StepConfig("lan").tgw
      BY StepConfigs
    <3> QED BY <3>1, TargetAws, AddressKinds
  <2> QED BY <1>1, <1>2, <2>1, <2>2, SteadyPlan
<1>5. ASSUME NEW a \in AzureAddresses PROVE a \notin Changes(p)
  <2>1. Left(step)[a] = "absent"
    BY <1>2, NoAzureLeft
  <2>2. Refreshed(state, cloud)[a] = "absent"
    BY <1>2, <2>1, AzureFound
  <2>3. p.after[a] = "absent"
    BY <1>3, WantedNoAzure, PlannedParts
  <2> QED BY <2>2, <2>3, PlannedParts DEF Changes
<1>6. Changes(p) \subseteq KvmAddresses
  BY <1>4, <1>5, AddressesOf DEF Changes
<1>7. Changes(p) # {}
  <2>1. KvmLan \in AwsKvmAddresses /\ KvmLan \in Addresses
    BY AddressesOf
  <2>2. Target("tgw")[KvmLan] = "absent" /\ Target("lan")[KvmLan] = "present"
    BY TargetKvm, StepConfigs
  <2>3. p.before[KvmLan] = "absent" /\ p.after[KvmLan] = "present"
    BY <1>1, <1>2, <2>1, <2>2, SteadyPlan
  <2> QED BY <2>1, <2>3 DEF Changes
<1>8. With(p, {"create", "update", "delete"}) = Changes(p)
  <2>1. ASSUME NEW a \in Changes(p) PROVE Action(p, a) # "replace"
    <3>1. a \in KvmAddresses /\ a \in AwsKvmAddresses /\ a \in Addresses
      BY <1>6, AddressesOf
    <3>2. p.after[a] = Target(step)[a] /\ p.before[a] = Left(step)[a]
      BY <1>2, <3>1, SteadyPlan
    <3>3. p.after[a] \notin {"bootstrap", "final"}
      <4>1. \A x \in AwsSites : a # Site(x)
        BY <3>1, AddressesOf, LanesApart
      <4> QED BY <3>1, <3>2, <4>1, TargetPlain
    <3> QED BY <3>3 DEF Action
  <2>2. \A a \in Changes(p) : Action(p, a) \in {"create", "update", "delete"}
    BY <2>1 DEF Action
  <2> QED BY <2>2 DEF With
<1>9. ~p.cfg.azure /\ p.cfg.lan = "configured"
  BY <1>3, PlannedParts
<1> QED BY <1>6, <1>7, <1>8, <1>9 DEF KvmConfigured

(* The plans of the Azure steps.                                            *)
AzurePlanSteps == {"az_build", "az_bind", "az_approve", "settle"}

LEMMA AzureFlags ==
  ASSUME step \in AzurePlanSteps
  PROVE  /\ FullFlags(Planned(step)) /\ Planned(step).cfg.azure
         /\ Planned(step).cfg.lan = "configured"
         /\ step # "az_build" => Planned(step).cfg.azphase = "configured"
<1>1. /\ StepConfig(step).azure /\ StepConfig(step).tgw
      /\ StepConfig(step).lan = "configured"
      /\ step # "az_build" => StepConfig(step).azphase = "configured"
  BY StepConfigs DEF AzurePlanSteps
<1> QED BY <1>1, PlannedParts DEF FullFlags

LEMMA AzureOnly ==
  ASSUME TypeOK, AwsKvmAsLeft, OnlineSoFar, Building, step \in AzurePlanSteps
  PROVE  Changes(Planned(step)) \subseteq AzureAddresses
<1>1. /\ AwsKvmSites \subseteq OnlineBy(step) /\ Injected(step) = {}
      /\ step # "tgw"
  BY OnlineByTable, InjectedTable DEF AzurePlanSteps, AwsKvmSites, Sites
<1>2. ASSUME NEW a \in AwsKvmAddresses
      PROVE  Left(step)[a] = Target(step)[a]
  <2>1. /\ Target("az_build")[a] = Target("lan")[a]
        /\ Target("az_bind")[a] = Target("lan")[a]
        /\ Converged[a] = Target("lan")[a]
    BY AzureLeavesRest
  <2> QED BY <2>1, LeftTable, SameTargets DEF AzurePlanSteps
<1>3. ASSUME NEW a \in AwsKvmAddresses PROVE a \notin Changes(Planned(step))
  BY <1>1, <1>2, SteadyPlan
<1> QED BY <1>3, AddressesOf DEF Changes

LEMMA AzureBuildAccepted ==
  ASSUME TypeOK, AwsKvmAsLeft, AzureAsLeft, OnlineSoFar, Building,
         step = "az_build"
  PROVE  AzureBuild(Planned(step))
<1> DEFINE p == Planned(step)
<1>1. step \in AzurePlanSteps /\ step \notin AzureBegun
  BY DEF AzurePlanSteps, AzureBegun
<1>2. ASSUME NEW a \in AzureAddresses PROVE p.before[a] = "absent"
  BY <1>1, NoAzureLeft, AzureFound, PlannedParts
<1>3. With(p, {"create", "update"}) = Changes(p)
  <2>1. Changes(p) \subseteq AzureAddresses
    BY <1>1, AzureOnly
  <2>2. ASSUME NEW a \in Changes(p) PROVE Action(p, a) = "create"
    <3>1. p.before[a] = "absent"
      BY <1>2, <2>1
    <3>2. p.after[a] # "absent"
      BY <2>2, <3>1 DEF Changes
    <3> QED BY <3>1, <3>2 DEF Action
  <2> QED BY <2>2 DEF With
<1>4. Changes(p) # {}
  <2>1. p.after[AzureHub] = "present"
    BY AzureConfigs, WantedAzureValues, PlannedParts
  <2>2. AzureHub \in Addresses /\ p.before[AzureHub] = "absent"
    BY <1>2, AddressesOf
  <2> QED BY <2>1, <2>2 DEF Changes
<1> QED BY <1>1, <1>3, <1>4, AzureOnly, AzureFlags DEF AzureBuild

LEMMA AzureBindAccepted ==
  ASSUME TypeOK, AwsKvmAsLeft, AzureAsLeft, OnlineSoFar, Building,
         overwrites = 0, step = "az_bind"
  PROVE  AzureBindings(Planned(step))
<1> DEFINE p == Planned(step)
<1>1. step \in AzurePlanSteps /\ Left(step) = Target("az_build")
      /\ p.before = Refreshed(state, cloud)
      /\ p.after = Wanted(StepConfig(step), reg)
  BY LeftTable, PlannedParts DEF AzurePlanSteps
<1>2. /\ StepConfig(step).azure /\ StepConfig(step).azphase = "configured"
      /\ ~StepConfig(step).approve
      /\ StepConfig("az_build").azure
      /\ StepConfig("az_build").azphase = "bootstrap"
  BY StepConfigs
<1>3. p.before[AzureHub] = "present" /\ p.after[AzureHub] = "present"
  <2>1. Left(step)[AzureHub] = "present"
    BY <1>1, <1>2, TargetAzure
  <2>2. AzureHub \notin AzureSiteAddresses
    BY ObjectsApart DEF AzureSiteAddresses
  <2>3. p.before[AzureHub] = "present"
    BY <1>1, <2>1, <2>2, AddressesOf, AzureFound
  <2> QED BY <1>1, <1>2, <2>3, WantedAzureValues
<1>4. ASSUME NEW x \in AzureSites
      PROVE  /\ p.before[Site(x)] \in {"unbound", "drifted"}
             /\ p.after[Site(x)] = "bound"
             /\ p.before[Approval(x)] = "absent"
             /\ p.after[Approval(x)] = "absent"
  <2>1. Left(step)[Site(x)] = "unbound" /\ Left(step)[Approval(x)] = "absent"
    BY <1>1, <1>2, TargetAzure
  <2>2. p.before[Site(x)] \in {"unbound", "drifted"}
    BY <1>1, <2>1, AddressesOf, AzureFound
  <2>3. p.before[Approval(x)] = "absent"
    BY <1>1, <2>1, AddressesOf, AzureFound
  <2> QED BY <1>1, <1>2, <2>2, <2>3, WantedAzureValues
<1>5. Changes(p) = {Site(x) : x \in AzureSites}
  <2>1. ASSUME NEW a \in Changes(p)
        PROVE  a \in {Site(x) : x \in AzureSites}
    <3>1. a \in AzureAddresses /\ p.before[a] # p.after[a]
      BY <1>1, AzureOnly DEF Changes
    <3> QED BY <1>3, <1>4, <3>1, AddressKinds
  <2>2. ASSUME NEW x \in AzureSites PROVE Site(x) \in Changes(p)
    BY <1>4, AddressesOf DEF Changes
  <2> QED BY <2>1, <2>2
<1>6. \A x \in AzureSites : Action(p, Site(x)) = "update"
  BY <1>4 DEF Action
<1>7. Changes(p) = AzureSiteUpdates(p)
  BY <1>5, <1>6 DEF AzureSiteUpdates, With
<1>8. Changes(p) # {} /\ \A a \in Changes(p) : p.after[a] = "bound"
  BY <1>4, <1>5, SitesAssumption
<1> QED BY <1>1, <1>7, <1>8, AzureFlags DEF AzureBindings

(* One approval for every Azure site.                                       *)
LEMMA AzureApprovalCount ==
  Cardinality({Approval(x) : x \in AzureSites}) = Cardinality(AzureSites)
<1> DEFINE T == {Approval(x) : x \in AzureSites}
<1> DEFINE f == [x \in AzureSites |-> Approval(x)]
<1>1. f \in Bijection(AzureSites, T)
  <2>1. f \in [AzureSites -> T]
    OBVIOUS
  <2>2. \A x, y \in AzureSites : f[x] = f[y] => x = y
    BY ObjectsApart
  <2>3. \A t \in T : \E x \in AzureSites : f[x] = t
    OBVIOUS
  <2> QED BY <2>1, <2>2, <2>3
          DEF Bijection, Injection, IsInjective, Surjection
<1>2. ExistsBijection(AzureSites, T)
  BY <1>1 DEF ExistsBijection
<1> QED BY <1>2, FS_Bijection, SitesAssumption

LEMMA AzureApproveAccepted ==
  ASSUME TypeOK, AwsKvmAsLeft, AzureAsLeft, OnlineSoFar, Building, Saved,
         overwrites = 0, step = "az_approve"
  PROVE  AzureApprovals(Planned(step))
<1> DEFINE p == Planned(step)
<1>1. /\ step \in AzurePlanSteps /\ Left(step) = Target("az_bind")
      /\ p.before = Refreshed(state, cloud)
      /\ p.after = Wanted(StepConfig(step), reg)
  BY LeftTable, PlannedParts DEF AzurePlanSteps
<1>2. /\ StepConfig(step).azure /\ StepConfig(step).azphase = "configured"
      /\ StepConfig("az_bind").azure
      /\ StepConfig("az_bind").azphase = "configured"
  BY StepConfigs
<1>3. AzureApprovalCreates(p) = {Approval(x) : x \in AzureSites}
  BY DEF Saved
<1>4. Cardinality(AzureApprovalCreates(p)) = Cardinality(AzureSites)
  BY <1>3, AzureApprovalCount
<1>5. p.before[AzureHub] = p.after[AzureHub]
  <2>1. Left(step)[AzureHub] = "present"
    BY <1>1, <1>2, TargetAzure
  <2>2. AzureHub \notin AzureSiteAddresses
    BY ObjectsApart DEF AzureSiteAddresses
  <2>3. p.before[AzureHub] = "present"
    BY <1>1, <2>1, <2>2, AddressesOf, AzureFound
  <2> QED BY <1>1, <1>2, <2>3, WantedAzureValues
<1>6. ASSUME NEW x \in AzureSites
      PROVE  p.before[Site(x)] \in {"bound", "drifted"}
             /\ p.after[Site(x)] = "bound"
  <2>1. Left(step)[Site(x)] = "bound"
    BY <1>1, <1>2, TargetAzure
  <2> QED BY <1>1, <1>2, <2>1, AddressesOf, AzureFound, WantedAzureValues
<1>7. Changes(p) \ AzureApprovalCreates(p) \subseteq AzureSiteUpdates(p)
  <2>1. ASSUME NEW a \in Changes(p) \ AzureApprovalCreates(p)
        PROVE  a \in AzureSiteUpdates(p)
    <3>1. a \in AzureAddresses /\ p.before[a] # p.after[a]
      BY <1>1, AzureOnly DEF Changes
    <3>2. PICK x \in AzureSites : a = Site(x)
      BY <1>3, <1>5, <2>1, <3>1, AddressKinds
    <3>3. Action(p, a) = "update"
      BY <1>6, <3>2 DEF Action
    <3> QED BY <2>1, <3>2, <3>3 DEF AzureSiteUpdates, With
  <2> QED BY <2>1
<1> QED BY <1>1, <1>4, <1>7, AzureFlags DEF AzureApprovals

LEMMA SettleAccepted ==
  ASSUME TypeOK, AwsKvmAsLeft, AzureAsLeft, OnlineSoFar, Building, Saved,
         overwrites = 0, step = "settle"
  PROVE  AzureConverge(Planned(step))
<1> DEFINE p == Planned(step)
<1>1. /\ step \in AzurePlanSteps /\ Left(step) = Converged
      /\ p.before = Refreshed(state, cloud)
      /\ p.after = Wanted(StepConfig("final"), reg)
  BY LeftTable, FinalConfig, PlannedParts DEF AzurePlanSteps
<1>2. Changes(p) # {}
  BY DEF Saved
<1>3. Changes(p) \subseteq AzureAddresses
  BY <1>1, AzureOnly
<1>4. \A s \in Sites : reg[s] = "ONLINE"
  BY OnlineByTable DEF OnlineSoFar
<1>5. ASSUME NEW a \in Changes(p) PROVE Action(p, a) = "update"
  <2>1. a \in AzureAddresses /\ a \in Addresses
    BY <1>3, AddressesOf
  <2>2. p.after[a] = Converged[a]
    BY <1>1, <1>4, <2>1, WantedComplete
  <2>3. Converged[a] # "absent"
    BY <2>1, ConvergedAzure
  <2>4. p.before[a] \in {Converged[a], "drifted"}
    BY <1>1, <2>1, <2>3, AzureFound
  <2>5. p.before[a] # p.after[a]
    BY <1>5 DEF Changes
  <2> QED BY <2>2, <2>3, <2>4, <2>5 DEF Action
<1>6. With(p, {"update"}) = Changes(p)
  BY <1>5 DEF With
<1> QED BY <1>1, <1>2, <1>3, <1>6, AzureFlags DEF AzureConverge

LEMMA DestroyAccepted ==
  ASSUME TypeOK, EstateInv, NEW s, state # NoEstate
  PROVE  FullDestroy(DestroyPlanFor(StepConfig(s), state, cloud, reg))
<1> DEFINE p == DestroyPlanFor(StepConfig(s), state, cloud, reg)
<1>1. p.before = Refreshed(state, cloud) /\ p.after = NoEstate
  BY OtherPlanParts
<1>2. PICK a \in Addresses : state[a] # "absent"
  BY DEF TypeOK, Estates, NoEstate
<1>3. p.before[a] # "absent"
  BY <1>1, <1>2, FreshBefore DEF EstateInv, CloudCovers, Held
<1>4. \A b \in Addresses : p.after[b] = "absent"
  BY <1>1 DEF NoEstate
<1>5. Changes(p) = Managed(p)
  BY <1>4 DEF Changes, Managed, Held
<1>6. Deleted(p) = Changes(p)
  <2>1. ASSUME NEW b \in Changes(p) PROVE Action(p, b) = "delete"
    BY <1>4, <2>1 DEF Changes, Action
  <2> QED BY <2>1 DEF Deleted, With
<1> QED BY <1>2, <1>3, <1>5, <1>6 DEF FullDestroy, Managed, Held

(* A refresh-only plan changes nothing.                                     *)
LEMMA ObserveAccepted ==
  ASSUME NEW s,
         RefreshPlanFor(StepConfig(s), state, cloud, reg, Outs).drift =
           {DriftTarget(s)},
         Outs = {}
  PROVE  RefreshOnly(RefreshPlanFor(StepConfig(s), state, cloud, reg, Outs))
<1> DEFINE p == RefreshPlanFor(StepConfig(s), state, cloud, reg, Outs)
<1>1. p.outs = {} /\ p.before = p.after
  BY OtherPlanParts
<1>2. DriftTarget(s) \in {AwsNetwork, Site(KvmSite)}
  BY DEF DriftTarget
<1> QED BY <1>1, <1>2 DEF RefreshOnly, Changes

LEMMA ScopeTable ==
  ASSUME NEW p
  PROVE  /\ \A s \in PhaseSteps :
              ScopePermits(StepScope(s, p), p) <=> AwsKvmBuild(p)
         /\ \A s \in ObserveSteps :
              ScopePermits(StepScope(s, p), p) <=> RefreshOnly(p)
         /\ ScopePermits(StepScope("lan", p), p) <=> KvmConfigured(p)
         /\ ScopePermits(StepScope("az_build", p), p) <=> AzureBuild(p)
         /\ ScopePermits(StepScope("az_bind", p), p) <=> AzureBindings(p)
         /\ ScopePermits(StepScope("az_approve", p), p) <=> AzureApprovals(p)
         /\ ScopePermits(StepScope("settle", p), p) <=> AzureConverge(p)
         /\ ScopePermits(StepScope("destroy", p), p) <=> FullDestroy(p)
<1>1. \A s \in PhaseSteps : StepScope(s, p) = "aws-kvm-build"
  BY DEF StepScope, PhaseSteps, VerifySteps, ObserveSteps
<1>2. \A s \in ObserveSteps : StepScope(s, p) = "refresh-only"
  BY DEF StepScope, PhaseSteps, VerifySteps, ObserveSteps
<1>3. /\ StepScope("lan", p) = "kvm-configured"
      /\ StepScope("az_build", p) = "azure-build"
      /\ StepScope("az_bind", p) = "azure-bindings"
      /\ StepScope("az_approve", p) = "azure-approvals"
      /\ StepScope("settle", p) = "azure-converge"
      /\ StepScope("destroy", p) = "full-destroy"
  BY DEF StepScope, PhaseSteps, VerifySteps, ObserveSteps
<1>4. /\ ScopePermits("aws-kvm-build", p) <=> AwsKvmBuild(p)
      /\ ScopePermits("refresh-only", p) <=> RefreshOnly(p)
      /\ ScopePermits("kvm-configured", p) <=> KvmConfigured(p)
      /\ ScopePermits("azure-build", p) <=> AzureBuild(p)
      /\ ScopePermits("azure-bindings", p) <=> AzureBindings(p)
      /\ ScopePermits("azure-approvals", p) <=> AzureApprovals(p)
      /\ ScopePermits("azure-converge", p) <=> AzureConverge(p)
      /\ ScopePermits("full-destroy", p) <=> FullDestroy(p)
  BY DEF ScopePermits
<1> QED BY <1>1, <1>2, <1>3, <1>4

LEMMA NextAcceptable ==
  ASSUME TypeOK, EstateInv, CyclesKnown, AwsKvmAsLeft, AzureAsLeft, OnlineSoFar,
         ApprovalPending, OutputsFollow, Acceptable, [Next]_vars
  PROVE  Acceptable'
<1> SUFFICES ASSUME Running', at' = "scope", overwrites' = 0
             PROVE  \/ ScopePermits(StepScope(step', plan'), plan')
                    \/ step' # "destroy" /\ plan'.outs # {}
                         /\ plan'.outs \subseteq real' \ shown'
                    \/ step' = "destroy" /\ state' = NoEstate
  BY DEF Acceptable
<1>1. CASE Outside /\ Running /\ at # "plan"
  <2>1. /\ UNCHANGED <<step, at, shown, state>> /\ real \subseteq real'
    BY <1>1 DEF Outside
  <2>2. plan' = plan /\ overwrites = 0
    BY <1>1 DEF Outside, TypeOK
  <2>3. \/ ScopePermits(StepScope(step, plan), plan)
        \/ step # "destroy" /\ plan.outs # {} /\ plan.outs \subseteq real \ shown
        \/ step = "destroy" /\ state = NoEstate
    BY <1>1, <2>1, <2>2 DEF Acceptable
  <2> QED BY <2>1, <2>2, <2>3
<1>2. CASE Saved
  <2>0. /\ step' = step /\ state' = state /\ real' = real /\ shown' = shown
        /\ step \in PlanSteps /\ overwrites = 0 /\ Running /\ plan' = OwnFile
    BY <1>2 DEF Saved
  <2>1. CASE step = "destroy"
    <3>1. plan' = DestroyPlanFor(StepConfig(step), state, cloud, reg)
      BY <2>0, <2>1 DEF OwnFile, ObserveSteps
    <3>2. state # NoEstate => FullDestroy(plan')
      BY <3>1, DestroyAccepted
    <3> QED BY <2>0, <2>1, <3>2, ScopeTable
  <2>2. CASE step \in PhaseSteps
    <3>1. plan' = Planned(step)
      BY <2>0, <2>2, PhaseFile, StepKindsApart
    <3>2. Building
      BY <2>0, <2>2, StepKindsApart DEF Building, CyclesKnown
    <3>3. AwsKvmBuild(Planned(step))
      BY <1>2, <2>2, <3>2, PhaseAccepted
    <3> QED BY <2>0, <2>2, <3>1, <3>3, ScopeTable
  <2>3. CASE step \notin PhaseSteps \cup {"destroy"}
    <3>1. Building /\ step # "boot_create"
      BY <2>0, <2>3, StepKindsApart DEF Building, CyclesKnown, PlanSteps,
         PhaseSteps
    <3>2. Outs = real \ shown
      BY <3>1 DEF OutputsFollow, Outs
    <3>3. CASE Outs # {}
      <4>1. plan'.outs = Outs
        BY <2>0, <2>3, PlannedParts, OtherPlanParts DEF OwnFile
      <4> QED BY <2>0, <2>3, <3>2, <3>3, <4>1
    <3>4. CASE Outs = {}
      <4>1. CASE step \in ObserveSteps
        <5>1. plan' = RefreshPlanFor(StepConfig(step), state, cloud, reg, Outs)
          BY <2>0, <2>3, <4>1 DEF OwnFile
        <5>2. RefreshOnly(plan')
          BY <1>2, <3>4, <4>1, <5>1, ObserveAccepted DEF Saved
        <5> QED BY <2>0, <4>1, <5>2, ScopeTable
      <4>2. CASE step \in VerifySteps
        <5>1. ~AwsKvmZero(Planned(step))
          BY <1>2, <4>2 DEF Saved
        <5>2. Changes(Planned(step)) = {} /\ HardwareStage(Planned(step))
          BY <3>1, <4>2, VerifyAccepted
        <5> QED BY <3>4, <5>1, <5>2, PlannedParts DEF AwsKvmZero
      <4>3. CASE step \in AzurePlanSteps \cup {"lan"}
        <5>1. plan' = Planned(step)
          BY <2>0, <4>3, PhaseFile, StepKindsApart
          DEF AzurePlanSteps, AzureSteps
        <5>2. CASE step = "lan"
          BY <2>0, <3>1, <5>1, <5>2, LanAccepted, ScopeTable
        <5>3. CASE step = "az_build"
          BY <2>0, <3>1, <5>1, <5>3, AzureBuildAccepted, ScopeTable
        <5>4. CASE step = "az_bind"
          BY <2>0, <3>1, <5>1, <5>4, AzureBindAccepted, ScopeTable
        <5>5. CASE step = "az_approve"
          BY <1>2, <2>0, <3>1, <5>1, <5>5, AzureApproveAccepted, ScopeTable
        <5>6. CASE step = "settle"
          BY <1>2, <2>0, <3>1, <5>1, <5>6, SettleAccepted, ScopeTable
        <5> QED BY <4>3, <5>2, <5>3, <5>4, <5>5, <5>6 DEF AzurePlanSteps
      <4> QED BY <2>0, <2>3, <4>1, <4>2, <4>3
              DEF PlanSteps, AzureSteps, AzurePlanSteps
    <3> QED BY <3>3, <3>4
  <2> QED BY <2>1, <2>2, <2>3
<1>3. CASE Permitted
  BY <1>3 DEF Permitted
<1> QED BY <1>1, <1>2, <1>3, ReviewClasses

------------------------------------------------------------------------------
(* Why the script stops and why it passes.                                  *)

(* Only a running script stops, and it does not go on by itself.            *)
LEMMA StopClasses ==
  ASSUME TypeOK, EstateInv, [Next]_vars, exit' \notin {"running", "apply"}
  PROVE  \/ Outside /\ exit' = exit
         \/ Stopped
         \/ Apply /\ step = "destroy" /\ exit' = "destroy" /\ state' # NoEstate
<1>1. CASE Saved \/ Permitted \/ Moved \/ Rerun
  BY <1>1 DEF Saved, Permitted, Moved, Rerun
<1>2. CASE ApplyStops \/ ApplyFails
  BY <1>2 DEF ApplyStops, ApplyFails, Die
<1>3. CASE Apply
  BY <1>3 DEF Apply, Advance, GoTo, Die, CanApply, Running
<1>4. CASE Outside
  BY <1>4 DEF Outside
<1> QED BY <1>1, <1>2, <1>3, <1>4, Classes DEF StepClass

(* The sites behind the gates of Azure are ONLINE.                          *)
LEMMA VerifiedOnline ==
  ASSUME EstateInv, HealthyMeansOnline, AzureVerified,
         \A s \in AwsKvmSites : state[Site(s)] # "absent"
  PROVE  \A s \in Sites : reg[s] = "ONLINE"
<1>1. \A s \in AzureSites : reg[s] = "ONLINE" /\ state[Site(s)] # "absent"
  BY DEF AzureVerified
<1>2. "healthy" \in done
  <2>1. PICK s : s \in AzureSites
    BY SitesAssumption
  <2>2. Site(s) \in AzureAddresses /\ state[Site(s)] # "absent"
    BY <1>1, <2>1, AddressesOf
  <2> QED BY <2>2 DEF EstateInv, AzureAfterGates, Gates
<1> QED BY <1>1, <1>2 DEF HealthyMeansOnline, Sites, AwsKvmSites

LEMMA CompleteEstate ==
  ASSUME TypeOK, EstateInv, StateFollows, StraysKnown, HealthyMeansOnline,
         AzureVerified, Changes(Planned("final")) = {}
  PROVE  /\ state = Converged /\ cloud = state
         /\ \A s \in Sites : reg[s] = "ONLINE"
<1>1. \A s \in Sites : Site(s) \in Addresses /\ Site(s) \notin Approvals
  BY AddressesOf, ApprovalsOf DEF Sites
<1>2. \A s \in AwsKvmSites : state[Site(s)] # "absent"
  BY <1>1, CompleteMeansHeld DEF AwsKvmSites, Sites
<1>3. \A s \in Sites : reg[s] = "ONLINE"
  BY <1>2, VerifiedOnline
<1>4. \A a \in Addresses :
        /\ state[a] = Converged[a]
        /\ Converged[a] # "absent" => cloud[a] = Converged[a]
  BY <1>3, ZeroMeansConverged
<1>5. ASSUME NEW a \in Addresses, Converged[a] = "absent"
      PROVE  cloud[a] = "absent"
  <2>1. a \in Approvals
    BY <1>5, ConvergedValues, ApprovalsOf DEF AwsKvmSites, Sites
  <2>2. a \notin Held(state)
    BY <1>4, <1>5 DEF Held
  <2> QED BY <2>1, <2>2 DEF StraysKnown, Held
<1>6. \A a \in Addresses : cloud[a] = Converged[a]
  BY <1>4, <1>5
<1>7. Converged \in Estates
  BY WantedType DEF Converged
<1> QED BY <1>3, <1>4, <1>6, <1>7 DEF TypeOK, Estates

LEMMA NextPassed ==
  ASSUME TypeOK, TypeOK', EstateInv, StateFollows, StraysKnown,
         HealthyMeansOnline, CyclesKnown, PassedMeansConverged, [Next]_vars
  PROVE  PassedMeansConverged'
<1> SUFFICES ASSUME exit' = "passed", mode' # "destroy"
             PROVE  /\ state' = Converged /\ cloud' = state'
                    /\ \A s \in Sites : reg'[s] = "ONLINE"
  BY DEF PassedMeansConverged
<1>1. CASE Outside /\ exit' = exit
  <2>1. /\ state = Converged /\ cloud = state
        /\ \A s \in Sites : reg[s] = "ONLINE"
    BY <1>1 DEF Outside, PassedMeansConverged
  <2>2. \A s \in Sites : reg'[s] = "ONLINE"
    BY <1>1, <2>1 DEF Outside
  <2>3. \A a \in Addresses : cloud'[a] = cloud[a]
    BY <1>1, <2>1 DEF Outside, Sites
  <2>4. cloud' = cloud
    BY <2>3 DEF TypeOK, Estates
  <2> QED BY <1>1, <2>1, <2>2, <2>4 DEF Outside
<1>2. CASE Stopped
  <2>1. UNCHANGED <<mode, state, cloud, reg>> /\ Running
    BY <1>2 DEF Stopped
  <2>2. CASE step = "final" /\ AzureVerified /\ ZeroChange(Planned(step))
    <3>1. Changes(Planned("final")) = {} /\ AzureVerified
      BY <2>2 DEF ZeroChange
    <3> QED BY <2>1, <3>1, CompleteEstate
  <2>3. CASE step = "absence" /\ cycle \notin {"initial", "first"}
    BY <2>1, <2>3 DEF CyclesKnown
  <2> QED BY <1>2, <2>2, <2>3 DEF Stopped, Reason
<1> QED BY <1>1, <1>2, StopClasses

(* The gate finds nothing to refuse in the lifecycle's own probe.           *)
LEMMA ProbeAccepted ==
  ASSUME TypeOK, AwsKvmAsLeft, AzureAsLeft, Building, step \in WaitSteps,
         NEW aws, NEW kvm
  PROVE  ~GateError(Planned(step), aws, kvm)
<1> DEFINE p == Planned(step)
<1>1. GateOnline(p, AwsKvmSites) \cap GateApprovals(p, AwsKvmSites) = {}
  <2>1. ASSUME NEW x \in AwsKvmSites, x \in p.online, Approval(x) \in Created(p)
        PROVE  FALSE
    <3>1. reg[x] = "ONLINE"
      BY <2>1, PlannedParts DEF OnlineSites
    <3>2. reg[x] = "NEW"
      BY <2>1, ApprovalMeansNew
    <3> QED BY <3>1, <3>2
  <2> QED BY <2>1 DEF GateOnline, GateApprovals, ApprovalCreates
<1>2. ASSUME ApprovalCount(p) = 0, NEW a \in Changes(p) PROVE FALSE
  <2>0. /\ p.before[a] # p.after[a] /\ a \in Addresses
        /\ p.before = Refreshed(state, cloud)
        /\ p.after = Wanted(StepConfig(step), reg)
    BY <1>2, PlannedParts DEF Changes
  <2>1. CASE a \in AwsKvmAddresses
    <3>1. step # "tgw" /\ Left(step) = Target(step) /\ Injected(step) = {}
      BY LeftTable, InjectedTable, SameTargets DEF WaitSteps
    <3>2. p.before[a] = Target(step)[a]
      BY <2>0, <2>1, <3>1, AwsKvmFound
    <3>3. PICK x \in AwsKvmSites : a = Approval(x) /\ Target(step)[a] = "absent"
      BY <2>0, <2>1, <3>2, WantedNear
    <3>4. p \in Plans
      BY PlannedType DEF TypeOK
    <3>5. Approval(x) \in Created(p)
      BY <1>2, <2>0, <3>2, <3>3, <3>4, ActionOfChange DEF Created, With
    <3>6. GateApprovals(p, AwsKvmSites) # {}
      BY <3>5 DEF GateApprovals, ApprovalCreates
    <3>7. IsFiniteSet(AwsKvmSites)
      BY SitesAssumption, FS_AddElement DEF AwsKvmSites
    <3>8. GateApprovals(p, AwsKvmSites) \in SUBSET AwsKvmSites
      BY DEF GateApprovals, ApprovalCreates
    <3>9. IsFiniteSet(GateApprovals(p, AwsKvmSites))
      BY <3>7, <3>8, FS_Subset
    <3>10. Cardinality(GateApprovals(p, AwsKvmSites)) = 0
      BY <1>2 DEF ApprovalCount, AwsKvmSites
    <3> QED BY <3>6, <3>9, <3>10, FS_EmptySet
  <2>2. CASE a \in AzureAddresses
    <3>1. step \notin AzureBegun
      BY DEF WaitSteps, AzureBegun
    <3>2. p.before[a] = "absent"
      BY <2>0, <2>2, <3>1, NoAzureLeft, AzureFound
    <3>3. ~StepConfig(step).azure
      BY StepConfigs DEF WaitSteps
    <3>4. p.after[a] = "absent"
      BY <2>0, <2>2, <3>3, WantedNoAzure
    <3> QED BY <2>0, <3>2, <3>4
  <2> QED BY <2>0, <2>1, <2>2, AddressesOf
<1>3. ApprovalCount(p) = 0 => Changes(p) = {}
  BY <1>2
<1> QED BY <1>1, <1>3 DEF GateError, AwsKvmSites

LEMMA NextGate ==
  ASSUME TypeOK, EstateInv, CyclesKnown, AwsKvmAsLeft, AzureAsLeft,
         GateNeverRefuses, [Next]_vars
  PROVE  GateNeverRefuses'
<1> SUFFICES ASSUME exit' = "gate" PROVE FALSE
  BY DEF GateNeverRefuses
<1>1. Stopped
  BY StopClasses DEF GateNeverRefuses
<1>2. Running /\ step \in WaitSteps
  BY <1>1 DEF Stopped, Reason
<1>3. Building
  BY <1>2 DEF Building, CyclesKnown, WaitSteps
<1>4. \E kvm : GateError(Planned(step), Cardinality(AwsSites), kvm)
  BY <1>1 DEF Stopped, Reason
<1> QED BY <1>2, <1>3, <1>4, ProbeAccepted

(* A destroy that goes through leaves nothing in the state.                 *)
LEMMA DestroyEmpties ==
  ASSUME TypeOK, EstateInv, Apply, step = "destroy"
  PROVE  state' = NoEstate
<1>1. CanApply /\ state' = StateAfter(plan, Changes(plan))
  BY DEF Apply, Applied
<1>2. FullDestroy(plan) /\ plan \in Plans
  BY <1>1, ReviewedChanges, CanApplyHasPlan
<1>3. ASSUME NEW a \in Addresses
      PROVE  StateAfter(plan, Changes(plan))[a] = "absent"
  <2>1. CASE a \in Changes(plan)
    <3>1. Action(plan, a) = "delete"
      BY <1>2, <2>1 DEF FullDestroy, Deleted, With
    <3>2. plan.after[a] = "absent"
      BY <3>1 DEF Action
    <3> QED BY <2>1, <3>2 DEF StateAfter
  <2>2. CASE a \notin Changes(plan)
    <3>1. plan.before[a] = "absent"
      BY <1>2, <2>2 DEF FullDestroy, Managed, Held
    <3> QED BY <2>2, <3>1 DEF StateAfter
  <2> QED BY <2>1, <2>2
<1> QED BY <1>1, <1>3 DEF StateAfter, NoEstate

LEMMA NextDestroy ==
  ASSUME TypeOK, EstateInv, CyclesKnown, PlanKept, Acceptable, StraysKnown,
         DestroyNeverRefused, [Next]_vars
  PROVE  DestroyNeverRefused'
<1> SUFFICES ASSUME mode' = "destroy", exit' \notin {"running", "apply"}
             PROVE  \/ exit' \in {"passed", "fault"}
                    \/ exit' = "scope" /\ state' = NoEstate
                    \/ exit' \in {"scope", "digest"} /\ overwrites' > 0
                    \/ exit' = "absence" /\ Orphans
  BY DEF DestroyNeverRefused
<1>1. CASE Outside /\ exit' = exit
  <2>1. /\ mode = "destroy" /\ state' = state
        /\ overwrites' \in {overwrites, overwrites + 1}
    BY <1>1 DEF Outside
  <2>2. overwrites > 0 => overwrites' > 0
    BY <2>1 DEF TypeOK
  <2> QED BY <1>1, <2>1, <2>2 DEF DestroyNeverRefused
<1>2. CASE Stopped
  <2>1. /\ Running /\ mode = "destroy" /\ state' = state /\ Reason
        /\ overwrites' = overwrites
    BY <1>2 DEF Stopped
  <2>2. step = "start" \/ (step \in {"destroy", "absence"} /\ cycle = "requested")
    BY <2>1 DEF CyclesKnown
  <2>3. CASE step = "start"
    BY <2>1, <2>3 DEF Reason
  <2>4. CASE step = "destroy" /\ cycle = "requested"
    <3>1. exit' \in {"fault", "scope", "digest"}
      BY <2>1, <2>4 DEF Reason, RequireKvm
    <3>2. CASE overwrites = 0
      <4>1. exit' # "digest"
        BY <2>1, <3>2 DEF Reason, PlanKept
      <4>2. exit' = "scope" => state = NoEstate
        <5>1. ASSUME exit' = "scope"
              PROVE  at = "scope" /\ ~ScopePermits(StepScope(step, plan), plan)
          BY <2>1, <2>4, <5>1 DEF Reason
        <5> QED BY <2>1, <2>4, <3>2, <5>1 DEF Acceptable
      <4> QED BY <2>1, <3>1, <4>1, <4>2
    <3>3. CASE overwrites # 0
      BY <2>1, <3>1, <3>3 DEF TypeOK
    <3> QED BY <3>2, <3>3
  <2>5. CASE step = "absence"
    <3>1. exit' \in {"fault", "passed", "absence"}
      BY <2>1, <2>5 DEF Reason
    <3>2. exit' = "absence" => Orphans
      <4>1. ASSUME exit' = "absence", ~Orphans PROVE FALSE
        <5>1. PICK a \in Queried : cloud[a] # "absent"
          BY <2>1, <4>1 DEF Reason
        <5>2. a \in Addresses
          BY AddressesOf DEF Queried, TypeOK
        <5>3. state = NoEstate
          BY <2>1, <2>5 DEF EstateInv, StartsEmpty
        <5>4. Held(cloud) = Held(state)
          BY <4>1 DEF StraysKnown
        <5> QED BY <5>1, <5>2, <5>3, <5>4 DEF Held, NoEstate
      <4> QED BY <4>1, LifecycleAssumption
    <3> QED BY <3>1, <3>2
  <2> QED BY <2>2, <2>3, <2>4, <2>5
<1>3. CASE Apply /\ step = "destroy" /\ state' # NoEstate
  BY <1>3, DestroyEmpties
<1> QED BY <1>1, <1>2, <1>3, StopClasses

(* The preflight refuses nothing but an approval.                           *)
LEMMA CalmPlan ==
  ASSUME TypeOK, AwsKvmAsLeft, AzureAsLeft, Building, step \in PhaseSteps,
         \A s \in AwsKvmSites : reg[s] # "NEW"
  PROVE  /\ \A a \in AwsKvmAddresses : Planned(step).after[a] = Target(step)[a]
         /\ \A a \in AwsKvmAddresses \ Injected(step) :
              step # "tgw" \/ a \notin Approvals =>
                Planned(step).before[a] = Left(step)[a]
         /\ Changes(Planned(step)) \subseteq AwsKvmAddresses \ {KvmLan}
<1> DEFINE p == Planned(step)
<1>1. p.before = Refreshed(state, cloud) /\ p.after = Wanted(StepConfig(step), reg)
  BY PlannedParts
<1>2. \A a \in AwsKvmAddresses : p.after[a] = Target(step)[a]
  BY <1>1, WantedNear
<1>3. \A a \in AwsKvmAddresses \ Injected(step) :
        step # "tgw" \/ a \notin Approvals => p.before[a] = Left(step)[a]
  BY <1>1, AwsKvmFound
<1>4. ASSUME NEW a \in AzureAddresses PROVE p.before[a] = p.after[a]
  <2>1. step \notin AzureBegun
    BY DEF PhaseSteps, AzureBegun
  <2>2. p.before[a] = "absent"
    BY <1>1, <2>1, NoAzureLeft, AzureFound
  <2>3. ~StepConfig(step).azure
    BY AzureConfigs
  <2> QED BY <1>1, <2>2, <2>3, WantedNoAzure
<1>5. p.before[KvmLan] = p.after[KvmLan]
  <2>1. /\ KvmLan \in AwsKvmAddresses /\ KvmLan \notin Approvals
        /\ KvmLan \notin Injected(step)
    BY AddressesOf, ObjectsApart, ApprovalsOf DEF Injected
  <2>2. Target(step)[KvmLan] = "absent"
    BY TargetKvm, StepConfigs DEF PhaseSteps
  <2>3. Left(step)[KvmLan] = "absent"
    <3>1. CASE step = "boot_create"
      BY <2>1, <3>1, LeftTable, NotAzureSite DEF NoEstate
    <3>2. CASE step # "boot_create"
      <4>1. \E s \in {"boot_create", "retire", "conf_create", "tgw"} :
              Left(step) = Target(s)
        BY <3>2, LeftTable DEF PhaseSteps, TgwSteps
      <4>2. \A s \in {"boot_create", "retire", "conf_create", "tgw"} :
              StepConfig(s).lan = "hardware"
        BY StepConfigs
      <4> QED BY <4>1, <4>2, TargetKvm
    <3> QED BY <3>1, <3>2
  <2> QED BY <1>2, <1>3, <2>1, <2>2, <2>3
<1>6. Changes(p) \subseteq AwsKvmAddresses \ {KvmLan}
  BY <1>4, <1>5, AddressesOf DEF Changes
<1> QED BY <1>2, <1>3, <1>6

LEMMA NoCollision ==
  ASSUME TypeOK, StraysKnown, faults = 0, NEW s
  PROVE  Colliding(Planned(s), cloud) = {}
<1> DEFINE p == Planned(s)
<1> SUFFICES ASSUME NEW a \in Created(p) PROVE cloud[a] = "absent"
  BY DEF Colliding
<1>1. p \in Plans
  BY PlannedType DEF TypeOK
<1>2. a \in Addresses /\ p.before[a] = "absent"
  BY <1>1, ActionOfChange DEF Created, With, Changes
<1>3. Refreshed(state, cloud)[a] = "absent"
  BY <1>2, PlannedParts
<1>4. state[a] # "absent" => cloud[a] = "absent"
  BY <1>2, <1>3, FreshBefore
<1>5. state[a] = "absent" => cloud[a] = "absent"
  BY <1>2 DEF StraysKnown, Held
<1> QED BY <1>4, <1>5

LEMMA SitesCreated ==
  ASSUME TypeOK, AwsKvmAsLeft, AzureAsLeft, Building,
         step \in {"boot_create", "conf_create"},
         \A s \in AwsKvmSites : reg[s] # "NEW", NEW s \in AwsSites
  PROVE  Site(s) \in Created(Planned(step))
<1> DEFINE p == Planned(step)
<1>1. /\ Site(s) \in AwsKvmAddresses /\ Site(s) \in Addresses
      /\ Site(s) \notin Approvals
  BY AddressesOf, NotAzureSite, ApprovalsOf
<1>2. step \in PhaseSteps /\ step # "tgw" /\ Injected(step) = {}
  BY InjectedTable DEF PhaseSteps
<1>3. p.before[Site(s)] = Left(step)[Site(s)]
      /\ p.after[Site(s)] = Target(step)[Site(s)]
  BY <1>1, <1>2, CalmPlan
<1>4. Left(step)[Site(s)] = "absent"
  <2>1. CASE step = "boot_create"
    BY <1>1, <2>1, LeftTable DEF NoEstate
  <2>2. CASE step = "conf_create"
    BY <2>2, LeftTable, TargetAws, StepConfigs
  <2> QED BY <2>1, <2>2
<1>5. Target(step)[Site(s)] # "absent"
  <2>1. StepConfig(step).aws \in {"bootstrap", "configured"}
    BY StepConfigs
  <2> QED BY <2>1, TargetAws
<1>6. p \in Plans /\ Site(s) \in Changes(p)
  BY <1>1, <1>3, <1>4, <1>5, PlannedType DEF TypeOK, Changes
<1> QED BY <1>3, <1>4, <1>6, ActionOfChange DEF Created, With

LEMMA SitesSteady ==
  ASSUME TypeOK, AwsKvmAsLeft, AzureAsLeft, Building,
         step \in {"tgw", "eni_repair", "kvm_repair"},
         \A s \in AwsKvmSites : reg[s] # "NEW"
  PROVE  /\ \A s \in AwsSites : Site(s) \notin Changes(Planned(step))
         /\ step = "tgw" => AwsTgw \in Changes(Planned(step))
         /\ step # "tgw" =>
              \A s \in AwsSites : Approval(s) \notin Changes(Planned(step))
<1> DEFINE p == Planned(step)
<1>1. step \in PhaseSteps
  BY DEF PhaseSteps
<1>2. Injected(step) \subseteq {AwsNetwork, Site(KvmSite)}
  BY DEF Injected
<1>3. Left(step) \in {Target("conf_create"), Target("tgw")}
      /\ (step = "tgw" => Left(step) = Target("conf_create"))
      /\ (step # "tgw" => Left(step) = Target("tgw"))
  BY LeftTable DEF TgwSteps
<1>4. /\ StepConfig("conf_create").aws = "configured"
      /\ StepConfig("tgw").aws = "configured"
      /\ StepConfig(step).aws = "configured"
  BY StepConfigs
<1>5. ASSUME NEW s \in AwsSites PROVE Site(s) \notin Changes(p)
  <2>1. Site(s) \in AwsKvmAddresses /\ Site(s) \notin Approvals
    BY AddressesOf, ApprovalsOf
  <2>2. Site(s) \notin Injected(step)
    <3>1. s # KvmSite
      BY SitesAssumption
    <3> QED BY <1>2, <3>1, ObjectsApart
  <2>3. p.before[Site(s)] = Left(step)[Site(s)]
        /\ p.after[Site(s)] = Target(step)[Site(s)]
    BY <1>1, <2>1, <2>2, CalmPlan
  <2>4. Left(step)[Site(s)] = "final" /\ Target(step)[Site(s)] = "final"
    BY <1>3, <1>4, TargetAws
  <2> QED BY <2>3, <2>4 DEF Changes
<1>6. ASSUME step = "tgw" PROVE AwsTgw \in Changes(p)
  <2>1. /\ AwsTgw \in AwsKvmAddresses /\ AwsTgw \notin Approvals
        /\ AwsTgw \in Addresses
    BY AddressesOf, ApprovalsOf, ObjectsApart
  <2>2. AwsTgw \notin Injected(step)
    BY <1>2, ObjectsApart
  <2>3. p.before[AwsTgw] = Left(step)[AwsTgw]
        /\ p.after[AwsTgw] = Target(step)[AwsTgw]
    BY <1>1, <2>1, <2>2, CalmPlan
  <2>4. ~StepConfig("conf_create").tgw
    <3>1. StepConfig("conf_create") =
            [aws |-> "configured", tgw |-> FALSE, azure |-> FALSE,
             azphase |-> "configured", approve |-> TRUE, lan |-> "hardware"]
      BY StepConfigs, Zenon
    <3> QED BY <3>1
  <2>5. StepConfig("tgw").tgw
    <3>1. StepConfig("tgw") =
            [aws |-> "configured", tgw |-> TRUE, azure |-> FALSE,
             azphase |-> "configured", approve |-> TRUE, lan |-> "hardware"]
      BY StepConfigs, Zenon
    <3> QED BY <3>1
  <2>6. Target("conf_create")[AwsTgw] = "absent"
    BY <2>4, TargetAws
  <2>7. Target("tgw")[AwsTgw] = "present"
    BY <2>5, TargetAws
  <2> QED BY <1>3, <1>6, <2>1, <2>3, <2>6, <2>7 DEF Changes
<1>7. ASSUME step # "tgw", NEW s \in AwsSites PROVE Approval(s) \notin Changes(p)
  <2>1. Approval(s) \in AwsKvmAddresses
    BY AddressesOf
  <2>2. Approval(s) \notin Injected(step)
    BY <1>2, ObjectsApart
  <2>3. p.before[Approval(s)] = Left(step)[Approval(s)]
        /\ p.after[Approval(s)] = Target(step)[Approval(s)]
    BY <1>1, <1>7, <2>1, <2>2, CalmPlan
  <2>4. Left(step)[Approval(s)] = "absent" /\ Target(step)[Approval(s)] = "absent"
    BY <1>3, TargetAws
  <2> QED BY <2>3, <2>4 DEF Changes
<1> QED BY <1>5, <1>6, <1>7

LEMMA RetirementAccepted ==
  ASSUME TypeOK, AwsKvmAsLeft, AzureAsLeft, Building, step = "retire",
         \A s \in AwsKvmSites : reg[s] # "NEW"
  PROVE  RetirementShape(Planned(step))
<1> DEFINE p == Planned(step)
<1>1. step \in PhaseSteps /\ step # "tgw" /\ Injected(step) = {}
  BY InjectedTable DEF PhaseSteps
<1>2. \A a \in AwsKvmAddresses : p.before[a] = Target("boot_create")[a]
                                 /\ p.after[a] = Target("retire")[a]
  BY <1>1, CalmPlan, LeftTable
<1>3. Changes(p) \subseteq AwsKvmAddresses /\ p \in Plans
  BY <1>1, CalmPlan, PlannedType DEF TypeOK
<1>4. /\ StepConfig("boot_create").aws = "bootstrap"
      /\ StepConfig("retire").aws = "bootstrap_retirement"
  BY StepConfigs
<1>5. \A s \in AwsSites : /\ Target("boot_create")[Site(s)] = "bootstrap"
                          /\ Target("retire")[Site(s)] = "absent"
  BY <1>4, TargetAws
<1>6. ASSUME NEW a \in Changes(p) PROVE \E s \in AwsSites : a = Site(s)
  <2>1. a \in AwsKvmAddresses /\ p.before[a] # p.after[a]
    BY <1>3 DEF Changes
  <2>2. Target("boot_create")[a] # Target("retire")[a]
    BY <1>2, <2>1
  <2>3. ~StepConfig("boot_create").tgw /\ ~StepConfig("retire").tgw
    <3>1. /\ StepConfig("boot_create") =
               [aws |-> "bootstrap", tgw |-> FALSE, azure |-> FALSE,
                azphase |-> "configured", approve |-> TRUE, lan |-> "hardware"]
          /\ StepConfig("retire") =
               [aws |-> "bootstrap_retirement", tgw |-> FALSE, azure |-> FALSE,
                azphase |-> "configured", approve |-> TRUE, lan |-> "hardware"]
      BY StepConfigs, Zenon
    <3> QED BY <3>1
  <2>4. CASE a \in AwsAddresses
    <3>1. a # AwsNetwork
      BY <2>2, TargetAws
    <3>2. a # AwsTgw
      BY <2>2, <2>3, TargetAws
    <3>3. \A s \in AwsSites : a # Approval(s)
      BY <2>2, TargetAws
    <3> QED BY <2>4, <3>1, <3>2, <3>3, AddressKinds
  <2>5. CASE a \in KvmAddresses
    <3>1. StepConfig("boot_create").lan = StepConfig("retire").lan
      BY StepConfigs
    <3>2. /\ Target("boot_create")[Site(KvmSite)] = Target("retire")[Site(KvmSite)]
          /\ Target("boot_create")[Approval(KvmSite)]
               = Target("retire")[Approval(KvmSite)]
      BY TargetKvm
    <3>3. Target("boot_create")[KvmBgp] = Target("retire")[KvmBgp]
      BY <1>4, TargetKvm
    <3>4. Target("boot_create")[KvmLan] = Target("retire")[KvmLan]
      BY <3>1, TargetKvm
    <3> QED BY <2>2, <2>5, <3>2, <3>3, <3>4, AddressKinds
  <2> QED BY <2>1, <2>4, <2>5, AddressesOf
<1>7. ASSUME NEW s \in AwsSites
      PROVE  Site(s) \in Changes(p) /\ p.after[Site(s)] = "absent"
  <2>1. Site(s) \in AwsKvmAddresses /\ Site(s) \in Addresses
    BY AddressesOf, NotAzureSite
  <2> QED BY <1>2, <1>5, <2>1 DEF Changes
<1>8. Deleted(p) = Changes(p)
  <2>1. ASSUME NEW a \in Changes(p) PROVE Action(p, a) = "delete"
    BY <1>3, <1>6, <1>7, ActionOfChange
  <2> QED BY <2>1 DEF Deleted, With
<1>9. Changes(p) \subseteq {Site(s) : s \in AwsSites} \cup Approvals
  BY <1>6
<1>10. {s \in AwsSites : Site(s) \in Changes(p)} = AwsSites
  BY <1>7
<1> QED BY <1>8, <1>9, <1>10 DEF RetirementShape

LEMMA PreflightPasses ==
  ASSUME TypeOK, AwsKvmAsLeft, AzureAsLeft, OnlineSoFar, ApprovalPending,
         StraysKnown, Building, faults = 0, at = "plan",
         step \in PhaseSteps \cup VerifySteps,
         \A s \in AwsKvmSites : reg[s] # "NEW"
  PROVE  Preflight(AwsPhase(step), Planned(step), cloud)
<1> DEFINE p == Planned(step)
<1>1. Colliding(p, cloud) = {}
  BY NoCollision
<1>2. step \notin {"boot_approve", "conf_approve"}
  BY DEF ApprovalPending, Building
<1>3. CASE step \in VerifySteps
  <2>1. Changes(p) = {}
    BY <1>3, VerifyAccepted
  <2>2. AwsPhase(step) = "configured"
    BY <1>3 DEF AwsPhase, VerifySteps
  <2>3. SiteIdentities(p)
    BY <2>1 DEF SiteIdentities, With
  <2> QED BY <1>1, <2>1, <2>2, <2>3 DEF Preflight
<1>4. CASE step \in PhaseSteps
  <2>1. Changes(p) \subseteq (AwsAddresses \cup KvmAddresses) \ {KvmLan}
    BY <1>4, CalmPlan, AddressesOf
  <2>2. CASE step \in {"boot_create", "conf_create"}
    <3>1. \A s \in AwsSites : Site(s) \in Created(p)
      BY <2>2, SitesCreated
    <3>2. BootstrapShape(p)
      BY <3>1 DEF BootstrapShape
    <3>3. {s \in AwsSites : Site(s) \in With(p, {"create", "update", "replace"})}
            = AwsSites
      BY <3>1 DEF Created, With
    <3>4. SiteIdentities(p)
      BY <3>3, SitesAssumption DEF SiteIdentities
    <3>5. AwsPhase(step) # "bootstrap_retirement"
      BY <2>2 DEF AwsPhase
    <3> QED BY <1>1, <2>1, <3>2, <3>4, <3>5 DEF Preflight
  <2>3. CASE step = "retire"
    <3>1. AwsPhase(step) = "bootstrap_retirement"
      BY <2>3 DEF AwsPhase
    <3>2. RetirementShape(p)
      BY <2>3, RetirementAccepted
    <3> QED BY <2>1, <3>1, <3>2 DEF Preflight
  <2>4. CASE step \in {"tgw", "eni_repair", "kvm_repair"}
    <3>1. AwsPhase(step) = "configured"
      BY <2>4 DEF AwsPhase
    <3>2. {s \in AwsSites : Site(s) \in With(p, {"create", "update", "replace"})}
            = {}
      BY <2>4, SitesSteady DEF With
    <3>3. \/ AwsTgw \in Changes(p)
          \/ {s \in AwsSites : Approval(s) \in Changes(p)} = {}
      BY <2>4, SitesSteady
    <3>4. SiteIdentities(p)
      BY <3>2, <3>3 DEF SiteIdentities
    <3> QED BY <1>1, <2>1, <3>1, <3>4 DEF Preflight
  <2> QED BY <1>2, <1>4, <2>2, <2>3, <2>4 DEF PhaseSteps
<1> QED BY <1>3, <1>4

LEMMA NextPreflight ==
  ASSUME TypeOK, EstateInv, CyclesKnown, AwsKvmAsLeft, AzureAsLeft, OnlineSoFar,
         ApprovalPending, StraysKnown, PreflightStopsExplained, [Next]_vars
  PROVE  PreflightStopsExplained'
<1> SUFFICES ASSUME faults' = 0, overwrites' = 0, exit' = "preflight"
             PROVE  \E s \in AwsKvmSites : reg'[s] = "NEW"
  BY DEF PreflightStopsExplained, Undisturbed, AwsKvmSites
<1>1. CASE Outside /\ exit' = exit
  <2>1. faults = 0 /\ overwrites = 0
    BY <1>1 DEF Outside, TypeOK
  <2>2. PICK s \in AwsKvmSites : reg[s] = "NEW"
    BY <1>1, <2>1 DEF PreflightStopsExplained, Undisturbed, AwsKvmSites
  <2>3. s \in Sites
    BY DEF AwsKvmSites, Sites
  <2> QED BY <1>1, <2>2, <2>3 DEF Outside
<1>2. CASE Stopped
  <2>1. /\ Running /\ reg' = reg
        /\ step \in PhaseSteps \cup VerifySteps /\ at = "plan"
        /\ ~Preflight(AwsPhase(step), Planned(step), cloud)
    BY <1>2 DEF Stopped, Reason
  <2>2. faults = 0
    BY <1>2 DEF Stopped, TypeOK
  <2>3. Building
    BY <2>1 DEF Building, CyclesKnown, PhaseSteps, VerifySteps
  <2> QED BY <2>1, <2>2, <2>3, PreflightPasses
<1> QED BY <1>1, <1>2, StopClasses

(* Why a scope stops.                                                       *)
LEMMA EmptyFinalPlan ==
  ASSUME TypeOK, StateFollows, state = Converged, cloud = state,
         \A s \in Sites : reg[s] = "ONLINE"
  PROVE  Changes(Planned("final")) = {}
<1> DEFINE p == Planned("final")
<1>1. ASSUME NEW a \in Addresses PROVE p.before[a] = p.after[a]
  <2>1. p.after[a] = Converged[a]
    BY WantedComplete, PlannedParts
  <2>2. p.before[a] = state[a]
    <3>1. p.before[a] = Refreshed(state, cloud)[a]
      BY PlannedParts
    <3> QED BY <3>1, FreshBefore
  <2> QED BY <2>1, <2>2
<1> QED BY <1>1 DEF Changes

LEMMA FinalAccepted ==
  ASSUME TypeOK, AwsKvmAsLeft, AzureAsLeft, OnlineSoFar, Building,
         overwrites = 0, step = "final"
  PROVE  Changes(Planned(step)) = {}
<1> DEFINE p == Planned(step)
<1>1. /\ Left(step) = Converged /\ OnlineBy(step) = Sites /\ Injected(step) = {}
      /\ Labels(step) = {} /\ step # "tgw"
  BY LeftTable, OnlineByTable, InjectedTable DEF Labels, Labelling
<1>2. \A s \in Sites : reg[s] = "ONLINE"
  BY <1>1 DEF OnlineSoFar
<1>3. ASSUME NEW a \in Addresses PROVE p.before[a] = p.after[a]
  <2>1. p.after[a] = Converged[a]
    BY <1>2, WantedComplete, PlannedParts
  <2>2. p.before[a] = Refreshed(state, cloud)[a]
    BY PlannedParts
  <2>3. CASE a \in AwsKvmAddresses
    BY <1>1, <2>1, <2>2, <2>3, AwsKvmFound
  <2>4. CASE a \in AzureAddresses
    <3>1. state[a] = Converged[a] /\ cloud[a] = Converged[a]
      BY <1>1, <2>4, ConvergedAzure DEF AzureAsLeft
    <3> QED BY <2>1, <2>2, <2>4, <3>1, ConvergedAzure, FreshBefore
  <2> QED BY <2>3, <2>4, AddressesOf
<1> QED BY <1>3 DEF Changes

LEMMA ConvergedSites ==
  ASSUME NEW s \in AwsKvmSites
  PROVE  Converged[Site(s)] # "absent"
<1>1. Site(s) \in Addresses
  BY AddressesOf DEF AwsKvmSites
<1>2. \A x \in AwsKvmSites : Site(s) # Approval(x)
  BY ObjectsApart
<1> QED BY <1>1, <1>2, ConvergedValues

LEMMA FullPlan ==
  ASSUME step \in {"settle", "final"}, Changes(Planned(step)) = {},
         ~ZeroChange(Planned(step))
  PROVE  Outs # {}
<1>1. StepConfig(step) = [aws |-> "configured", tgw |-> TRUE, azure |-> TRUE,
                          azphase |-> "configured", approve |-> TRUE,
                          lan |-> "configured"]
  BY StepConfigs, Zenon
<1>2. FullFlags(Planned(step)) /\ Planned(step).cfg.lan = "configured"
  BY <1>1, PlannedParts DEF FullFlags
<1> QED BY <1>2, PlannedParts DEF ZeroChange

LEMMA NextScopeStops ==
  ASSUME TypeOK, EstateInv, CyclesKnown, AwsKvmAsLeft, AzureAsLeft, OnlineSoFar,
         HealthyMeansOnline, StateFollows, OutputsFollow, Acceptable,
         ScopeStopsKept, [Next]_vars
  PROVE  ScopeStopsKept'
<1> SUFFICES ASSUME faults' = 0, overwrites' = 0, exit' = "scope", ~legacy',
                    ~(step' = "destroy" /\ state' = NoEstate)
             PROVE  \/ real' \ shown' # {}
                    \/ mode' = "verify" /\ (state' # Converged \/ cloud' # state')
  BY DEF ScopeStopsKept, Undisturbed
<1>1. CASE Outside /\ exit' = exit
  <2>1. /\ faults = 0 /\ overwrites = 0 /\ exit = "scope"
        /\ UNCHANGED <<mode, step, state, shown, legacy>> /\ real \subseteq real'
    BY <1>1 DEF Outside, TypeOK
  <2>2. \/ real \ shown # {}
        \/ mode = "verify" /\ (state # Converged \/ cloud # state)
    BY <2>1 DEF ScopeStopsKept, Undisturbed
  <2>3. CASE state = Converged /\ cloud # state
    <3>1. PICK a \in Addresses : cloud[a] # state[a]
      BY <2>3 DEF TypeOK, Estates
    <3>2. cloud'[a] = cloud[a] \/ cloud'[a] = "drifted"
      BY <1>1 DEF Outside
    <3>3. state[a] # "drifted"
      BY <2>3, ConvergedValues
    <3> QED BY <2>1, <2>2, <3>1, <3>2, <3>3
  <2> QED BY <2>1, <2>2, <2>3
<1>2. CASE Stopped
  <2>1. /\ Running /\ Reason
        /\ UNCHANGED <<mode, cycle, step, state, cloud, real, shown, legacy,
                       overwrites>>
        /\ overwrites = 0 /\ faults = 0
    BY <1>2 DEF Stopped, TypeOK
  <2>2. CASE at = "scope" /\ ~ScopePermits(StepScope(step, plan), plan)
    BY <2>1, <2>2 DEF Acceptable
  <2>3. CASE /\ step = "settle" /\ Changes(Planned(step)) = {}
             /\ ~ZeroChange(Planned(step))
    <3>1. Outs # {}
      BY <2>3, FullPlan
    <3>2. Building
      BY <2>1, <2>3 DEF Building, CyclesKnown
    <3>3. shown \subseteq real
      BY <2>3, <3>2 DEF OutputsFollow
    <3> QED BY <2>1, <3>1, <3>3 DEF Outs
  <2>4. CASE step = "final" /\ AzureVerified /\ ~ZeroChange(Planned(step))
    <3>1. CASE cycle # "verify"
      <4>1. Building
        BY <2>1, <2>4, <3>1 DEF Building
      <4>2. Outs # {}
        BY <2>1, <2>4, <4>1, FinalAccepted, FullPlan
      <4>3. shown \subseteq real
        BY <2>4, <4>1 DEF OutputsFollow
      <4> QED BY <2>1, <4>2, <4>3 DEF Outs
    <3>2. CASE cycle = "verify" /\ state = Converged /\ cloud = state
      <4>1. \A s \in AwsKvmSites : state[Site(s)] # "absent"
        BY <3>2, ConvergedSites
      <4>2. \A s \in Sites : reg[s] = "ONLINE"
        BY <2>4, <4>1, VerifiedOnline
      <4>3. Outs # {}
        BY <2>4, <3>2, <4>2, EmptyFinalPlan, FullPlan
      <4>4. shown \subseteq real
        BY <2>1, <3>2 DEF OutputsFollow
      <4> QED BY <2>1, <4>3, <4>4 DEF Outs
    <3>3. CASE cycle = "verify" /\ (state # Converged \/ cloud # state)
      BY <2>1, <3>3 DEF CyclesKnown
    <3> QED BY <3>1, <3>2, <3>3
  <2> QED BY <1>2, <2>1, <2>2, <2>3, <2>4 DEF Reason
<1> QED BY <1>1, <1>2, StopClasses

------------------------------------------------------------------------------
(* The invariant and what follows from it.                                  *)
LEMMA InitBuild == Init => BuildInv
<1> SUFFICES ASSUME Init PROVE BuildInv
  OBVIOUS
<1> USE DEF Init
<1>1. step = "start" /\ exit = "running" /\ at = "plan" /\ cycle = "none"
      /\ cloud = state /\ real = shown /\ faults = 0
  OBVIOUS
<1>2. ~Building
  BY <1>1 DEF Building
<1>3. /\ AwsKvmAsLeft /\ AzureAsLeft /\ OnlineSoFar /\ Aimed
      /\ OutputsFollow
  BY <1>1, <1>2 DEF AwsKvmAsLeft, AzureAsLeft, OnlineSoFar, Aimed, OutputsFollow
<1>4. /\ ApprovalPending /\ PlanFollows /\ NamesFree /\ PlanKept /\ Acceptable
      /\ CyclesKnown /\ FirstDestroyed /\ SecondBuildFromNothing
  BY <1>1 DEF ApprovalPending, PlanFollows, NamesFree, PlanKept, Acceptable,
              CyclesKnown, FirstDestroyed, SecondBuildFromNothing
<1>5. StateFollows /\ StraysKnown
  BY <1>1 DEF StateFollows, StraysKnown
<1>6. /\ PassedMeansConverged /\ GateNeverRefuses /\ DestroyNeverRefused
      /\ PreflightStopsExplained /\ ScopeStopsKept
  BY <1>1 DEF PassedMeansConverged, GateNeverRefuses, DestroyNeverRefused,
              PreflightStopsExplained, ScopeStopsKept
<1>7. HealthyMeansOnline /\ GatesPassed
  <2>1. AwsKvmSites \subseteq Sites
    BY DEF AwsKvmSites, Sites
  <2> QED BY <1>2, <2>1 DEF HealthyMeansOnline, GatesPassed
<1>8. EstateInv
  BY InitEstate
<1> QED BY <1>3, <1>4, <1>5, <1>6, <1>7, <1>8 DEF BuildInv

LEMMA NextBuild ==
  ASSUME TypeOK, TypeOK', EstateInv, BuildInv, [Next]_vars
  PROVE  BuildInv'
<1>1. /\ AwsKvmAsLeft /\ AzureAsLeft /\ OnlineSoFar /\ ApprovalPending
      /\ HealthyMeansOnline /\ StateFollows /\ StraysKnown /\ OutputsFollow
      /\ PlanFollows /\ Aimed /\ NamesFree /\ PlanKept /\ Acceptable
      /\ CyclesKnown /\ FirstDestroyed /\ SecondBuildFromNothing
      /\ PassedMeansConverged /\ GateNeverRefuses /\ DestroyNeverRefused
      /\ PreflightStopsExplained /\ ScopeStopsKept /\ GatesPassed
  BY DEF BuildInv
<1>2. AwsKvmAsLeft' /\ AzureAsLeft' /\ OnlineSoFar' /\ ApprovalPending'
  BY <1>1, NextAwsKvmAsLeft, NextAzureAsLeft, NextOnlineSoFar,
     NextApprovalPending
<1>3. HealthyMeansOnline' /\ StateFollows' /\ StraysKnown' /\ OutputsFollow'
  BY <1>1, NextHealthyMeansOnline, NextStateFollows, NextStraysKnown,
     NextOutputsFollow
<1>4. PlanFollows' /\ Aimed' /\ NamesFree' /\ PlanKept' /\ Acceptable'
  BY <1>1, NextPlanFollows, NextAimed, NextNamesFree, NextPlanKept,
     NextAcceptable
<1>5. CyclesKnown' /\ FirstDestroyed' /\ SecondBuildFromNothing'
  BY <1>1, NextCyclesKnown, NextFirstDestroyed, NextSecondBuild
<1>6. PassedMeansConverged' /\ GateNeverRefuses' /\ DestroyNeverRefused'
  BY <1>1, NextPassed, NextGate, NextDestroy
<1>7. PreflightStopsExplained' /\ ScopeStopsKept'
  BY <1>1, NextPreflight, NextScopeStops
<1>8. EstateInv' /\ GatesPassed'
  BY <1>1, NextEstate, NextGatesPassed
<1> QED BY <1>2, <1>3, <1>4, <1>5, <1>6, <1>7, <1>8 DEF BuildInv

(* BuildInv is inductive relative to the type invariant and the estate.     *)
THEOREM BuildInvariant == Spec => [](TypeOK /\ EstateInv /\ BuildInv)
<1>1. TypeOK /\ EstateInv /\ BuildInv /\ [Next]_vars
        => TypeOK' /\ EstateInv' /\ BuildInv'
  BY NextType, NextEstate, NextBuild
<1> QED BY <1>1, InitType, InitEstate, InitBuild, PTL DEF Spec

(* A build or a verification that passed leaves what the configuration      *)
(* wants, in the state and in the clouds, with every site ONLINE.           *)
THEOREM PassedConverged == Spec => []PassedMeansConverged
<1>1. BuildInv => PassedMeansConverged
  BY DEF BuildInv
<1> QED BY <1>1, BuildInvariant, PTL

(* The registration gate never refuses the lifecycle's own probe plan.      *)
THEOREM GateAccepts == Spec => []GateNeverRefuses
<1>1. BuildInv => GateNeverRefuses
  BY DEF BuildInv
<1> QED BY <1>1, BuildInvariant, PTL

(* A destroy is refused only for a reason: nothing to destroy, a replaced   *)
(* plan file, or an object that a failed apply left outside the state.      *)
THEOREM DestroyGoesThrough == Spec => []DestroyNeverRefused
<1>1. BuildInv => DestroyNeverRefused
  BY DEF BuildInv
<1> QED BY <1>1, BuildInvariant, PTL

(* The second build of a full run starts from proven absence.               *)
THEOREM SecondFromNothing == Spec => []SecondBuildFromNothing
<1>1. BuildInv => SecondBuildFromNothing
  BY DEF BuildInv
<1> QED BY <1>1, BuildInvariant, PTL

(* No apply of a phase plan is the first to find a name taken.              *)
THEOREM CollisionsFound == Spec => []CollisionFoundFirst
<1>1. BuildInv => CollisionFoundFirst
  <2> SUFFICES ASSUME BuildInv, CanApply, step \in PhaseSteps
               PROVE  Taken(plan) = {}
    BY DEF CollisionFoundFirst
  <2>1. NamesFree /\ Running /\ at # "plan" /\ plan = receipt
    BY DEF BuildInv, CanApply, Digest
  <2> QED BY <2>1 DEF NamesFree, Taken
<1> QED BY <1>1, BuildInvariant, PTL

(* Undisturbed, the preflight stops only while a registration is NEW.       *)
THEOREM PreflightReasons == Spec => []PreflightStopsExplained
<1>1. BuildInv => PreflightStopsExplained
  BY DEF BuildInv
<1> QED BY <1>1, BuildInvariant, PTL

(* Undisturbed, a scope stops only for an unsettled output, an estate that  *)
(* no longer decodes, a destroy of nothing or a verification that found an  *)
(* estate that is not the wanted one.                                       *)
THEOREM ScopeReasons == Spec => []ScopeStopsExplained
<1>1. BuildInv => ScopeStopsExplained
  <2>1. real \ shown # {} => Outs # {}
    BY DEF Outs
  <2> QED BY <2>1 DEF BuildInv, ScopeStopsKept, ScopeStopsExplained
<1> QED BY <1>1, BuildInvariant, PTL
=============================================================================
