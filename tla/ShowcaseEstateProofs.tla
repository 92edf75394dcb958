------------------------- MODULE ShowcaseEstateProofs -------------------------
(***************************************************************************)
(* The lifecycle implements the estate of ShowcaseEstate: its initial      *)
(* states and each of its steps are steps of that estate, or leave it as   *)
(* it is, for every number of sites, polls, invocations, faults and        *)
(* overwritten plans.                                                      *)
(***************************************************************************)
EXTENDS ShowcaseBuildProofs

estateVars == <<HeldObjects, LiveObjects, OnlineEdges, PassedGates, Phase,
                Certified, absent>>

Known == TypeOK /\ EstateInv /\ BuildInv /\ AbsenceHonest

------------------------------------------------------------------------------
(* The mapping.                                                             *)
LEMMA NothingHeld ==
  ASSUME TypeOK
  PROVE  HeldObjects = {} <=> state = NoEstate
<1>1. state = NoEstate => HeldObjects = {}
  BY DEF HeldObjects, Held, NoEstate
<1>2. ASSUME HeldObjects = {} PROVE state = NoEstate
  <2>1. \A a \in Addresses : state[a] = "absent"
    BY <1>2 DEF HeldObjects, Held
  <2>2. state = [a \in Addresses |-> state[a]]
    BY DEF TypeOK, Estates
  <2> QED BY <2>1, <2>2 DEF NoEstate
<1> QED BY <1>1, <1>2

LEMMA HeldBy ==
  ASSUME NEW a \in Addresses
  PROVE  /\ a \in HeldObjects <=> state[a] # "absent"
         /\ a \in LiveObjects <=> cloud[a] # "absent"
BY DEF HeldObjects, LiveObjects, Held

LEMMA HeldAfter ==
  ASSUME NEW a \in Addresses
  PROVE  /\ a \in HeldObjects' <=> state'[a] # "absent"
         /\ a \in LiveObjects' <=> cloud'[a] # "absent"
BY DEF HeldObjects, LiveObjects, Held

LEMMA ObjectSets ==
  /\ HeldObjects \subseteq Addresses /\ LiveObjects \subseteq Addresses
  /\ HeldObjects' \subseteq Addresses /\ LiveObjects' \subseteq Addresses
BY DEF HeldObjects, LiveObjects, Held

LEMMA EdgeOnline ==
  ASSUME NEW s \in Sites
  PROVE  /\ Site(s) \in OnlineEdges <=> reg[s] = "ONLINE"
         /\ Site(s) \in OnlineEdges' <=> reg'[s] = "ONLINE"
         /\ Site(s) \in Addresses
<1>1. \A t : Site(s) = Site(t) => s = t
  BY ObjectsApart
<1>2. Site(s) \in Addresses
  BY AddressesOf DEF Sites
<1> QED BY <1>1, <1>2 DEF OnlineEdges

(* The phases.                                                              *)
LEMMA Phases ==
  ASSUME CyclesKnown
  PROVE  /\ ~Running => Phase = "idle"
         /\ Running /\ (step = "start" \/ cycle = "verify") => Phase = "idle"
         /\ Running /\ step \in {"destroy", "absence"} => Phase = "tearing"
         /\ Building => Phase = "building"
         /\ Running /\ step \notin {"start", "destroy", "absence"}
              /\ cycle # "verify" => Building
<1>1. Running /\ step \in {"destroy", "absence"} => cycle # "verify"
  BY DEF CyclesKnown
<1> QED BY <1>1 DEF Phase, Building

LEMMA NextPhases ==
  ASSUME CyclesKnown'
  PROVE  /\ ~Running' => Phase' = "idle"
         /\ Running' /\ (step' = "start" \/ cycle' = "verify")
              => Phase' = "idle"
         /\ Running' /\ step' \in {"destroy", "absence"} => Phase' = "tearing"
         /\ Running' /\ step' \notin {"start", "destroy", "absence"}
              /\ cycle' # "verify" => Phase' = "building"
<1>1. Running' /\ step' \in {"destroy", "absence"} => cycle' # "verify"
  BY DEF CyclesKnown
<1> QED BY <1>1 DEF Phase

(* A running script holds a certificate only between its two builds.        *)
LEMMA CertifiedRunning ==
  /\ Running => Certified = (step = "forget")
  /\ ~Running => Certified = (exit = "passed" /\ mode # "destroy")
BY DEF Certified, Running

LEMMA CertifiedAfter ==
  /\ Running' => Certified' = (step' = "forget")
  /\ ~Running' => Certified' = (exit' = "passed" /\ mode' # "destroy")
BY DEF Certified, Running

(* What a build has passed.                                                 *)
LEMMA PassedBuilding ==
  ASSUME Known, Building, step = "boot_create" => at # "plan"
  PROVE  PassedGates = GatesBefore(step)
<1>1. done \cap Gates = GatesBefore(step)
  BY DEF Known, BuildInv, GatesPassed
<1>2. CASE state # NoEstate
  BY <1>1, <1>2 DEF PassedGates
<1>3. CASE state = NoEstate
  <2>1. /\ AwsNetwork \in Addresses /\ AwsNetwork \in AwsKvmAddresses
        /\ AwsNetwork \notin Approvals
    BY AddressesOf, NotAzureSite, ApprovalsOf
  <2>2. state[AwsNetwork] = "absent"
    BY <1>3, <2>1 DEF NoEstate
  <2>3. Left(step)[AwsNetwork] = "absent"
    BY <2>1, <2>2, Resting DEF Known, BuildInv
  <2>4. step = "boot_create"
    <3>1. \A s : Target(s)[AwsNetwork] = "present"
      BY TargetAws
    <3>2. Converged[AwsNetwork] = "present"
      BY <3>1, FinalConfig
    <3>3. step # "boot_create" => \/ \E s : Left(step) = Target(s)
                                  \/ Left(step) = Converged
      BY DEF Left
    <3> QED BY <2>3, <3>1, <3>2, <3>3
  <2> QED BY <1>3, <2>4, GatesTable DEF PassedGates, BeforeHealthy
<1> QED BY <1>2, <1>3

LEMMA PassedSame ==
  ASSUME state' = state, done' \cap Gates = done \cap Gates
  PROVE  PassedGates' = PassedGates
BY DEF PassedGates

LEMMA ObjectsSame ==
  /\ state' = state => HeldObjects' = HeldObjects
  /\ Held(cloud') = Held(cloud) => LiveObjects' = LiveObjects
  /\ reg' = reg => OnlineEdges' = OnlineEdges
BY DEF HeldObjects, LiveObjects, OnlineEdges

------------------------------------------------------------------------------
(* The steps that leave the objects as they are.                            *)

LEMMA EstateStarts == TypeOK /\ Init => Estate!Init
<1> SUFFICES ASSUME TypeOK, Init PROVE Estate!Init
  OBVIOUS
<1>1. exit = "running" /\ step = "start" /\ cycle = "none" /\ cloud = state
  BY DEF Init
<1>2. Phase = "idle" /\ Certified = FALSE /\ absent = FALSE
  BY <1>1 DEF Init, Phase, Certified, Running
<1>3. LiveObjects = HeldObjects
  BY <1>1 DEF HeldObjects, LiveObjects
<1>4. CASE state = NoEstate /\ reg = [s \in Sites |-> "none"]
  <2>1. HeldObjects = {} /\ PassedGates = {}
    BY <1>4, NothingHeld DEF PassedGates
  <2>2. OnlineEdges = {}
    BY <1>4 DEF OnlineEdges
  <2> QED BY <1>2, <1>3, <2>1, <2>2 DEF Estate!Init
<1>5. CASE state = Converged /\ reg = [s \in Sites |-> "ONLINE"] /\ done = Steps
  <2>1. HeldObjects = Held(Converged)
    BY <1>5 DEF HeldObjects
  <2>2. \A s \in Sites : Site(s) \in HeldObjects
    BY <1>5, ConvergedValues, EdgeOnline, HeldBy, ObjectsApart
  <2>3. OnlineEdges = HeldObjects \cap {Site(s) : s \in Sites}
    BY <1>5, <2>2 DEF OnlineEdges
  <2>4. HeldObjects # {}
    BY <2>2 DEF Sites
  <2>5. PassedGates = Gates
    <3>1. state # NoEstate
      BY <2>4, NothingHeld
    <3>2. Gates \subseteq Steps
      BY DEF Gates, Steps, VerifySteps, OtherSteps
    <3> QED BY <1>5, <3>1, <3>2 DEF PassedGates
  <2>6. Gates = Estate!Gates
    BY DEF Gates, Estate!Gates
  <2> QED BY <1>2, <1>3, <2>1, <2>3, <2>4, <2>5, <2>6 DEF Estate!Init
<1> QED BY <1>4, <1>5 DEF Init

(* Only an absence proof writes the receipt, only an apply withdraws it.    *)
LEMMA ReceiptSteps ==
  ASSUME TypeOK, EstateInv, [Next]_vars
  PROVE  \/ Apply \/ ApplyStops \/ ApplyFails
         \/ absent' = absent
         \/ /\ step = "absence" /\ Running /\ absent'
            /\ exit' \in {"running", "passed"}
<1> USE DEF script, files, private, backend, world, history, bounds
<1>1. ASSUME \/ Start \/ PhasePlan \/ ScopePlan \/ DigestChanged \/ Probe
             \/ PlanFails \/ Capture \/ VerifyPlan \/ InjectDrift
             \/ ObservePlan \/ DirectPlan \/ ApprovalPlan
      PROVE  absent' = absent
  BY <1>1 DEF Start, PhasePlan, ScopePlan, DigestChanged, Probe, PlanFails,
              Capture, VerifyPlan, InjectDrift, ObservePlan, DirectPlan,
              ApprovalPlan
<1>2. ASSUME \/ AzureOnline \/ SettlePlan \/ ClientCheck \/ FinalPlan
             \/ Forget \/ DestroyPlan \/ Interrupt \/ Overwrite \/ Rerun
             \/ Environment \/ UNCHANGED vars
      PROVE  absent' = absent
  BY <1>2 DEF AzureOnline, SettlePlan, ClientCheck, FinalPlan, Forget,
              DestroyPlan, Interrupt, Overwrite, Rerun, Environment, Register,
              Admit, Settle, vars
<1>3. ASSUME Absence
      PROVE  \/ absent' = absent
             \/ /\ step = "absence" /\ Running /\ absent'
                /\ exit' \in {"running", "passed"}
  <2>1. CASE \E a \in Queried : cloud[a] # "absent"
    BY <1>3, <2>1 DEF Absence
  <2>2. CASE ~(\E a \in Queried : cloud[a] # "absent")
    BY <1>3, <2>2 DEF Absence, GoTo, Pass, Running
  <2> QED BY <2>1, <2>2
<1> QED BY <1>1, <1>2, <1>3 DEF Next, Script, Failures

(* Behind a receipt there is no Customer Edge of AWS or KVM.                *)
LEMMA ReceiptMeansGone ==
  /\ AbsenceHonest /\ absent => LiveObjects \cap Estate!HubEdges = {}
  /\ AbsenceHonest' /\ absent' => LiveObjects' \cap Estate!HubEdges = {}
<1>1. \A e \in Estate!HubEdges : \E s \in AwsSites \cup {KvmSite} : e = Site(s)
  BY AddressesOf DEF Estate!HubEdges, Sites
<1>2. AbsenceHonest /\ absent => LiveObjects \cap Estate!HubEdges = {}
  BY <1>1 DEF AbsenceHonest, LiveObjects, Held
<1>3. AbsenceHonest' /\ absent' => LiveObjects' \cap Estate!HubEdges = {}
  BY <1>1 DEF AbsenceHonest, LiveObjects, Held
<1> QED BY <1>2, <1>3

(* A Customer Edge is admitted only where there is one.                     *)
LEMMA OutsideAdmits ==
  ASSUME Known, Outside
  PROVE  Estate!Admit
<1>1. state' = state /\ done' = done /\ absent' = absent
      /\ UNCHANGED <<mode, cycle, step, exit>>
  BY DEF Outside
<1>2. HeldObjects' = HeldObjects /\ PassedGates' = PassedGates
  BY <1>1, ObjectsSame, PassedSame
<1>3. LiveObjects' = LiveObjects
  <2>1. Held(cloud') = Held(cloud)
    BY DEF Outside, Held
  <2> QED BY <2>1, ObjectsSame
<1>4. Phase' = Phase /\ Certified' = Certified
  BY <1>1 DEF Phase, Certified, Running
<1>5. ASSUME NEW s \in Sites, reg'[s] = "ONLINE", reg[s] # "ONLINE"
      PROVE  Site(s) \in LiveObjects
  BY <1>5 DEF Outside, LiveObjects
<1>6. ASSUME NEW s \in Sites, reg[s] = "ONLINE" PROVE reg'[s] = "ONLINE"
  BY <1>6 DEF Outside
<1>7. OnlineEdges \subseteq OnlineEdges'
  BY <1>6 DEF OnlineEdges
<1>8. OnlineEdges'
        \subseteq OnlineEdges \cup (LiveObjects \cap {Site(s) : s \in Sites})
  BY <1>5 DEF OnlineEdges
<1> QED BY <1>1, <1>2, <1>3, <1>4, <1>7, <1>8 DEF Estate!Admit

(* Saving a plan, or permitting it, leaves everything as it is.             *)
LEMMA ReviewsLeave ==
  ASSUME Known, Saved \/ Permitted
  PROVE  UNCHANGED estateVars
<1>1. /\ UNCHANGED <<mode, cycle, step, state, cloud, reg, absent>>
      /\ Running /\ exit' = "running" /\ step \in PlanSteps
  BY DEF Saved, Permitted, Known, EstateInv, PlanIsCurrent
<1>2. PassedGates' = PassedGates
  <2>1. CASE done' = done
    BY <1>1, <2>1, PassedSame
  <2>2. CASE done' # done
    <3>1. step = "boot_create"
      BY <2>2 DEF Saved, Permitted
    <3>2. state = NoEstate
      BY <1>1, <3>1 DEF Known, EstateInv, StartsEmpty
    <3> QED BY <1>1, <3>2 DEF PassedGates
  <2> QED BY <2>1, <2>2
<1>3. Phase' = Phase /\ Certified' = Certified
  BY <1>1 DEF Phase, Certified, Running
<1> QED BY <1>1, <1>2, <1>3, ObjectsSame DEF estateVars

(* A rerun begins with the estate the last one left.                        *)
LEMMA RerunStops ==
  ASSUME Known, Rerun
  PROVE  Estate!Stop
<1>1. /\ UNCHANGED <<state, cloud, reg, done, absent>>
      /\ exit' = "running" /\ step' = "start"
  BY DEF Rerun, backend, world, history
<1>2. Phase' = "idle" /\ Certified' = FALSE
  BY <1>1 DEF Phase, Certified, Running
<1> QED BY <1>1, <1>2, ObjectsSame, PassedSame DEF Estate!Stop

------------------------------------------------------------------------------
(* What the step may have done to the receipt, unless it applied.           *)
Receipt ==
  \/ absent' = absent
  \/ /\ step = "absence" /\ Running /\ absent'
     /\ exit' \in {"running", "passed"}

(* A converged estate is complete, and so are its tests.                    *)
LEMMA ConvergedCertifiable ==
  ASSUME TypeOK, EstateInv, state = Converged, cloud = state,
         \A s \in Sites : reg[s] = "ONLINE"
  PROVE  Estate!Certifiable
<1>1. HeldObjects = Held(Converged) /\ LiveObjects = Held(Converged)
  BY DEF HeldObjects, LiveObjects
<1>2. {Site(s) : s \in Sites} \subseteq OnlineEdges
  BY DEF OnlineEdges
<1>3. PassedGates = Estate!Gates
  <2>1. /\ AzureHub \in AzureAddresses /\ AzureHub \in Addresses
        /\ Converged[AzureHub] # "absent"
    BY AddressesOf, ConvergedAzure
  <2>2. state # NoEstate
    BY <2>1 DEF NoEstate
  <2>3. Gates \subseteq done
    BY <2>1 DEF EstateInv, AzureAfterGates
  <2>4. Gates = Estate!Gates
    BY DEF Gates, Estate!Gates
  <2> QED BY <2>2, <2>3, <2>4 DEF PassedGates
<1> QED BY <1>1, <1>2, <1>3 DEF Estate!Certifiable

(* The script stops: with a certificate, with a receipt, or with neither.   *)
LEMMA StoppedMaps ==
  ASSUME Known, Known', [Next]_vars, Stopped, Receipt
  PROVE  Estate!Next
<1>0. /\ TypeOK /\ EstateInv /\ CyclesKnown /\ AbsenceHonest'
      /\ PassedMeansConverged'
  BY DEF Known, BuildInv
<1>1. /\ UNCHANGED <<mode, cycle, step, state, cloud, reg>>
      /\ Running /\ ~Running' /\ exit' # "running"
      /\ done' \subseteq done \cup {"final"}
  BY DEF Stopped, Running
<1>2. PassedGates' = PassedGates
  <2>1. CASE state = NoEstate
    BY <1>1, <2>1 DEF PassedGates
  <2>2. CASE state # NoEstate
    <3>1. done \subseteq done'
      BY <1>0, <1>1, <2>2, NextDone
    <3>2. "final" \notin Gates
      BY DEF Gates
    <3> QED BY <1>1, <3>1, <3>2, PassedSame
  <2> QED BY <2>1, <2>2
<1>3. /\ HeldObjects' = HeldObjects /\ LiveObjects' = LiveObjects
      /\ OnlineEdges' = OnlineEdges
  BY <1>1, ObjectsSame
<1>4. Phase' = "idle"
  BY <1>1 DEF Phase
<1>5. Certified' = (exit' = "passed" /\ mode # "destroy")
  BY <1>1, CertifiedAfter
<1>6. CASE exit' = "passed" /\ mode # "destroy"
  <2>1. step = "final"
    <3>1. step \in {"final", "absence"}
      BY <1>6 DEF Stopped, Reason
    <3>2. step = "absence" /\ cycle \notin {"initial", "first"} => FALSE
      BY <1>0, <1>1, <1>6 DEF CyclesKnown
    <3>3. step = "absence" => cycle \notin {"initial", "first"}
      BY <1>6 DEF Stopped, Reason
    <3> QED BY <3>1, <3>2, <3>3
  <2>2. absent' = absent
    BY <2>1 DEF Receipt
  <2>3. Estate!Certifiable
    <3>1. /\ state = Converged /\ cloud = state
          /\ \A s \in Sites : reg[s] = "ONLINE"
      BY <1>0, <1>1, <1>6 DEF PassedMeansConverged
    <3> QED BY <1>0, <3>1, ConvergedCertifiable
  <2>4. Phase \in {"building", "idle"}
    BY <2>1 DEF Phase
  <2>5. Certified' = TRUE
    BY <1>5, <1>6
  <2>6. Estate!Certify
    BY <1>2, <1>3, <1>4, <2>2, <2>3, <2>4, <2>5 DEF Estate!Certify
  <2> QED BY <2>6 DEF Estate!Next
<1>7. CASE ~(exit' = "passed" /\ mode # "destroy")
  <2>1. Certified' = FALSE
    BY <1>5, <1>7
  <2>2. CASE absent' = absent
    <3>1. Estate!Stop
      BY <1>2, <1>3, <1>4, <2>1, <2>2 DEF Estate!Stop
    <3> QED BY <3>1 DEF Estate!Next
  <2>3. CASE step = "absence" /\ absent'
    <3>1. Phase = "tearing"
      BY <1>0, <1>1, <2>3, Phases
    <3>2. Certified = FALSE
      BY <1>1, <2>3, CertifiedRunning
    <3>3. HeldObjects = {}
      <4>1. state = NoEstate
        BY <1>0, <1>1, <2>3 DEF EstateInv, StartsEmpty
      <4> QED BY <1>0, <4>1, NothingHeld
    <3>4. LiveObjects \cap Estate!HubEdges = {}
      BY <1>0, <1>3, <2>3, ReceiptMeansGone
    <3>5. absent' = TRUE
      BY <2>3 DEF Known, TypeOK
    <3>6. Estate!ProveAbsence
      BY <1>2, <1>3, <1>4, <2>1, <3>1, <3>2, <3>3, <3>4, <3>5
      DEF Estate!ProveAbsence
    <3> QED BY <3>6 DEF Estate!Next
  <2> QED BY <2>2, <2>3 DEF Receipt
<1> QED BY <1>6, <1>7

------------------------------------------------------------------------------
(* A test is made on the complete AWS and KVM deployment, before the LAN is *)
(* configured or, by the LAN client, after it.                              *)
LEMMA HubTargets ==
  ASSUME NEW a \in AwsKvmAddresses
  PROVE  /\ Target("tgw")[a] # "absent"
              <=> Converged[a] # "absent" /\ a # KvmLan
         /\ Target("lan")[a] # "absent" <=> Converged[a] # "absent"
<1>0. Target("lan")[a] = Converged[a]
  BY AzureLeavesRest
<1>1. CASE a \in AwsAddresses
  <2>1. ASSUME NEW s \in {"tgw", "lan"}
        PROVE  /\ Target(s)[AwsNetwork] = "present"
               /\ Target(s)[AwsTgw] = "present"
               /\ \A x \in AwsSites : /\ Target(s)[Site(x)] = "final"
                                      /\ Target(s)[Approval(x)] = "absent"
    BY StepConfigs, TargetAws
  <2>2. Target("tgw")[a] = Target("lan")[a]
    BY <1>1, <2>1, AddressKinds
  <2>3. a # KvmLan
    BY <1>1, LanesApart, AddressesOf
  <2> QED BY <1>0, <2>2, <2>3
<1>2. CASE a \in KvmAddresses
  <2>1. /\ Target("tgw")[Site(KvmSite)] = "present"
        /\ Target("tgw")[Approval(KvmSite)] = "absent"
        /\ Target("tgw")[KvmBgp] = "present"
        /\ Target("tgw")[KvmLan] = "absent"
    BY StepConfigs, TargetKvm
  <2>2. /\ Target("lan")[Site(KvmSite)] = "present"
        /\ Target("lan")[Approval(KvmSite)] = "absent"
        /\ Target("lan")[KvmBgp] = "present"
        /\ Target("lan")[KvmLan] = "present"
    BY StepConfigs, TargetKvm
  <2>3. KvmLan \notin {Site(KvmSite), Approval(KvmSite), KvmBgp}
    BY ObjectsApart
  <2> QED BY <1>0, <1>2, <2>1, <2>2, <2>3, AddressKinds
<1> QED BY <1>1, <1>2 DEF AwsKvmAddresses

LEMMA TestedObjects ==
  ASSUME Known, Building, step \in Gates
  PROVE  HeldObjects = Estate!Tested(step)
<1>1. /\ AwsKvmAsLeft /\ AzureAsLeft
      /\ step \notin AzureBegun /\ step # "tgw" /\ Labels(step) = {}
  BY DEF Known, BuildInv, Gates, AzureBegun, Labels, Labelling
<1>2. /\ step = "client" => Left(step) = Target("lan")
      /\ step # "client" => Left(step) = Target("tgw")
  BY LeftTable DEF Gates, TgwSteps
<1>3. ASSUME NEW a \in AwsKvmAddresses
      PROVE  a \in HeldObjects <=>
               Converged[a] # "absent" /\ (step # "client" => a # KvmLan)
  <2>1. a \in Addresses
    BY NotAzureSite
  <2>2. state[a] # "absent" <=> Left(step)[a] # "absent"
    BY <1>1, Resting
  <2> QED BY <1>2, <2>1, <2>2, HubTargets, HeldBy
<1>4. ASSUME NEW a \in AzureAddresses PROVE a \notin HeldObjects
  <2>1. Left(step)[a] = "absent"
    BY <1>1, NoAzureLeft
  <2>2. state[a] = "absent"
    BY <1>1, <2>1, AzureFound
  <2> QED BY <2>2, AddressesOf, HeldBy
<1>5. KvmLan \in AwsKvmAddresses /\ KvmLan \notin AzureAddresses
  BY AddressesOf, NotAzureSite
<1>6. ASSUME NEW a \in Addresses
      PROVE  a \in HeldObjects <=>
               /\ a \in Held(Converged) \ AzureAddresses
               /\ step # "client" => a # KvmLan
  <2>1. a \in Held(Converged) <=> Converged[a] # "absent"
    BY DEF Held
  <2>2. a \in AzureAddresses <=> a \notin AwsKvmAddresses
    BY NotAzureSite, AddressesOf
  <2> QED BY <1>3, <1>4, <2>1, <2>2
<1>7. Held(Converged) \subseteq Addresses
  BY DEF Held
<1> QED BY <1>6, <1>7, ObjectSets DEF Estate!Tested, Estate!Hub

LEMMA GatesMap ==
  /\ Gates = Estate!Gates
  /\ \A g \in Gates : GatesBefore(g) = Estate!Earlier(g)
BY GatesTable DEF Gates, Estate!Gates, Estate!Earlier, BeforeHealthy

(* The edges of AWS and KVM.                                                *)
LEMMA HubSites == Estate!HubEdges = {Site(s) : s \in AwsKvmSites}
<1>1. \A s \in AwsKvmSites : Site(s) \notin AzureAddresses /\ s \in Sites
  BY AddressesOf, NotAzureSite DEF AwsKvmSites, Sites
<1>2. \A s \in Sites \ AwsKvmSites : Site(s) \in AzureAddresses
  BY AddressesOf DEF AwsKvmSites, Sites
<1> QED BY <1>1, <1>2 DEF Estate!HubEdges

------------------------------------------------------------------------------
(* From one step to the next without an apply.                              *)
LEMMA MovesKeep ==
  ASSUME Known, [Next]_vars, Moved
  PROVE  /\ state' = state /\ Running /\ Running'
         /\ HeldObjects' = HeldObjects /\ LiveObjects' = LiveObjects
         /\ OnlineEdges' = OnlineEdges
         /\ step \notin Gates => PassedGates' = PassedGates
         /\ step \in Gates /\ state # NoEstate =>
              PassedGates' = PassedGates \cup {step}
<1>1. /\ state' = state /\ reg' = reg /\ Running /\ Running' /\ TypeOK
      /\ EstateInv
  BY DEF Moved, Running, Known
<1>2. Held(cloud') = Held(cloud)
  <2>1. \A a \in Addresses : state[a] # "absent" => cloud[a] # "absent"
    BY <1>1 DEF EstateInv, CloudCovers, Held
  <2> QED BY <1>1, <2>1, DriftInjected DEF Held
<1>3. done' \in {done, done \cup {step}}
      /\ (step \in Gates => done' = done \cup {step})
  BY DEF Moved, Gates
<1>4. ASSUME step \notin Gates PROVE PassedGates' = PassedGates
  <2>1. done' \cap Gates = done \cap Gates
    BY <1>3, <1>4
  <2> QED BY <1>1, <2>1, PassedSame
<1>5. ASSUME step \in Gates, state # NoEstate
      PROVE  PassedGates' = PassedGates \cup {step}
  <2>1. done' \cap Gates = (done \cap Gates) \cup {step}
    BY <1>3, <1>5
  <2> QED BY <1>1, <1>5, <2>1 DEF PassedGates
<1> QED BY <1>1, <1>2, <1>4, <1>5, ObjectsSame

(* A test that is passed.                                                   *)
LEMMA GateMaps ==
  ASSUME Known, Known', [Next]_vars, Moved, step \in Gates, absent' = absent
  PROVE  Estate!PassGate(step)
<1>0. /\ TypeOK /\ EstateInv /\ CyclesKnown /\ CyclesKnown' /\ OnlineSoFar
      /\ AwsKvmAsLeft
  BY DEF Known, BuildInv
<1>1. /\ step \in {"healthy", "eni_verify", "kvm_verify", "client"}
      /\ step \notin {"start", "destroy", "absence", "final", "forget",
                      "boot_create", "tgw"}
  BY DEF Gates
<1>2. Building
  BY <1>0, <1>1, MovesKeep DEF Building, CyclesKnown
<1>3. /\ step' \in {"eni_drift", "kvm_drift", "lan", "az_build"}
      /\ cycle' = cycle
  BY <1>1, QuietNext DEF Moved
<1>4. Phase = "building" /\ Phase' = "building"
  <2>1. cycle' # "verify"
    BY <1>2, <1>3 DEF Building
  <2> QED BY <1>0, <1>2, <1>3, <2>1, Phases, NextPhases, MovesKeep
<1>5. Certified = FALSE /\ Certified' = FALSE
  BY <1>1, <1>3, CertifiedRunning, CertifiedAfter, MovesKeep
<1>6. PassedGates = Estate!Earlier(step)
  BY <1>1, <1>2, PassedBuilding, GatesMap
<1>7. HeldObjects = Estate!Tested(step)
  BY <1>2, TestedObjects
<1>8. Estate!HubEdges \cap HeldObjects \subseteq OnlineEdges
  <2>1. OnlineBy(step) = AwsKvmSites
    BY <1>1, OnlineByTable DEF TgwSteps
  <2>2. \A s \in AwsKvmSites : s \in Sites /\ reg[s] = "ONLINE"
    BY <1>0, <1>2, <2>1 DEF OnlineSoFar, AwsKvmSites, Sites
  <2> QED BY <2>2, HubSites, EdgeOnline
<1>9. PassedGates' = PassedGates \cup {step}
  <2>1. state # NoEstate
    <3>1. /\ AwsNetwork \in Addresses /\ AwsNetwork \in AwsKvmAddresses
      BY AddressesOf, NotAzureSite
    <3>2. Left(step) \in {Target("tgw"), Target("lan")}
      BY <1>1, LeftTable DEF TgwSteps
    <3>3. Left(step)[AwsNetwork] = "present"
      BY <3>2, TargetAws
    <3>4. state[AwsNetwork] # "absent"
      BY <1>0, <1>2, <3>1, <3>3, Resting
    <3> QED BY <3>1, <3>4 DEF NoEstate
  <2> QED BY <2>1, MovesKeep
<1> QED BY <1>4, <1>5, <1>6, <1>7, <1>8, <1>9, MovesKeep DEF Estate!PassGate

LEMMA MovedMaps ==
  ASSUME Known, Known', [Next]_vars, Moved, Receipt
  PROVE  Estate!Next \/ UNCHANGED estateVars
<1>0. /\ TypeOK /\ EstateInv /\ CyclesKnown /\ CyclesKnown'
      /\ AbsenceHonest'
  BY DEF Known, BuildInv
<1>1. /\ state' = state /\ Running /\ Running'
      /\ HeldObjects' = HeldObjects /\ LiveObjects' = LiveObjects
      /\ OnlineEdges' = OnlineEdges
      /\ step \notin Gates => PassedGates' = PassedGates
  BY MovesKeep
<1>2. step # "absence" => absent' = absent
  BY DEF Receipt
<1>3. Moved => WayOn
  BY DEF Moved
<1>g. \A s \in {"start", "boot_wait", "conf_wait", "capture", "eni_drift",
                "kvm_drift", "az_online", "settle", "final", "forget",
                "absence"} : s \notin Gates
  BY DEF Gates
<1>4. CASE step = "start" /\ step' = "boot_create"
  <2>1. state = NoEstate /\ cycle' # "verify"
    BY <1>3, <1>4, QuietNext
  <2>2. HeldObjects = {}
    BY <1>0, <2>1, NothingHeld
  <2>3. Phase = "idle" /\ Phase' = "building"
    BY <1>0, <1>1, <1>4, <2>1, Phases, NextPhases
  <2>4. Certified = FALSE /\ Certified' = FALSE
    BY <1>1, <1>4, CertifiedRunning, CertifiedAfter
  <2>5. Estate!BeginBuild
    BY <1>1, <1>2, <1>4, <1>g, <2>2, <2>3, <2>4 DEF Estate!BeginBuild
  <2> QED BY <2>5 DEF Estate!Next
<1>5. CASE step = "start" /\ step' = "final"
  <2>1. cycle' = "verify"
    BY <1>3, <1>5, QuietNext
  <2>2. Phase = "idle" /\ Phase' = "idle"
    BY <1>0, <1>1, <1>5, <2>1, Phases, NextPhases
  <2>3. Certified = FALSE /\ Certified' = FALSE
    BY <1>1, <1>5, CertifiedRunning, CertifiedAfter
  <2> QED BY <1>1, <1>2, <1>5, <1>g, <2>2, <2>3 DEF estateVars
<1>6. CASE step \in {"start", "forget"} /\ step' = "destroy"
  <2>1. Phase = "idle" \/ Certified
    BY <1>0, <1>1, <1>6, Phases, CertifiedRunning
  <2>2. Phase' = "tearing" /\ Certified' = FALSE
    BY <1>0, <1>1, <1>6, NextPhases, CertifiedAfter
  <2>3. absent' = absent /\ PassedGates' = PassedGates
    BY <1>1, <1>2, <1>6, <1>g
  <2>4. Estate!BeginTeardown
    BY <1>1, <2>1, <2>2, <2>3 DEF Estate!BeginTeardown
  <2> QED BY <2>4 DEF Estate!Next
<1>7. CASE /\ step \in {"boot_wait", "conf_wait", "capture", "eni_drift",
                        "kvm_drift", "az_online", "settle"}
           /\ cycle' = cycle
  <2>1. step' \in {"boot_approve", "capture", "conf_approve", "tgw", "retire",
                   "eni_observe", "kvm_observe", "settle", "final"}
    BY <1>3, <1>7, QuietNext
  <2>2. cycle # "verify"
    BY <1>0, <1>1, <1>7 DEF CyclesKnown
  <2>3. Building
    BY <1>1, <1>7, <2>2 DEF Building
  <2>4. Phase = "building" /\ Phase' = "building"
    BY <1>0, <1>1, <1>7, <2>1, <2>2, <2>3, Phases, NextPhases
  <2>5. Certified = FALSE /\ Certified' = FALSE
    BY <1>1, <1>7, <2>1, CertifiedRunning, CertifiedAfter
  <2>6. absent' = absent /\ PassedGates' = PassedGates
    BY <1>1, <1>2, <1>7, <1>g
  <2> QED BY <1>1, <2>4, <2>5, <2>6 DEF estateVars
<1>8. CASE step \in Gates
  <2>1. absent' = absent
    BY <1>2, <1>8, <1>g
  <2>2. Estate!PassGate(step)
    BY <1>8, <2>1, GateMaps
  <2> QED BY <1>8, <2>2, GatesMap DEF Estate!Next
<1>9. CASE /\ step = "final" /\ step' = "forget" /\ cycle = "first"
           /\ cycle' = cycle /\ AzureVerified /\ ZeroChange(Planned(step))
  <2>1. Phase = "building" /\ Phase' = "building"
    <3>1. Building
      BY <1>1, <1>9 DEF Building
    <3> QED BY <1>0, <1>1, <1>9, <3>1, Phases, NextPhases
  <2>2. Certified' = TRUE
    BY <1>1, <1>9, CertifiedAfter
  <2>3. Estate!Certifiable
    <3>1. Changes(Planned("final")) = {} /\ AzureVerified
      BY <1>9 DEF ZeroChange
    <3>2. StateFollows /\ StraysKnown /\ HealthyMeansOnline
      BY DEF Known, BuildInv
    <3>3. /\ state = Converged /\ cloud = state
          /\ \A s \in Sites : reg[s] = "ONLINE"
      BY <1>0, <3>1, <3>2, CompleteEstate
    <3> QED BY <1>0, <3>3, ConvergedCertifiable
  <2>4. absent' = absent /\ PassedGates' = PassedGates
    BY <1>1, <1>2, <1>9, <1>g
  <2>5. Estate!Certify
    BY <1>1, <2>1, <2>2, <2>3, <2>4 DEF Estate!Certify
  <2> QED BY <2>5 DEF Estate!Next
<1>10. CASE /\ step = "absence" /\ step' = "boot_create" /\ absent'
            /\ cycle' \in {"first", "second"}
  <2>1. Phase = "tearing" /\ Phase' = "building"
    BY <1>0, <1>1, <1>10, Phases, NextPhases
  <2>2. Certified = FALSE /\ Certified' = FALSE
    BY <1>1, <1>10, CertifiedRunning, CertifiedAfter
  <2>3. HeldObjects = {}
    <3>1. state = NoEstate
      BY <1>0, <1>1, <1>10 DEF EstateInv, StartsEmpty
    <3> QED BY <1>0, <3>1, NothingHeld
  <2>4. LiveObjects \cap Estate!HubEdges = {}
    BY <1>0, <1>1, <1>10, ReceiptMeansGone
  <2>5. absent' = TRUE
    BY <1>10 DEF Known, TypeOK
  <2>6. PassedGates' = PassedGates
    BY <1>1, <1>10, <1>g
  <2>7. Estate!ProveAbsence
    BY <1>1, <2>1, <2>2, <2>3, <2>4, <2>5, <2>6 DEF Estate!ProveAbsence
  <2> QED BY <2>7 DEF Estate!Next
<1>11. \/ step = "start" /\ step' = "boot_create"
       \/ step = "start" /\ step' = "final"
       \/ step \in {"start", "forget"} /\ step' = "destroy"
       \/ /\ step \in {"boot_wait", "conf_wait", "capture", "eni_drift",
                        "kvm_drift", "az_online", "settle"}
          /\ cycle' = cycle
       \/ step \in Gates
       \/ /\ step = "final" /\ step' = "forget" /\ cycle = "first"
          /\ cycle' = cycle /\ AzureVerified /\ ZeroChange(Planned(step))
       \/ /\ step = "absence" /\ step' = "boot_create" /\ absent'
          /\ cycle' \in {"first", "second"}
  BY <1>3, QuietNext DEF Gates
<1> QED BY <1>4, <1>5, <1>6, <1>7, <1>8, <1>9, <1>10, <1>11

------------------------------------------------------------------------------
(* What an apply, complete or not, does to the script.                      *)
LEMMA ApplyOutcome ==
  ASSUME Known, Known', [Next]_vars, Apply \/ ApplyStops \/ ApplyFails
  PROVE  /\ CanApply /\ step \in PlanSteps
         /\ done' \cap Gates = done \cap Gates
         /\ Certified = FALSE /\ Certified' = FALSE
         /\ step = "destroy" => /\ Phase = "tearing"
                                /\ Phase' \in {"tearing", "idle"}
         /\ step # "destroy" => /\ Building /\ Phase = "building"
                                /\ Phase' \in {"building", "idle"}
<1>0. /\ TypeOK /\ EstateInv /\ CyclesKnown /\ CyclesKnown'
  BY DEF Known, BuildInv
<1>1. CanApply /\ Running
  BY ApplyParts DEF CanApply
<1>2. step \in PlanSteps /\ (step # "destroy" => Building)
  BY <1>0, <1>1, ApplyBuilds
<1>3. /\ step \notin {"start", "forget", "absence", "final", "client"}
      /\ step \in Gates => step \in LoopSteps
  BY <1>2, StepKindsApart DEF PlanSteps, Gates, LoopSteps, VerifySteps, AzureSteps
<1>4. Certified = FALSE
  BY <1>1, <1>3, CertifiedRunning
<1>5. /\ step = "destroy" => Phase = "tearing"
      /\ step # "destroy" => Phase = "building"
  BY <1>0, <1>1, <1>2, Phases
<1>6. CASE Finished
  <2>1. /\ cycle' = cycle /\ Running'
        /\ step \in LoopSteps => step' = step /\ done' = done
        /\ step \notin LoopSteps =>
              step' = NextStep(step) /\ done' = done \cup {step}
    BY <1>0, <1>6, FinishedStep DEF Finished, Running
  <2>2. step' # "forget" /\ step' # "start"
        /\ (step = "destroy" => step' = "absence")
        /\ (step # "destroy" => step' \notin {"destroy", "absence"})
    <3>1. CASE step \in LoopSteps
      BY <1>3, <2>1, <3>1 DEF LoopSteps, VerifySteps
    <3>2. CASE step \notin LoopSteps
      BY <1>2, <2>1, <3>2, AppliedNext
    <3> QED BY <3>1, <3>2
  <2>3. Certified' = FALSE
    BY <2>1, <2>2, CertifiedAfter
  <2>4. step = "destroy" => Phase' = "tearing"
    BY <1>0, <2>1, <2>2, NextPhases
  <2>5. step # "destroy" => Phase' = "building"
    <3>1. step # "destroy" => cycle' # "verify"
      BY <1>2, <2>1 DEF Building
    <3> QED BY <1>0, <2>1, <2>2, <3>1, NextPhases
  <2>6. done' \cap Gates = done \cap Gates
    <3>1. CASE step \in LoopSteps
      BY <2>1, <3>1
    <3>2. CASE step \notin LoopSteps
      BY <1>3, <2>1, <3>2
    <3> QED BY <3>1, <3>2
  <2> QED BY <1>1, <1>2, <1>4, <1>5, <2>3, <2>4, <2>5, <2>6
<1>7. CASE ~Finished
  <2>1. exit' \in {"apply", "destroy"} /\ done' = done
    <3>1. CASE Apply
      BY <1>7, <3>1, <1>1 DEF Finished, Apply, Advance, GoTo, Die, Running
    <3>2. CASE ApplyStops \/ ApplyFails
      BY <3>2 DEF ApplyStops, ApplyFails, Die
    <3> QED BY <3>1, <3>2
  <2>2. ~Running' /\ exit' # "passed"
    BY <2>1 DEF Running
  <2>3. Certified' = FALSE /\ Phase' = "idle"
    BY <1>0, <2>2, CertifiedAfter, NextPhases
  <2> QED BY <1>1, <1>2, <1>4, <1>5, <2>1, <2>3
<1> QED BY <1>6, <1>7

(* What it does to an object.                                               *)
LEMMA ApplyObject ==
  ASSUME Known, CanApply,
         NEW part \in SUBSET Changes(plan), NEW orphan \in SUBSET Created(plan),
         Applied(plan, part, orphan), NEW a \in Addresses
  PROVE  /\ a \in part =>
              (a \in HeldObjects' <=> plan.after[a] # "absent")
         /\ a \notin part => (a \in HeldObjects' <=> a \in HeldObjects)
         /\ a \in part \cup orphan =>
              (a \in LiveObjects' <=> plan.after[a] # "absent")
         /\ a \notin part \cup orphan =>
              (a \in LiveObjects' <=> a \in LiveObjects)
         /\ a \in Changes(plan) /\ a \notin HeldObjects =>
              plan.after[a] # "absent" /\ a \in Created(plan)
         /\ a \in HeldObjects => a \notin orphan /\ a \in LiveObjects
         /\ a \notin Changes(plan) => a \notin part \cup orphan
<1>0. TypeOK /\ EstateInv /\ PlanFollows
  BY DEF Known, BuildInv
<1>1. /\ a \in part =>
              state'[a] = plan.after[a] /\ cloud'[a] = plan.after[a]
      /\ a \notin part => state'[a] = plan.before[a]
      /\ a \notin part \cup orphan => cloud'[a] = cloud[a]
      /\ a \in orphan =>
              plan.before[a] = "absent" /\ cloud'[a] = plan.after[a]
      /\ plan.before[a] = "absent" <=> state[a] = "absent"
  BY <1>0, AppliedValues
<1>2. plan \in Plans
  BY <1>0, CanApplyHasPlan
<1>3. a \in Changes(plan) /\ plan.before[a] = "absent" =>
        plan.after[a] # "absent" /\ a \in Created(plan)
  BY <1>2, ActionOfChange DEF Changes, Created, With
<1>4. orphan \subseteq Changes(plan)
  BY DEF Created, With
<1>5. state[a] # "absent" => cloud[a] # "absent"
  BY <1>0 DEF EstateInv, CloudCovers, Held
<1> QED BY <1>1, <1>3, <1>4, <1>5, HeldBy, HeldAfter

(* What the state does not hold is not removed, no site comes ONLINE.       *)
LEMMA ApplyLeaves ==
  ASSUME Known, CanApply,
         NEW part \in SUBSET Changes(plan), NEW orphan \in SUBSET Created(plan),
         Applied(plan, part, orphan)
  PROVE  /\ LiveObjects \ HeldObjects \subseteq LiveObjects'
         /\ OnlineEdges' \subseteq OnlineEdges
         /\ absent' \in {absent, FALSE}
         /\ absent' => LiveObjects' \subseteq LiveObjects
<1>1. ASSUME NEW a \in LiveObjects \ HeldObjects PROVE a \in LiveObjects'
  <2>1. a \in Addresses
    BY ObjectSets
  <2>2. orphan \subseteq Changes(plan)
    BY DEF Created, With
  <2> QED BY <2>1, <2>2, ApplyObject
<1>2. OnlineEdges' \subseteq OnlineEdges
  <2>1. ASSUME NEW s \in Sites, reg'[s] = "ONLINE" PROVE reg[s] = "ONLINE"
    BY <2>1 DEF Applied, RegAfter
  <2> QED BY <2>1 DEF OnlineEdges
<1>3. absent' = (absent /\ \A a \in part \cup orphan : plan.after[a] = "absent")
  BY DEF Applied
<1>4. absent' \in {absent, FALSE}
  BY <1>3, Zenon DEF Known, TypeOK
<1>5. ASSUME absent', NEW a \in LiveObjects' PROVE a \in LiveObjects
  <2>1. a \in Addresses
    BY ObjectSets
  <2>2. a \in part \cup orphan => plan.after[a] = "absent"
    BY <1>3, <1>5
  <2> QED BY <1>5, <2>1, <2>2, ApplyObject
<1> QED BY <1>1, <1>2, <1>4, <1>5

(* An apply of a build stays within the lane of its changes.                *)
LEMMA LaneChanges ==
  ASSUME Known, Known', [Next]_vars, Apply \/ ApplyStops \/ ApplyFails,
         NEW part \in SUBSET Changes(plan), NEW orphan \in SUBSET Created(plan),
         Applied(plan, part, orphan), step # "destroy",
         NEW lane, Changes(plan) \subseteq lane, PassedGates' = PassedGates
  PROVE  Estate!Change(lane)
<1>1. CanApply
  BY ApplyOutcome
<1>2. HeldObjects' \ lane = HeldObjects \ lane
  <2>1. ASSUME NEW a \in Addresses, a \notin lane
        PROVE  a \in HeldObjects' <=> a \in HeldObjects
    BY <1>1, <2>1, ApplyObject
  <2> QED BY <2>1, ObjectSets
<1>3. LiveObjects' \ lane = LiveObjects \ lane
  <2>1. ASSUME NEW a \in Addresses, a \notin lane
        PROVE  a \in LiveObjects' <=> a \in LiveObjects
    BY <1>1, <2>1, ApplyObject
  <2> QED BY <2>1, ObjectSets
<1>4. OnlineEdges \ lane \subseteq OnlineEdges'
  <2>1. ASSUME NEW s \in Sites, reg[s] = "ONLINE", Site(s) \notin lane
        PROVE  reg'[s] = "ONLINE"
    BY <2>1, OnlineKept
  <2> QED BY <2>1 DEF OnlineEdges
<1>5. /\ LiveObjects \ HeldObjects \subseteq LiveObjects'
      /\ OnlineEdges' \subseteq OnlineEdges
      /\ absent' \in {absent, FALSE}
      /\ absent' => LiveObjects' \subseteq LiveObjects
  BY <1>1, ApplyLeaves
<1>6. /\ Phase = "building" /\ Certified = FALSE /\ Certified' = FALSE
      /\ Phase' \in {"building", "idle"}
  BY ApplyOutcome
<1> QED BY <1>2, <1>3, <1>4, <1>5, <1>6 DEF Estate!Change

(* The network of AWS keeps the tests of an estate.                         *)
LEMMA NetworkKeeps ==
  ASSUME state[AwsNetwork] # "absent", state'[AwsNetwork] # "absent",
         done' \cap Gates = done \cap Gates
  PROVE  PassedGates' = PassedGates
<1>1. AwsNetwork \in Addresses
  BY AddressesOf
<1>2. state # NoEstate /\ state' # NoEstate
  BY <1>1 DEF NoEstate
<1> QED BY <1>2 DEF PassedGates

LEMMA NetworkHeld ==
  ASSUME AwsKvmAsLeft, Building, step # "boot_create"
  PROVE  state[AwsNetwork] # "absent"
<1>1. /\ AwsNetwork \in Addresses /\ AwsNetwork \in AwsKvmAddresses
  BY AddressesOf, NotAzureSite
<1>2. \A s : Target(s)[AwsNetwork] = "present"
  BY TargetAws
<1>3. Converged[AwsNetwork] = "present"
  BY <1>2, FinalConfig
<1>4. (\E s : Left(step) = Target(s)) \/ Left(step) = Converged
  BY DEF Left
<1> QED BY <1>1, <1>2, <1>3, <1>4, Resting

(* A plan that neither creates nor deletes leaves the estate alone.         *)
LEMMA KeepingMaps ==
  ASSUME Known, Known', [Next]_vars, Apply \/ ApplyStops \/ ApplyFails,
         NEW part \in SUBSET Changes(plan), NEW orphan \in SUBSET Created(plan),
         Applied(plan, part, orphan), step \notin {"destroy", "boot_create"},
         \A a \in Changes(plan) :
           a \in HeldObjects /\ plan.after[a] # "absent",
         \A s \in Sites :
           Site(s) \notin Changes(plan) \/ Action(plan, Site(s)) = "update",
         ~absent \/ Changes(plan) = {}
  PROVE  Estate!Next \/ UNCHANGED estateVars
<1>0. CanApply /\ Building /\ AwsKvmAsLeft
  BY ApplyOutcome DEF Known, BuildInv
<1>1. HeldObjects' = HeldObjects /\ LiveObjects' = LiveObjects
  <2>0. orphan \subseteq Changes(plan)
    BY DEF Created, With
  <2>1. ASSUME NEW a \in Addresses
        PROVE  /\ a \in HeldObjects' <=> a \in HeldObjects
               /\ a \in LiveObjects' <=> a \in LiveObjects
    BY <1>0, <2>0, ApplyObject
  <2> QED BY <2>1, ObjectSets
<1>2. OnlineEdges' = OnlineEdges
  <2>1. ASSUME NEW s \in Sites, reg[s] = "ONLINE" PROVE reg'[s] = "ONLINE"
    BY <2>1, OnlineKept
  <2>2. OnlineEdges \subseteq OnlineEdges'
    BY <2>1 DEF OnlineEdges
  <2> QED BY <1>0, <2>2, ApplyLeaves
<1>3. absent' = absent
  <2>1. absent' = (absent /\ \A a \in part \cup orphan : plan.after[a] = "absent")
    BY DEF Applied
  <2>2. CASE ~absent
    BY <2>1, <2>2, Zenon DEF Known, TypeOK
  <2>3. CASE Changes(plan) = {}
    <3>1. part \cup orphan = {}
      BY <2>3 DEF Created, With
    <3> QED BY <2>1, <3>1, Zenon DEF Known, TypeOK
  <2> QED BY <2>2, <2>3
<1>4. PassedGates' = PassedGates
  <2>1. AwsNetwork \in Addresses
    BY AddressesOf
  <2>2. state[AwsNetwork] # "absent"
    BY <1>0, NetworkHeld
  <2>3. state'[AwsNetwork] # "absent"
    BY <1>1, <2>1, <2>2, HeldBy, HeldAfter
  <2> QED BY <2>2, <2>3, NetworkKeeps, ApplyOutcome
<1>5. /\ Phase = "building" /\ Certified = FALSE /\ Certified' = FALSE
      /\ Phase' \in {"building", "idle"}
  BY ApplyOutcome
<1>6. CASE Phase' = "building"
  BY <1>1, <1>2, <1>3, <1>4, <1>5, <1>6 DEF estateVars
<1>7. CASE Phase' = "idle"
  <2>1. Estate!Stop
    BY <1>1, <1>2, <1>3, <1>4, <1>5, <1>7 DEF Estate!Stop
  <2> QED BY <2>1 DEF Estate!Next
<1> QED BY <1>5, <1>6, <1>7

------------------------------------------------------------------------------
HubSteps == PhaseSteps \cap BeforeHealthy
RepairSteps == PhaseSteps \ BeforeHealthy

(* Untested, the phases put the AWS and KVM deployment together.            *)
LEMMA HubMaps ==
  ASSUME Known, Known', [Next]_vars, Apply \/ ApplyStops \/ ApplyFails,
         NEW part \in SUBSET Changes(plan), NEW orphan \in SUBSET Created(plan),
         Applied(plan, part, orphan), step \in HubSteps
  PROVE  Estate!Assemble
<1>0. /\ TypeOK /\ EstateInv /\ Aimed /\ AwsKvmAsLeft /\ NamesFree
      /\ StraysKnown /\ GatesPassed /\ PlanFollows
  BY DEF Known, BuildInv
<1>1. /\ step \in PhaseSteps /\ step \notin AzureSteps
      /\ step \in {"boot_create", "boot_approve", "retire", "conf_create",
                   "conf_approve", "tgw"}
      /\ step # "destroy"
  BY DEF HubSteps, PhaseSteps, BeforeHealthy, AzureSteps
<1>2. CanApply /\ Building
  BY <1>1, ApplyOutcome
<1>3. Changes(plan) \subseteq Estate!Hub
  <2>1. Changes(plan) \subseteq AwsKvmAddresses
    BY <1>0, <1>1, <1>2, ReviewedChanges
  <2>2. KvmLan \notin Changes(plan)
    <3>0. /\ KvmLan \in AwsKvmAddresses /\ KvmLan \in Addresses
          /\ \A s \in AwsKvmSites : KvmLan # Approval(s)
          /\ KvmLan \notin Approvals
      BY AddressesOf, NotAzureSite, ObjectsApart, ApprovalsOf
    <3>1. /\ \A s \in {"boot_create", "retire", "conf_create"} :
               Target(s)[KvmLan] = "absent"
          /\ Target(step)[KvmLan] = "absent"
      <4>1. /\ \A s \in {"boot_create", "retire", "conf_create"} :
                 StepConfig(s).lan = "hardware"
            /\ StepConfig(step).lan = "hardware"
        BY <1>1, StepConfigs
      <4> QED BY <4>1, TargetKvm
    <3>2. plan.after[KvmLan] = "absent"
      BY <1>0, <1>1, <1>2, <3>0, <3>1, AppliedAims
    <3>3. Left(step)[KvmLan] = "absent"
      BY <1>1, <3>0, <3>1, LeftTable DEF NoEstate
    <3>4. state[KvmLan] = "absent"
      BY <1>0, <1>2, <3>0, <3>3, Resting
    <3>5. plan.before[KvmLan] = "absent"
      BY <1>0, <1>2, <3>0, <3>4, PlanBefore
    <3> QED BY <3>2, <3>5 DEF Changes
  <2> QED BY <2>1, <2>2, NotAzureSite DEF Estate!Hub
<1>4. HeldObjects' \cap (LiveObjects \ HeldObjects) = {}
  <2>1. ASSUME NEW a \in Addresses, a \in HeldObjects', a \in LiveObjects,
               a \notin HeldObjects
        PROVE  FALSE
    <3>1. a \in part
      BY <1>2, <2>1, ApplyObject
    <3>2. a \in Created(plan)
      BY <1>2, <2>1, <3>1, ApplyObject
    <3>3. plan = receipt /\ Colliding(receipt, cloud) = {}
      BY <1>0, <1>1, <1>2 DEF CanApply, Digest, NamesFree
    <3>4. cloud[a] # "absent" /\ a \in Held(cloud) /\ a \notin Held(state)
      BY <2>1, HeldBy DEF HeldObjects, LiveObjects
    <3>5. a \notin Approvals
      BY <1>0, <3>4 DEF StraysKnown
    <3> QED BY <3>2, <3>3, <3>4, <3>5 DEF Colliding
  <2> QED BY <2>1, ObjectSets
<1>5. done \cap Gates = {}
  <2>1. GatesBefore(step) = {}
    BY <1>1, GatesTable DEF BeforeHealthy
  <2>2. at # "plan"
    BY <1>2 DEF CanApply
  <2> QED BY <1>0, <1>2, <2>1, <2>2 DEF GatesPassed
<1>6. PassedGates = {} /\ PassedGates' = PassedGates
  BY <1>5, ApplyOutcome DEF PassedGates
<1>7. Estate!Change(Estate!Hub)
  BY <1>1, <1>3, <1>6, LaneChanges
<1> QED BY <1>4, <1>6, <1>7 DEF Estate!Assemble

(* The repairs, like the verifications and the observations, update.        *)
LEMMA RepairMaps ==
  ASSUME Known, Known', [Next]_vars, Apply \/ ApplyStops \/ ApplyFails,
         NEW part \in SUBSET Changes(plan), NEW orphan \in SUBSET Created(plan),
         Applied(plan, part, orphan), step \in RepairSteps
  PROVE  Estate!Next \/ UNCHANGED estateVars
<1>0. /\ TypeOK /\ EstateInv /\ Aimed /\ AwsKvmAsLeft /\ OnlineSoFar
      /\ PlanFollows /\ AbsenceHonest
  BY DEF Known, BuildInv
<1>1. /\ step \in {"eni_repair", "kvm_repair"}
      /\ step \in PhaseSteps /\ step \notin AzureSteps
      /\ step \notin {"destroy", "boot_create", "tgw"}
  BY DEF RepairSteps, PhaseSteps, BeforeHealthy, AzureSteps
<1>2. CanApply /\ Building
  BY <1>1, ApplyOutcome
<1>3. Changes(plan) \subseteq AwsKvmAddresses
  BY <1>0, <1>1, <1>2, ReviewedChanges
<1>4. Left(step) = Target("tgw") /\ Target(step) = Target("tgw")
  BY <1>1, LeftTable, SameTargets DEF TgwSteps
<1>5. \A s \in AwsKvmSites : reg[s] = "ONLINE"
  <2>1. OnlineBy(step) = AwsKvmSites
    BY <1>1, OnlineByTable DEF TgwSteps
  <2> QED BY <1>0, <1>2, <2>1 DEF OnlineSoFar
<1>6. ASSUME NEW a \in Changes(plan)
      PROVE  a \in HeldObjects /\ plan.after[a] # "absent"
  <2>1. a \in AwsKvmAddresses /\ a \in Addresses
    BY <1>3, NotAzureSite
  <2>2. plan.after[a] = Left(step)[a]
    BY <1>0, <1>1, <1>2, <1>4, <1>5, <2>1, AppliedAims
  <2>3. state[a] # "absent" <=> Left(step)[a] # "absent"
    BY <1>0, <1>1, <1>2, <2>1, Resting
  <2>4. plan.before[a] = "absent" <=> state[a] = "absent"
    BY <1>0, <1>2, <2>1, PlanBefore
  <2>5. plan.before[a] # plan.after[a]
    BY DEF Changes
  <2> QED BY <2>1, <2>2, <2>3, <2>4, <2>5, HeldBy
<1>7. ASSUME NEW s \in Sites
      PROVE  Site(s) \notin Changes(plan) \/ Action(plan, Site(s)) = "update"
  <2>1. CASE s \in AwsKvmSites
    <3>1. Left(step)[Site(s)] # "absent"
      <4>1. CASE s \in AwsSites
        <5>1. Target("tgw")[Site(s)] = "final"
          BY <4>1, StepConfigs, TargetAws
        <5> QED BY <1>4, <5>1
      <4>2. CASE s = KvmSite
        BY <1>4, <4>2, TargetKvm
      <4> QED BY <2>1, <4>1, <4>2 DEF AwsKvmSites
    <3> QED BY <1>0, <1>1, <1>2, <1>4, <2>1, <3>1, SiteKept
  <2>2. CASE s \notin AwsKvmSites
    <3>1. Site(s) \in AzureAddresses
      BY <2>2, AddressesOf DEF Sites, AwsKvmSites
    <3> QED BY <1>3, <3>1, NotAzureSite
  <2> QED BY <2>1, <2>2
<1>8. ~absent
  <2>1. Site(KvmSite) \in AwsKvmAddresses /\ Target("tgw")[Site(KvmSite)] # "absent"
    BY AddressesOf, TargetKvm
  <2>2. cloud[Site(KvmSite)] # "absent"
    BY <1>0, <1>2, <1>4, <2>1, Resting
  <2> QED BY <1>0, <2>2 DEF AbsenceHonest
<1> QED BY <1>1, <1>6, <1>7, <1>8, KeepingMaps

LEMMA LookingMaps ==
  ASSUME Known, Known', [Next]_vars, Apply \/ ApplyStops \/ ApplyFails,
         NEW part \in SUBSET Changes(plan), NEW orphan \in SUBSET Created(plan),
         Applied(plan, part, orphan), step \in VerifySteps \cup ObserveSteps
  PROVE  Estate!Next \/ UNCHANGED estateVars
<1>1. Changes(plan) = {}
  BY ApplyOutcome, ReviewedChanges DEF Known
<1>2. step \notin {"destroy", "boot_create"}
  BY StepKindsApart DEF PhaseSteps
<1> QED BY <1>1, <1>2, KeepingMaps

(* The LAN, then Azure, are added to what was tested.                       *)
LEMMA LanMaps ==
  ASSUME Known, Known', [Next]_vars, Apply \/ ApplyStops \/ ApplyFails,
         NEW part \in SUBSET Changes(plan), NEW orphan \in SUBSET Created(plan),
         Applied(plan, part, orphan), step = "lan"
  PROVE  Estate!Extend
<1>0. /\ TypeOK /\ EstateInv /\ Aimed /\ AwsKvmAsLeft /\ OnlineSoFar
      /\ PlanFollows /\ GatesPassed
  BY DEF Known, BuildInv
<1>1. step \notin AzureSteps /\ step \notin {"destroy", "boot_create", "tgw"}
  BY DEF AzureSteps
<1>2. CanApply /\ Building
  BY <1>1, ApplyOutcome
<1>3. Left(step) = Target("tgw") /\ Injected(step) = {}
  BY LeftTable, InjectedTable DEF TgwSteps
<1>4. \A s \in AwsKvmSites : reg[s] = "ONLINE"
  <2>1. OnlineBy(step) = AwsKvmSites
    BY OnlineByTable DEF TgwSteps
  <2> QED BY <1>0, <1>2, <2>1 DEF OnlineSoFar
<1>5. Changes(plan) \subseteq {KvmLan}
  <2>1. ASSUME NEW a \in Changes(plan), a # KvmLan PROVE FALSE
    <3>1. a \in KvmAddresses /\ a \in AwsKvmAddresses /\ a \in Addresses
      BY <1>0, <1>2, ReviewedChanges, AddressesOf
    <3>2. plan.after[a] = Target("lan")[a]
      BY <1>0, <1>1, <1>2, <1>4, <3>1, AppliedAims
    <3>3. Target("tgw")[a] = Target("lan")[a]
      <4>1. \A s \in {"tgw", "lan"} :
              /\ Target(s)[Site(KvmSite)] = "present"
              /\ Target(s)[Approval(KvmSite)] = "absent"
              /\ Target(s)[KvmBgp] = "present"
        BY StepConfigs, TargetKvm
      <4> QED BY <2>1, <3>1, <4>1, AddressKinds
    <3>4. /\ plan.before[a] = "absent" <=> state[a] = "absent"
          /\ state[a] # "absent" => cloud[a] = plan.before[a]
      BY <1>0, <1>2, <3>1, PlanBefore, NotAzureSite
    <3>5. /\ Left(step)[a] # "absent" =>
               state[a] # "absent" /\ cloud[a] = Left(step)[a]
          /\ Left(step)[a] = "absent" => state[a] = "absent"
      BY <1>0, <1>1, <1>2, <1>3, <3>1, Resting DEF Live
    <3>6. plan.before[a] = plan.after[a]
      BY <1>3, <3>2, <3>3, <3>4, <3>5
    <3> QED BY <3>6 DEF Changes
  <2> QED BY <2>1
<1>6. HeldObjects \subseteq HeldObjects'
  <2>1. KvmLan \notin HeldObjects
    <3>1. KvmLan \in AwsKvmAddresses /\ KvmLan \in Addresses
      BY AddressesOf
    <3>2. Target("tgw")[KvmLan] = "absent"
      BY StepConfigs, TargetKvm
    <3>3. state[KvmLan] = "absent"
      BY <1>0, <1>1, <1>2, <1>3, <3>1, <3>2, Resting
    <3> QED BY <3>1, <3>3, HeldBy
  <2>2. ASSUME NEW a \in HeldObjects PROVE a \in HeldObjects'
    <3>1. a \in Addresses /\ a \notin part
      BY <1>5, <2>1, ObjectSets
    <3> QED BY <1>2, <3>1, ApplyObject
  <2> QED BY <2>2
<1>7. PassedGates = Estate!Earlier("client")
  <2>1. GatesBefore("lan") = GatesBefore("client") /\ "client" \in Gates
    BY GatesTable DEF Gates
  <2> QED BY <1>2, <2>1, PassedBuilding, GatesMap
<1>8. PassedGates' = PassedGates
  <2>0. AwsNetwork \in Addresses
    BY AddressesOf
  <2>1. state[AwsNetwork] # "absent"
    BY <1>0, <1>1, <1>2, NetworkHeld
  <2>2. state'[AwsNetwork] # "absent"
    BY <1>6, <2>0, <2>1, HeldBy, HeldAfter
  <2> QED BY <2>1, <2>2, NetworkKeeps, ApplyOutcome
<1>9. Estate!Change({KvmLan})
  BY <1>1, <1>5, <1>8, LaneChanges
<1> QED BY <1>6, <1>7, <1>9 DEF Estate!Extend

LEMMA AzureMaps ==
  ASSUME Known, Known', [Next]_vars, Apply \/ ApplyStops \/ ApplyFails,
         NEW part \in SUBSET Changes(plan), NEW orphan \in SUBSET Created(plan),
         Applied(plan, part, orphan), step \in AzureSteps
  PROVE  Estate!Join
<1>0. /\ TypeOK /\ EstateInv /\ AwsKvmAsLeft /\ GatesPassed
  BY DEF Known, BuildInv
<1>1. step \notin {"destroy", "boot_create"} /\ step \notin PhaseSteps
  BY StepKindsApart DEF PhaseSteps, AzureSteps
<1>2. CanApply /\ Building
  BY <1>1, ApplyOutcome
<1>3. Changes(plan) \subseteq AzureAddresses
  BY <1>0, <1>2, ReviewedChanges
<1>4. \A a \in Changes(plan) : plan.after[a] # "absent"
  <2>1. ASSUME NEW a \in Changes(plan), plan.after[a] = "absent" PROVE FALSE
    <3>1. a \in MayDelete(step)
      BY <1>0, <1>2, <2>1, PlanInLane
    <3> QED BY <1>1, <3>1 DEF MayDelete, AzureSteps
  <2> QED BY <2>1
<1>5. HeldObjects \subseteq HeldObjects'
  <2>1. ASSUME NEW a \in HeldObjects PROVE a \in HeldObjects'
    <3>1. a \in Addresses
      BY ObjectSets
    <3> QED BY <1>2, <1>4, <3>1, ApplyObject
  <2> QED BY <2>1
<1>6. PassedGates = Estate!Gates
  <2>1. GatesBefore(step) = Gates
    <3>1. CASE step = "az_online" \/ step = "settle" \/ step = "az_build"
               \/ step = "az_bind" \/ step = "az_approve"
      BY <3>1, GatesTable
    <3> QED BY <3>1 DEF AzureSteps
  <2> QED BY <1>1, <1>2, <2>1, PassedBuilding, GatesMap
<1>7. PassedGates' = PassedGates
  <2>0. AwsNetwork \in Addresses
    BY AddressesOf
  <2>1. state[AwsNetwork] # "absent"
    BY <1>0, <1>1, <1>2, NetworkHeld
  <2>2. state'[AwsNetwork] # "absent"
    BY <1>5, <2>0, <2>1, HeldBy, HeldAfter
  <2> QED BY <2>1, <2>2, NetworkKeeps, ApplyOutcome
<1>8. Estate!Change(AzureAddresses)
  BY <1>1, <1>3, <1>7, LaneChanges
<1> QED BY <1>5, <1>6, <1>8 DEF Estate!Join

------------------------------------------------------------------------------
(* A destroy takes away what its plan names.                                *)
LEMMA DestroyMaps ==
  ASSUME Known, Known', [Next]_vars, Apply \/ ApplyStops \/ ApplyFails,
         NEW part \in SUBSET Changes(plan), NEW orphan \in SUBSET Created(plan),
         Applied(plan, part, orphan), step = "destroy"
  PROVE  Estate!Teardown
<1>0. TypeOK /\ EstateInv /\ TypeOK'
  BY DEF Known
<1>1. CanApply
  BY ApplyOutcome
<1>2. plan \in Plans /\ FullDestroy(plan)
  BY <1>0, <1>1, CanApplyHasPlan, ReviewedChanges
<1>3. \A a \in Changes(plan) :
        /\ Action(plan, a) = "delete" /\ plan.after[a] = "absent"
        /\ a \notin Created(plan)
  <2>1. ASSUME NEW a \in Changes(plan)
        PROVE  /\ Action(plan, a) = "delete" /\ plan.after[a] = "absent"
               /\ a \notin Created(plan)
    <3>1. Action(plan, a) = "delete"
      BY <1>2 DEF FullDestroy, Deleted, With
    <3>2. plan.after[a] = "absent"
      BY <1>2, <3>1, ActionOfChange
    <3>3. a \notin Created(plan)
      BY <3>1 DEF Created, With
    <3> QED BY <3>1, <3>2, <3>3
  <2> QED BY <2>1
<1>4. orphan = {}
  BY <1>3 DEF Created, With
<1>5. ASSUME NEW a \in Addresses
      PROVE  /\ a \in part => a \notin HeldObjects' /\ a \notin LiveObjects'
             /\ a \notin part => /\ a \in HeldObjects' <=> a \in HeldObjects
                                 /\ a \in LiveObjects' <=> a \in LiveObjects
  BY <1>1, <1>3, <1>4, ApplyObject
<1>6. /\ HeldObjects' \subseteq HeldObjects
      /\ LiveObjects' \subseteq LiveObjects
  BY <1>5, ObjectSets
<1>7. OnlineEdges' = OnlineEdges \cap LiveObjects'
  <2>1. ASSUME NEW s \in Sites
        PROVE  reg'[s] = "ONLINE" <=> reg[s] = "ONLINE" /\ Site(s) \in LiveObjects'
    <3>1. Site(s) \in Addresses
      BY AddressesOf DEF Sites
    <3>2. reg[s] = "ONLINE" => Site(s) \in LiveObjects
      BY <1>0 DEF EstateInv, CloudCovers, LiveObjects
    <3>3. CASE Site(s) \in part
      <4>1. Action(plan, Site(s)) # "update" /\ Site(s) \notin LiveObjects'
        BY <1>3, <1>5, <3>1, <3>3
      <4>2. reg'[s] = "none"
        BY <3>3, <4>1 DEF Applied, RegAfter
      <4> QED BY <4>1, <4>2
    <3>4. CASE Site(s) \notin part
      <4>1. reg[s] = "ONLINE" => reg'[s] = "ONLINE"
        BY <3>4, OnlineKept
      <4>2. reg'[s] = "ONLINE" => reg[s] = "ONLINE"
        BY DEF Applied, RegAfter
      <4> QED BY <1>5, <3>1, <3>2, <3>4, <4>1, <4>2
    <3> QED BY <3>3, <3>4
  <2>2. ASSUME NEW e \in OnlineEdges' PROVE e \in OnlineEdges \cap LiveObjects'
    <3>1. PICK s \in Sites : e = Site(s) /\ reg'[s] = "ONLINE"
      BY DEF OnlineEdges
    <3> QED BY <2>1, <3>1 DEF OnlineEdges
  <2>3. ASSUME NEW e \in OnlineEdges \cap LiveObjects' PROVE e \in OnlineEdges'
    <3>1. PICK s \in Sites : e = Site(s) /\ reg[s] = "ONLINE"
      BY DEF OnlineEdges
    <3> QED BY <2>1, <3>1 DEF OnlineEdges
  <2> QED BY <2>2, <2>3
<1>8. PassedGates' = (IF HeldObjects' = {} THEN {} ELSE PassedGates)
  <2>1. HeldObjects' = {} <=> state' = NoEstate
    <3>1. state' = NoEstate => HeldObjects' = {}
      BY DEF HeldObjects, Held, NoEstate
    <3>2. ASSUME HeldObjects' = {} PROVE state' = NoEstate
      <4>1. \A a \in Addresses : state'[a] = "absent"
        BY <3>2, HeldAfter
      <4>2. state' = [a \in Addresses |-> state'[a]]
        BY <1>0 DEF TypeOK, Estates
      <4> QED BY <4>1, <4>2 DEF NoEstate
    <3> QED BY <3>1, <3>2
  <2>2. HeldObjects = {} => HeldObjects' = {}
    BY <1>6
  <2>3. HeldObjects = {} <=> state = NoEstate
    BY <1>0, NothingHeld
  <2>4. done' \cap Gates = done \cap Gates
    BY ApplyOutcome
  <2> QED BY <2>1, <2>2, <2>3, <2>4 DEF PassedGates
<1>9. absent' = absent
  <2>1. absent' = (absent /\ \A a \in part \cup orphan : plan.after[a] = "absent")
    BY DEF Applied
  <2>2. \A a \in part \cup orphan : plan.after[a] = "absent"
    BY <1>3, <1>4
  <2> QED BY <2>1, <2>2, Zenon DEF Known, TypeOK
<1>10. LiveObjects \ HeldObjects \subseteq LiveObjects'
  BY <1>1, ApplyLeaves
<1>11. /\ Phase = "tearing" /\ Phase' \in {"tearing", "idle"}
       /\ Certified = FALSE /\ Certified' = FALSE
  BY ApplyOutcome
<1> QED BY <1>6, <1>7, <1>8, <1>9, <1>10, <1>11 DEF Estate!Teardown

LEMMA ApplyMaps ==
  ASSUME Known, Known', [Next]_vars, Apply \/ ApplyStops \/ ApplyFails
  PROVE  Estate!Next \/ UNCHANGED estateVars
<1>1. PICK part \in SUBSET Changes(plan), orphan \in SUBSET Created(plan) :
        Applied(plan, part, orphan)
  BY ApplyParts
<1>2. step \in PlanSteps
  BY ApplyOutcome
<1>3. CASE step \in HubSteps
  BY <1>1, <1>3, HubMaps DEF Estate!Next
<1>4. CASE step \in RepairSteps
  BY <1>1, <1>4, RepairMaps
<1>5. CASE step \in VerifySteps \cup ObserveSteps
  BY <1>1, <1>5, LookingMaps
<1>6. CASE step = "lan"
  BY <1>1, <1>6, LanMaps DEF Estate!Next
<1>7. CASE step \in AzureSteps
  BY <1>1, <1>7, AzureMaps DEF Estate!Next
<1>8. CASE step = "destroy"
  BY <1>1, <1>8, DestroyMaps DEF Estate!Next
<1> QED BY <1>2, <1>3, <1>4, <1>5, <1>6, <1>7, <1>8
    DEF PlanSteps, HubSteps, RepairSteps

(* Every step of the lifecycle is a step of the estate, or none.            *)
LEMMA EstateNext ==
  ASSUME Known, Known', [Next]_vars
  PROVE  Estate!Next \/ UNCHANGED estateVars
<1>1. CASE Apply \/ ApplyStops \/ ApplyFails
  BY <1>1, ApplyMaps
<1>2. CASE ~(Apply \/ ApplyStops \/ ApplyFails)
  <2>1. Receipt
    BY <1>2, ReceiptSteps DEF Known, Receipt
  <2>2. Outside \/ Saved \/ Permitted \/ Moved \/ Stopped \/ Rerun
    BY <1>2, Classes DEF Known, StepClass
  <2>3. CASE Outside
    BY <2>3, OutsideAdmits DEF Estate!Next
  <2>4. CASE Saved \/ Permitted
    BY <2>4, ReviewsLeave
  <2>5. CASE Moved
    BY <2>1, <2>5, MovedMaps
  <2>6. CASE Stopped
    BY <2>1, <2>6, StoppedMaps
  <2>7. CASE Rerun
    BY <2>7, RerunStops DEF Estate!Next
  <2> QED BY <2>2, <2>3, <2>4, <2>5, <2>6, <2>7
<1> QED BY <1>1, <1>2

(* The lifecycle implements the estate of ShowcaseEstate: whatever happens  *)
(* to its plans, its sites and itself, objects come and go only in the      *)
(* order and under the conditions stated there.                             *)
THEOREM EstateImplemented == Spec => EstateKept
<1>1. Spec => []Known
  BY BuildInvariant, AbsenceProven, PTL DEF Known
<1>2. TypeOK /\ Init => Estate!Init
  BY EstateStarts
<1>3. Known /\ Known' /\ [Next]_vars => [Estate!Next]_(Estate!vars)
  BY EstateNext DEF estateVars, Estate!vars
<1> QED BY <1>1, <1>2, <1>3, InitType, PTL DEF Spec, EstateKept, Estate!Spec

------------------------------------------------------------------------------
(* What an estate that is kept promises; a certificate does not outlive the *)
(* beginning of a teardown.  A passed test keeps what it was made on while  *)
(* the build goes on, and an emptied estate has passed none but those that  *)
(* test nothing.                                                           *)
HubComplete == HeldObjects \cap Estate!Hub = Held(Converged) \cap Estate!Hub
RestComplete == HeldObjects \ AzureAddresses = Held(Converged) \ AzureAddresses

TestsStand ==
  Phase = "building" \/ HeldObjects = {} =>
    /\ PassedGates # {} => HubComplete
    /\ PassedGates = Estate!Gates => RestComplete

EstatePromise ==
  /\ KvmLan \in HeldObjects => Estate!Earlier("client") \subseteq PassedGates
  /\ HeldObjects \cap AzureAddresses # {} => PassedGates = Estate!Gates
  /\ TestsStand
  /\ Certified => Estate!Certifiable /\ Phase # "tearing"
  /\ absent => LiveObjects \cap Estate!HubEdges = {}

LEMMA LanApart == {KvmLan} \cap AzureAddresses = {} /\ KvmLan \in Addresses
BY AddressesOf, NotAzureSite

LEMMA EarlierTests ==
  /\ Estate!Earlier("client") # {} /\ Estate!Earlier("client") # Estate!Gates
  /\ Estate!Earlier("client") \subseteq Estate!Gates /\ Estate!Gates # {}
  /\ \A g \in Estate!Gates : Estate!Earlier(g) # Estate!Gates
<1>1. /\ "client" \in Estate!Gates /\ "client" \notin Estate!Earlier("client")
      /\ "healthy" \in Estate!Earlier("client")
  BY DEF Estate!Earlier, Estate!Gates
<1>2. Estate!Earlier("client") \subseteq Estate!Gates
  BY DEF Estate!Earlier, Estate!Gates
<1>3. ASSUME NEW g \in Estate!Gates PROVE "client" \notin Estate!Earlier(g)
  BY DEF Estate!Earlier, Estate!Gates
<1> QED BY <1>1, <1>2, <1>3

LEMMA PromiseParts == EstatePromise => Estate!Promise
<1> SUFFICES ASSUME EstatePromise PROVE Estate!Promise
  OBVIOUS
<1>1. Estate!Founded
  BY EarlierTests
     DEF Estate!Founded, EstatePromise, TestsStand, HubComplete, RestComplete
<1> QED BY <1>1 DEF EstatePromise, Estate!Promise

(* No step takes from under a passed test what it was made on.              *)
LEMMA ChangeKeepsTests ==
  ASSUME TestsStand, Estate!Assemble \/ Estate!Extend \/ Estate!Join
  PROVE  TestsStand'
<1>1. PassedGates' = PassedGates /\ Phase = "building"
  <2>1. PICK lane : Estate!Change(lane)
    BY DEF Estate!Assemble, Estate!Extend, Estate!Join
  <2> QED BY <2>1, Zenon DEF Estate!Change
<1>2. CASE Estate!Assemble
  BY <1>1, <1>2, EarlierTests DEF Estate!Assemble, TestsStand
<1>3. CASE Estate!Extend
  <2>1. PassedGates # Estate!Gates /\ HeldObjects' \ {KvmLan} = HeldObjects \ {KvmLan}
    BY <1>3, EarlierTests DEF Estate!Extend, Estate!Change
  <2>2. KvmLan \notin Estate!Hub
    BY DEF Estate!Hub
  <2>3. HubComplete => HubComplete'
    BY <2>1, <2>2 DEF HubComplete
  <2> QED BY <1>1, <2>1, <2>3 DEF TestsStand
<1>4. CASE Estate!Join
  <2>1. HeldObjects' \ AzureAddresses = HeldObjects \ AzureAddresses
    BY <1>4 DEF Estate!Join, Estate!Change
  <2>2. Estate!Hub \cap AzureAddresses = {}
    BY DEF Estate!Hub
  <2>3. (HubComplete => HubComplete') /\ (RestComplete => RestComplete')
    BY <2>1, <2>2 DEF HubComplete, RestComplete
  <2> QED BY <1>1, <2>3 DEF TestsStand
<1> QED BY <1>2, <1>3, <1>4

LEMMA GateMakesStand ==
  ASSUME TestsStand, NEW g \in Estate!Gates, Estate!PassGate(g)
  PROVE  TestsStand'
<1>1. /\ Phase = "building" /\ PassedGates = Estate!Earlier(g)
      /\ PassedGates' = PassedGates \cup {g} /\ HeldObjects' = HeldObjects
      /\ HeldObjects = Estate!Tested(g)
  BY DEF Estate!PassGate
<1>2. HubComplete
  BY <1>1, LanApart DEF HubComplete, Estate!Tested, Estate!Hub
<1>3. PassedGates' = Estate!Gates => RestComplete
  <2>1. CASE g = "client"
    BY <1>1, <2>1 DEF RestComplete, Estate!Tested
  <2>2. CASE g # "client"
    <3>1. "client" \notin Estate!Earlier(g) \cup {g} /\ "client" \in Estate!Gates
      BY <2>2 DEF Estate!Earlier, Estate!Gates
    <3> QED BY <1>1, <3>1
  <2> QED BY <2>1, <2>2
<1> QED BY <1>1, <1>2, <1>3 DEF TestsStand, HubComplete, RestComplete

LEMMA TestsKeepStanding ==
  ASSUME TestsStand, Estate!Next \/ UNCHANGED estateVars
  PROVE  TestsStand'
<1> USE DEF TestsStand, HubComplete, RestComplete
<1>1. CASE Estate!Assemble \/ Estate!Extend \/ Estate!Join
  BY <1>1, ChangeKeepsTests
<1>2. ASSUME NEW g \in Estate!Gates, Estate!PassGate(g) PROVE TestsStand'
  BY <1>2, GateMakesStand
<1>3. CASE Estate!Teardown
  <2>1. Phase' # "building" /\ (HeldObjects' = {} => PassedGates' = {})
    BY <1>3 DEF Estate!Teardown
  <2> QED BY <2>1, EarlierTests
<1>4. CASE \/ Estate!Stop \/ Estate!BeginBuild \/ Estate!BeginTeardown \/ Estate!Certify
           \/ Estate!ProveAbsence \/ Estate!Admit \/ UNCHANGED estateVars
  <2>1. /\ HeldObjects' = HeldObjects /\ PassedGates' = PassedGates
        /\ Phase' = "building" => Phase = "building" \/ HeldObjects = {}
    BY <1>4 DEF Estate!Stop, Estate!BeginBuild, Estate!BeginTeardown, Estate!Certify,
                Estate!ProveAbsence, Estate!Admit, estateVars
  <2> QED BY <2>1
<1> QED BY <1>1, <1>2, <1>3, <1>4 DEF Estate!Next

(* A build.                                                                 *)
LEMMA ChangePromises ==
  ASSUME EstatePromise, Estate!Assemble \/ Estate!Extend \/ Estate!Join
  PROVE  EstatePromise'
<1>1. /\ Certified' = Certified /\ ~Certified /\ PassedGates' = PassedGates
      /\ absent' \in {absent, FALSE}
      /\ absent' => LiveObjects' \subseteq LiveObjects
  <2>1. PICK lane : Estate!Change(lane)
    BY DEF Estate!Assemble, Estate!Extend, Estate!Join
  <2> QED BY <2>1, Zenon DEF Estate!Change
<1>2. KvmLan \in HeldObjects' => Estate!Earlier("client") \subseteq PassedGates
  <2>1. CASE Estate!Assemble
    <3>1. PassedGates = {} /\ HeldObjects' \ Estate!Hub = HeldObjects \ Estate!Hub
      BY <2>1 DEF Estate!Assemble, Estate!Change
    <3>2. KvmLan \notin Estate!Hub
      BY DEF Estate!Hub
    <3>3. KvmLan \notin HeldObjects
      BY <3>1, EarlierTests DEF EstatePromise
    <3> QED BY <3>1, <3>2, <3>3
  <2>2. CASE Estate!Extend \/ Estate!Join
    BY <2>2, EarlierTests DEF Estate!Extend, Estate!Join
  <2> QED BY <2>1, <2>2
<1>3. HeldObjects' \cap AzureAddresses # {} => PassedGates = Estate!Gates
  <2>1. CASE Estate!Assemble \/ Estate!Extend
    <3>1. PICK lane \in {Estate!Hub, {KvmLan}} :
            HeldObjects' \ lane = HeldObjects \ lane
      BY <2>1 DEF Estate!Assemble, Estate!Extend, Estate!Change
    <3>2. lane \cap AzureAddresses = {}
      BY LanApart DEF Estate!Hub
    <3>3. PassedGates # Estate!Gates
      BY <2>1, EarlierTests DEF Estate!Assemble, Estate!Extend
    <3> QED BY <3>1, <3>2, <3>3 DEF EstatePromise
  <2>2. CASE Estate!Join
    BY <2>2 DEF Estate!Join
  <2> QED BY <2>1, <2>2
<1>4. absent' => LiveObjects' \cap Estate!HubEdges = {}
  <2>1. absent' => absent
    BY <1>1, Zenon
  <2> QED BY <1>1, <2>1 DEF EstatePromise
<1>5. Certified' => Estate!Certifiable' /\ Phase' # "tearing"
  BY <1>1, Zenon
<1>6. PassedGates' = PassedGates
  BY <1>1, Zenon
<1>7. TestsStand'
  BY ChangeKeepsTests DEF EstatePromise
<1> QED BY <1>2, <1>3, <1>4, <1>5, <1>6, <1>7 DEF EstatePromise

(* Everything else leaves the objects, or takes some away.                  *)
LEMMA KeptPromises ==
  ASSUME EstatePromise, HeldObjects' \subseteq HeldObjects,
         LiveObjects' \subseteq LiveObjects,
         HeldObjects' # {} => PassedGates \subseteq PassedGates',
         PassedGates = Estate!Gates /\ HeldObjects' # {} =>
           PassedGates' = Estate!Gates,
         TestsStand',
         absent' => absent \/ LiveObjects \cap Estate!HubEdges = {},
         Certified' => Estate!Certifiable' /\ Phase' # "tearing"
  PROVE  EstatePromise'
<1>1. KvmLan \in HeldObjects' => Estate!Earlier("client") \subseteq PassedGates'
  BY DEF EstatePromise
<1>2. HeldObjects' \cap AzureAddresses # {} => PassedGates' = Estate!Gates
  BY DEF EstatePromise
<1>3. absent' => LiveObjects' \cap Estate!HubEdges = {}
  BY DEF EstatePromise
<1> QED BY <1>1, <1>2, <1>3 DEF EstatePromise

LEMMA CertifiableKept ==
  ASSUME Estate!Certifiable, HeldObjects' = HeldObjects,
         LiveObjects' = LiveObjects, PassedGates' = PassedGates,
         OnlineEdges \subseteq OnlineEdges'
  PROVE  Estate!Certifiable'
BY DEF Estate!Certifiable

LEMMA NextPromises ==
  ASSUME EstatePromise, Estate!Next \/ UNCHANGED estateVars
  PROVE  EstatePromise'
<1>0. TestsStand'
  BY TestsKeepStanding DEF EstatePromise
<1>1. CASE Estate!Assemble \/ Estate!Extend \/ Estate!Join
  BY <1>1, ChangePromises
<1>2. CASE Estate!Stop \/ Estate!BeginTeardown
  BY <1>0, <1>2, KeptPromises DEF Estate!Stop, Estate!BeginTeardown
<1>3. CASE \/ Estate!BeginBuild \/ Estate!Certify \/ Estate!Admit
           \/ UNCHANGED estateVars
  <2>1. /\ HeldObjects' = HeldObjects /\ LiveObjects' = LiveObjects
        /\ PassedGates' = PassedGates /\ absent' = absent
        /\ OnlineEdges \subseteq OnlineEdges'
        /\ \/ Certified' = Certified /\ Phase' = Phase
           \/ Certified' = Certified /\ Phase' = "building"
           \/ Estate!Certifiable /\ Phase' # "tearing"
    BY <1>3 DEF Estate!BeginBuild, Estate!Certify, Estate!Admit, estateVars
  <2>2. Certified' => Estate!Certifiable' /\ Phase' # "tearing"
    BY <2>1, CertifiableKept DEF EstatePromise
  <2> QED BY <1>0, <2>1, <2>2, KeptPromises
<1>4. CASE Estate!Teardown \/ Estate!ProveAbsence
  <2>1. Certified' = FALSE
    <3>1. Phase = "tearing" /\ Certified' = Certified
      BY <1>4 DEF Estate!Teardown, Estate!ProveAbsence
    <3> QED BY <3>1 DEF EstatePromise, Certified, Running
  <2>2. CASE Estate!Teardown
    BY <1>0, <2>1, <2>2, KeptPromises DEF Estate!Teardown
  <2>3. CASE Estate!ProveAbsence
    BY <1>0, <2>1, <2>3, KeptPromises DEF Estate!ProveAbsence
  <2> QED BY <1>4, <2>2, <2>3
<1>5. ASSUME NEW g \in Estate!Gates, Estate!PassGate(g) PROVE EstatePromise'
  <2>1. /\ PassedGates = Estate!Earlier(g) /\ PassedGates \subseteq PassedGates'
        /\ UNCHANGED <<HeldObjects, LiveObjects, OnlineEdges, Phase, Certified,
                       absent>>
    BY <1>5 DEF Estate!PassGate
  <2>2. PassedGates # Estate!Gates
    BY <2>1, EarlierTests
  <2>3. Certified' = FALSE
    <3>1. ~Certified
      BY <2>2 DEF EstatePromise, Estate!Certifiable
    <3> QED BY <2>1, <3>1 DEF Certified, Running
  <2> QED BY <1>0, <2>1, <2>2, <2>3, KeptPromises
<1> QED BY <1>1, <1>2, <1>3, <1>4, <1>5 DEF Estate!Next

LEMMA InitPromises == Estate!Init => EstatePromise
<1> SUFFICES ASSUME Estate!Init PROVE EstatePromise
  OBVIOUS
<1>1. /\ HeldObjects # {} => PassedGates = Estate!Gates
      /\ HeldObjects = {} => PassedGates = {}
      /\ Phase = "idle" /\ Certified = FALSE /\ absent = FALSE
  BY DEF Estate!Init
<1>2. TestsStand
  BY <1>1, EarlierTests DEF TestsStand
<1> QED BY <1>1, <1>2, EarlierTests DEF EstatePromise

(* In every estate the lifecycle keeps, the LAN is managed behind the tests *)
(* of the hub only and Azure behind all of them; while a build goes on, the *)
(* LAN with the whole hub and Azure with the whole rest; a certificate      *)
(* stands for the complete estate as it still is; and behind an absence     *)
(* receipt there is no Customer Edge of AWS or KVM.  Of Azure's an absence  *)
(* receipt proves nothing (run absence_unproven).                           *)
THEOREM EstatePromises == Spec => []Estate!Promise
<1>1. Estate!Init => EstatePromise
  BY InitPromises
<1>2. EstatePromise /\ [Estate!Next]_(Estate!vars) => EstatePromise'
  BY NextPromises DEF estateVars, Estate!vars
<1>3. EstatePromise => Estate!Promise
  BY PromiseParts
<1> QED BY <1>1, <1>2, <1>3, EstateImplemented, PTL DEF EstateKept, Estate!Spec
=============================================================================
