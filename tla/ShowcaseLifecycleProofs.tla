------------------------ MODULE ShowcaseLifecycleProofs ------------------------
(***************************************************************************)
(* Theorems about ShowcaseLifecycle for every number of sites, polls,      *)
(* invocations, faults and overwritten plans.                              *)
(***************************************************************************)
EXTENDS ShowcaseLifecycle, ShowcaseRootProofs, FiniteSetTheorems

(* Plans of the script.                                                     *)
LEMMA StepConfigType == ASSUME NEW s PROVE StepConfig(s) \in Configs
BY DEF StepConfig, AwsPhase, Configs

LEMMA PlannedType ==
  ASSUME NEW s, state \in Estates, cloud \in Estates,
         shown \subseteq Outputs, real \subseteq Outputs
  PROVE  /\ Planned(s) \in Plans
         /\ DestroyPlanFor(StepConfig(s), state, cloud, reg) \in Plans
         /\ RefreshPlanFor(StepConfig(s), state, cloud, reg, Outs) \in Plans
<1>1. Outs \in SUBSET Outputs /\ {} \in SUBSET Outputs
  BY DEF Outs
<1>2. StepConfig(s) \in Configs
  BY StepConfigType
<1>3. PlanTo(StepConfig(s), Wanted(StepConfig(s), reg), state, cloud, reg, Outs)
        \in Plans
  BY <1>1, <1>2, WantedType, PlanToType
<1>4. PlanTo(StepConfig(s), NoEstate, state, cloud, reg, {}) \in Plans
  BY <1>1, <1>2, NoEstateType, PlanToType
<1>5. PlanTo(StepConfig(s), Refreshed(state, cloud), state, cloud, reg, Outs)
        \in Plans
  BY <1>1, <1>2, RefreshedType, PlanToType
<1> QED BY <1>3, <1>4, <1>5 DEF Planned, PlanFor, DestroyPlanFor, RefreshPlanFor

(* An apply, complete or not, keeps the types of what it changes.           *)
LEMMA AppliedType ==
  ASSUME TypeOK, NEW p \in Plans, NEW part, NEW orphan, Applied(p, part, orphan)
  PROVE  /\ state' \in Estates /\ cloud' \in Estates
         /\ reg' \in [Sites -> RegStates]
         /\ real' \subseteq Outputs /\ absent' \in BOOLEAN
BY PlanParts, ApplyType, RegAfterType DEF Applied, TypeOK

(* A plan that may be applied is one.                                       *)
LEMMA CanApplyHasPlan ==
  ASSUME TypeOK, EstateInv, CanApply
  PROVE  plan \in Plans /\ plan.cfg.azure \in BOOLEAN
<1>1. plan # NoPlan
  BY DEF EstateInv, PlanIsCurrent, CanApply
<1>2. plan \in Plans
  BY <1>1 DEF TypeOK, PlanFiles
<1> QED BY <1>2 DEF Plans, Configs

(* The steps of the script are steps.                                       *)
LEMMA NextStepType ==
  ASSUME NEW s \in Steps, NEW n
  PROVE  NextStep(s) \in Steps /\ (s \in WaitSteps => AfterWait(s, n) \in Steps)
BY DEF NextStep, AfterWait, Steps, PhaseSteps, WaitSteps, VerifySteps,
       DriftSteps, ObserveSteps, AzureSteps, OtherSteps

------------------------------------------------------------------------------
(* The types of the variables.                                              *)
LEMMA InitType == Init => TypeOK
<1> SUFFICES ASSUME Init PROVE TypeOK
  OBVIOUS
<1>1. NoEstate \in Estates /\ Converged \in Estates
  BY NoEstateType, WantedType DEF Converged
<1>2. reg \in [Sites -> RegStates]
  BY DEF Init, RegStates
<1> QED BY <1>1, <1>2 DEF Init, TypeOK, Modes, Cycles, Builds, Steps,
             OtherSteps, Exits, PlanFiles, Outputs

LEMMA NextType == TypeOK /\ EstateInv /\ [Next]_vars => TypeOK'
<1> SUFFICES ASSUME TypeOK, EstateInv, [Next]_vars PROVE TypeOK'
  OBVIOUS
<1> USE LifecycleAssumption
<1> USE DEF TypeOK, PlanFiles, script, files, private, backend, world, history,
            bounds
<1>p. /\ Planned(step) \in Plans /\ Planned("final") \in Plans
      /\ DestroyPlanFor(StepConfig(step), state, cloud, reg) \in Plans
      /\ DestroyPlanFor(StepConfig("destroy"), state, cloud, reg) \in Plans
      /\ RefreshPlanFor(StepConfig(step), state, cloud, reg, Outs) \in Plans
  BY PlannedType
<1>n. NextStep(step) \in Steps
  BY NextStepType
<1>e. {"boot_create", "destroy", "final", "forget", "absence", "start"}
         \subseteq Steps
  BY DEF Steps, PhaseSteps, OtherSteps
<1>c. {"build", "first", "second", "none", "verify", "requested", "initial"}
         \subseteq Cycles
  BY DEF Cycles, Builds
<1>1. CASE Start
  BY <1>1, <1>p, <1>n, <1>e, <1>c DEF Start, GoTo, Die, Exits
<1>2. CASE PhasePlan
  BY <1>2, <1>p, <1>n, <1>e, <1>c DEF PhasePlan, Die, Exits
<1>3. CASE ScopePlan
  BY <1>3, <1>p, <1>n, <1>e, <1>c DEF ScopePlan, Die, Exits
<1>4. CASE DigestChanged
  BY <1>4, <1>p, <1>n, <1>e, <1>c DEF DigestChanged, Die, Exits
<1>5. CASE Apply
  <2>1. /\ state' \in Estates /\ cloud' \in Estates
        /\ reg' \in [Sites -> RegStates]
        /\ real' \subseteq Outputs /\ absent' \in BOOLEAN
    BY <1>5, AppliedType, CanApplyHasPlan DEF Apply
  <2>2. /\ mode' \in Modes /\ cycle' \in Cycles /\ step' \in Steps
        /\ at' \in {"plan", "scope", "apply"} /\ tries' \in Nat
        /\ exit' \in Exits /\ done' \subseteq Steps
    BY <1>5, <1>n DEF Apply, Advance, GoTo, Die, Exits
  <2>3. named' \in BOOLEAN /\ legacy' \in BOOLEAN /\ shown' \subseteq Outputs
    BY <1>5, <2>1, CanApplyHasPlan DEF Apply
  <2> QED BY <1>5, <2>1, <2>2, <2>3 DEF Apply, NoFiles
<1>6. CASE ApplyStops
  <2>1. /\ state' \in Estates /\ cloud' \in Estates
        /\ reg' \in [Sites -> RegStates]
        /\ real' \subseteq Outputs /\ absent' \in BOOLEAN
    BY <1>6, AppliedType, CanApplyHasPlan DEF ApplyStops
  <2>2. named' \in BOOLEAN
    BY <1>6, CanApplyHasPlan DEF ApplyStops, NamedAfterFailure
  <2> QED BY <1>6, <2>1, <2>2 DEF ApplyStops, Die, Exits
<1>7. CASE Probe
  <2>1. AfterWait(step, ApprovalCount(Planned(step))) \in Steps
    BY <1>7, NextStepType DEF Probe
  <2>2. projection' \subseteq AwsSites /\ done' \subseteq Steps
    BY <1>7 DEF Probe
  <2>3. step' \in Steps /\ cycle' \in Cycles /\ mode' \in Modes
        /\ at' \in {"plan", "scope", "apply"} /\ tries' \in Nat
        /\ exit' \in Exits
    BY <1>7, <2>1 DEF Probe, GoTo, Die, PollAgain, Exits
  <2> QED BY <1>7, <2>2, <2>3 DEF Probe
<1>8. CASE PlanFails
  BY <1>8, <1>p, <1>n, <1>e, <1>c DEF PlanFails, PollAgain, Die, Exits
<1>9. CASE Capture
  <2>1. mapped' \subseteq Cycles /\ done' \subseteq Steps
    BY <1>9 DEF Capture
  <2>2. step' \in Steps /\ cycle' \in Cycles /\ mode' \in Modes
        /\ at' \in {"plan", "scope", "apply"} /\ tries' \in Nat
        /\ exit' \in Exits
    BY <1>9, <1>n DEF Capture, Advance, GoTo, Die, Exits
  <2> QED BY <1>9, <2>1, <2>2 DEF Capture
<1>10. CASE VerifyPlan
  BY <1>10, <1>p, <1>n, <1>e, <1>c DEF VerifyPlan, Advance, GoTo, Die, Exits
<1>11. CASE InjectDrift
  <2>1. cloud' \in Estates
    BY <1>11 DEF InjectDrift, Estates, Values
  <2> QED BY <1>11, <2>1, <1>n DEF InjectDrift, Advance, GoTo, Die, Exits
<1>12. CASE ObservePlan
  BY <1>12, <1>p, <1>n, <1>e, <1>c DEF ObservePlan, Die, Exits
<1>13. CASE DirectPlan
  BY <1>13, <1>p, <1>n, <1>e, <1>c DEF DirectPlan, SavePlan, Exits
<1>14. CASE ApprovalPlan
  BY <1>14, <1>p, <1>n, <1>e, <1>c
  DEF ApprovalPlan, SavePlan, PollAgain, Die, Exits
<1>15. CASE AzureOnline
  <2>1. UNCHANGED <<files, private, backend, world, absent, bounds>>
    BY <1>15 DEF AzureOnline
  <2>2. \/ Advance /\ done' = done \cup {step}
        \/ PollAgain /\ UNCHANGED done
    BY <1>15 DEF AzureOnline
  <2>3. step' \in Steps /\ cycle' \in Cycles /\ mode' \in Modes
        /\ at' \in {"plan", "scope", "apply"} /\ tries' \in Nat
        /\ exit' \in Exits /\ done' \subseteq Steps
    BY <2>2, <1>n DEF Advance, GoTo, PollAgain, Die, Exits
  <2> QED BY <2>1, <2>3
<1>16. CASE SettlePlan
  BY <1>16, <1>p, <1>n, <1>e, <1>c
  DEF SettlePlan, SavePlan, Advance, GoTo, Die, Exits
<1>17. CASE ClientCheck
  BY <1>17, <1>p, <1>n, <1>e, <1>c DEF ClientCheck, Advance, GoTo, Exits
<1>18. CASE FinalPlan
  BY <1>18, <1>p, <1>n, <1>e, <1>c DEF FinalPlan, GoTo, Die, Pass, Exits
<1>19. CASE Forget
  BY <1>19, <1>p, <1>n, <1>e, <1>c DEF Forget, GoTo, Exits
<1>20. CASE DestroyPlan
  <2>1. captured' \subseteq AzureAddresses
    BY <1>20 DEF DestroyPlan, AzureAddresses
  <2> QED BY <1>20, <1>p, <2>1 DEF DestroyPlan, SavePlan, Die, Exits
<1>21. CASE Absence
  <2>1. CASE \E a \in Queried : cloud[a] # "absent"
    BY <1>21, <2>1 DEF Absence, Die, Exits
  <2>2. CASE ~(\E a \in Queried : cloud[a] # "absent")
    BY <1>21, <2>2, <1>e, <1>c DEF Absence, GoTo, Pass, Exits
  <2> QED BY <2>1, <2>2
<1>22. CASE ApplyFails
  <2>1. /\ state' \in Estates /\ cloud' \in Estates
        /\ reg' \in [Sites -> RegStates]
        /\ real' \subseteq Outputs /\ absent' \in BOOLEAN
    BY <1>22, AppliedType, CanApplyHasPlan DEF ApplyFails
  <2>2. named' \in BOOLEAN
    BY <1>22, CanApplyHasPlan DEF ApplyFails, NamedAfterFailure
  <2> QED BY <1>22, <2>1, <2>2 DEF ApplyFails, Die, Exits
<1>23. ASSUME NEW s \in Sites, Register(s) \/ Admit(s) PROVE TypeOK'
  <2>1. reg' \in [Sites -> RegStates]
    BY <1>23 DEF Register, Admit, RegStates
  <2>2. cloud' \in Estates
    BY <1>23 DEF Register, Admit, Labelled, Estates, Values
  <2> QED BY <1>23, <2>1, <2>2 DEF Register, Admit
<1>24. ASSUME NEW o \in Outputs, Settle(o) PROVE TypeOK'
  BY <1>24, <1>p, <1>e, <1>c DEF Settle
<1>25. CASE Interrupt
  BY <1>25, <1>p, <1>e, <1>c DEF Interrupt, Die, Exits
<1>26. CASE Overwrite
  BY <1>26, <1>p, <1>e, <1>c DEF Overwrite
<1>27. CASE Rerun
  BY <1>27, <1>p, <1>e, <1>c DEF Rerun, NoFiles, Exits
<1>28. CASE UNCHANGED vars
  BY <1>28, <1>p, <1>e, <1>c DEF vars
<1> QED BY <1>1, <1>2, <1>3, <1>4, <1>5, <1>6, <1>7, <1>8, <1>9,
           <1>10, <1>11, <1>12, <1>13, <1>14, <1>15, <1>16, <1>17, <1>18, <1>19,
           <1>20, <1>21, <1>22, <1>23, <1>24, <1>25, <1>26, <1>27, <1>28
     DEF Next, Script, Environment, Failures

------------------------------------------------------------------------------
(* Every step either leaves the objects of the estate as they are or is an  *)
(* apply of the plan under review.                                          *)
SameObjects ==
  /\ state' = state /\ Held(cloud') = Held(cloud)
  /\ \A s \in Sites :
        reg'[s] # "none" => reg[s] # "none" \/ Site(s) \in Held(cloud)

ApplyStep ==
  /\ CanApply
  /\ \E part \in SUBSET Changes(plan), orphan \in SUBSET Created(plan) :
        Applied(plan, part, orphan)

(* Giving an existing object the value "drifted" keeps the set of objects.  *)
LEMMA DriftKeepsHeld ==
  ASSUME NEW estate \in Estates, NEW a \in Held(estate)
  PROVE  Held([estate EXCEPT ![a] = "drifted"]) = Held(estate)
BY DEF Held, Estates

(* An apply, complete or stopped, completes a part of its plan.             *)
LEMMA ApplySteps ==
  ASSUME Apply \/ ApplyStops \/ ApplyFails
  PROVE  ApplyStep
<1>0. {} \in SUBSET Created(plan)
  OBVIOUS
<1>1. CASE Apply
  BY <1>0, <1>1 DEF Apply, ApplyStep
<1>2. CASE ApplyStops
  <2>1. Changes(plan) \ (Taken(plan) \cup {AwsTgw, KvmBgp})
          \in SUBSET Changes(plan)
    OBVIOUS
  <2> QED BY <1>0, <1>2, <2>1 DEF ApplyStops, ApplyStep
<1>3. CASE ApplyFails
  <2>1. PICK part \in FailedParts(plan) :
          \E orphan \in Orphaned(plan, part) : Applied(plan, part, orphan)
    BY <1>3 DEF ApplyFails
  <2>2. PICK orphan \in Orphaned(plan, part) : Applied(plan, part, orphan)
    BY <2>1
  <2>3. part \in SUBSET Changes(plan)
    BY DEF FailedParts
  <2>4. orphan \in SUBSET Created(plan)
    BY DEF Orphaned
  <2> QED BY <1>3, <2>2, <2>3, <2>4 DEF ApplyFails, ApplyStep
<1> QED BY <1>1, <1>2, <1>3

LEMMA EstateSteps ==
  ASSUME TypeOK, EstateInv, [Next]_vars
  PROVE  SameObjects \/ ApplyStep
<1> USE DEF script, files, private, backend, world, history, bounds
<1>1. ASSUME Apply \/ ApplyStops \/ ApplyFails PROVE ApplyStep
  BY <1>1, ApplySteps
<1>2. CASE InjectDrift
  <2>1. ASSUME cloud' # cloud PROVE Held(cloud') = Held(cloud)
    <3>1. /\ cloud' = [cloud EXCEPT ![DriftTarget(step)] = "drifted"]
          /\ state[DriftTarget(step)] # "absent"
      BY <1>2, <2>1 DEF InjectDrift
    <3>2. DriftTarget(step) \in Addresses
      BY DEF DriftTarget, Addresses, AwsAddresses, KvmAddresses
    <3>3. DriftTarget(step) \in Held(cloud)
      BY <3>1, <3>2 DEF EstateInv, CloudCovers, Held
    <3> QED BY <3>1, <3>3, DriftKeepsHeld DEF TypeOK
  <2> QED BY <1>2, <2>1 DEF InjectDrift, SameObjects
<1>3. ASSUME NEW s \in Sites, Register(s) \/ Admit(s) PROVE SameObjects
  <2>1. Site(s) \in Held(cloud)
    BY <1>3 DEF Register, Admit, EstateInv, CloudCovers, Held, Sites, Addresses,
                AwsAddresses, KvmAddresses, AzureAddresses
  <2>2. Held(cloud') = Held(cloud)
    BY <1>3, <2>1, DriftKeepsHeld DEF Register, Admit, Labelled, TypeOK
  <2>3. state' = state /\ \A t \in Sites : t # s => reg'[t] = reg[t]
    BY <1>3 DEF Register, Admit, TypeOK
  <2> QED BY <2>1, <2>2, <2>3 DEF SameObjects
<1>4. CASE UNCHANGED <<state, cloud, reg>>
  BY <1>4 DEF SameObjects
<1>5. ASSUME \/ Start \/ PhasePlan \/ ScopePlan \/ DigestChanged \/ Probe
             \/ PlanFails \/ Capture \/ VerifyPlan \/ ObservePlan
             \/ DirectPlan \/ ApprovalPlan
      PROVE  UNCHANGED <<state, cloud, reg>>
  BY <1>5 DEF Start, PhasePlan, ScopePlan, DigestChanged, Probe, PlanFails,
              Capture, VerifyPlan, ObservePlan, DirectPlan, ApprovalPlan
<1>6. ASSUME \/ AzureOnline \/ SettlePlan \/ ClientCheck \/ FinalPlan
             \/ Forget \/ DestroyPlan \/ Absence \/ Interrupt \/ Overwrite
             \/ Rerun \/ UNCHANGED vars \/ \E o \in Outputs : Settle(o)
      PROVE  UNCHANGED <<state, cloud, reg>>
  BY <1>6 DEF AzureOnline, SettlePlan, ClientCheck, FinalPlan, Forget,
              DestroyPlan, Absence, Interrupt, Overwrite, Rerun, vars, Settle
<1> QED BY <1>1, <1>2, <1>3, <1>4, <1>5, <1>6
     DEF Next, Script, Environment, Failures

(* The plan under review touches only what belongs to its step, because its *)
(* scope, or the preflight of a phase plan, permits nothing else and the    *)
(* digest says that it is the plan they saw.                                *)
LEMMA PlanInLane ==
  ASSUME TypeOK, EstateInv, CanApply, NEW a \in Changes(plan)
  PROVE  /\ plan.before[a] = "absent" => a \in MayCreate(step)
         /\ plan.after[a] = "absent" => a \in MayDelete(step)
<1>1. plan \in Plans
  BY CanApplyHasPlan
<1>2. step \in PlanSteps
  BY DEF EstateInv, PlanIsCurrent, CanApply
<1>3. CASE step \in PhaseSteps
  <2>1. a \in AwsAddresses \cup KvmAddresses
    BY <1>3 DEF EstateInv, PhaseReviewed, CanApply, Digest
  <2> QED BY <1>3, <2>1 DEF MayCreate, MayDelete, PhaseSteps, AzureSteps
<1>4. CASE step \notin PhaseSteps
  <2>1. ScopePermits(StepScope(step, plan), plan)
    BY <1>4 DEF EstateInv, ScopeReviewed, CanApply, Digest
  <2>2. CASE step \in VerifySteps \cup ObserveSteps
    <3>1. Changes(plan) = {}
      BY <1>4, <2>1, <2>2
      DEF StepScope, ScopePermits, StatusRefresh, RefreshOnly, VerifySteps,
          ObserveSteps
    <3> QED BY <3>1
  <2>3. CASE step = "lan"
    <3>1. Changes(plan) \subseteq KvmAddresses
      BY <1>4, <2>1, <2>3
      DEF StepScope, ScopePermits, KvmConfigured, VerifySteps, ObserveSteps
    <3> QED BY <1>4, <2>3, <3>1 DEF MayCreate, MayDelete, AzureSteps
  <2>4. CASE step \in AzureSteps \ {"az_online"}
    <3>1. \/ AzureBuild(plan) \/ AzureBindings(plan)
          \/ AzureApprovals(plan) \/ AzureConverge(plan)
      BY <1>4, <2>1, <2>4 DEF StepScope, ScopePermits, VerifySteps,
                              ObserveSteps, AzureSteps
    <3>2. a \in AzureAddresses /\ plan.after[a] # "absent"
      BY <1>1, <3>1, AzureScopes
    <3> QED BY <1>4, <2>4, <3>2 DEF MayCreate, AzureSteps
  <2>5. CASE step = "destroy"
    <3>1. FullDestroy(plan)
      BY <1>4, <2>1, <2>5 DEF StepScope, ScopePermits, VerifySteps, ObserveSteps
    <3>2. plan.before[a] # "absent" /\ a \in Addresses
      BY <1>1, <3>1, DestroyScope, PlanParts
    <3> QED BY <1>4, <2>5, <3>2 DEF MayDelete, AzureSteps
  <2> QED BY <1>2, <1>4, <2>2, <2>3, <2>4, <2>5 DEF PlanSteps
<1> QED BY <1>3, <1>4

------------------------------------------------------------------------------
(* The conjuncts of EstateInv, first those about the objects.               *)
LEMMA NextCovers ==
  ASSUME TypeOK, EstateInv, [Next]_vars
  PROVE  CloudCovers'
<1>1. CASE SameObjects
  BY <1>1 DEF SameObjects, EstateInv, CloudCovers
<1>2. CASE ApplyStep
  <2>1. PICK part \in SUBSET Changes(plan), orphan \in SUBSET Created(plan) :
          Applied(plan, part, orphan)
    BY <1>2 DEF ApplyStep
  <2>2. plan \in Plans /\ Held(plan.before) = Held(state)
    BY <1>2, CanApplyHasPlan DEF ApplyStep, CanApply, EstateInv, PlanIsCurrent
  <2>3. /\ state \in Estates /\ cloud \in Estates
        /\ reg \in [Sites -> RegStates]
        /\ Held(state) \subseteq Held(cloud)
        /\ \A s \in Sites : reg[s] # "none" => Site(s) \in Held(cloud)
    BY DEF TypeOK, EstateInv, CloudCovers
  <2>4. Held(state') \subseteq Held(cloud')
    BY <2>1, <2>2, <2>3, ApplyCovers DEF Applied
  <2>5. ASSUME NEW s \in Sites, reg'[s] # "none"
        PROVE  Site(s) \in Held(cloud')
    BY <2>1, <2>2, <2>3, <2>5, ApplyRegistered DEF Applied
  <2> QED BY <2>4, <2>5 DEF CloudCovers
<1> QED BY <1>1, <1>2, EstateSteps

(* Objects come and go only in a step that may create or delete them.       *)
LEMMA NextContained ==
  ASSUME TypeOK, EstateInv, [Next]_vars
  PROVE  StepContained
<1>1. CASE SameObjects
  BY <1>1 DEF SameObjects, StepContained
<1>2. CASE ApplyStep
  <2>1. PICK part \in SUBSET Changes(plan), orphan \in SUBSET Created(plan) :
          Applied(plan, part, orphan)
    BY <1>2 DEF ApplyStep
  <2>2. plan \in Plans /\ Held(plan.before) = Held(state)
    BY <1>2, CanApplyHasPlan DEF ApplyStep, CanApply, EstateInv, PlanIsCurrent
  <2>3. /\ state \in Estates /\ cloud \in Estates
        /\ Held(state) \subseteq Held(cloud)
    BY DEF TypeOK, EstateInv, CloudCovers
  <2>4. \A a \in Changes(plan) :
          /\ plan.before[a] = "absent" => a \in MayCreate(step)
          /\ plan.after[a] = "absent" => a \in MayDelete(step)
    BY <1>2, PlanInLane DEF ApplyStep
  <2>5. /\ Held(state') \ Held(state) \subseteq MayCreate(step)
        /\ Held(state) \ Held(state') \subseteq MayDelete(step)
    BY <2>1, <2>2, <2>3, <2>4, StateHeld DEF Applied
  <2>6. /\ Held(cloud') \ Held(cloud) \subseteq MayCreate(step)
        /\ Held(cloud) \ Held(cloud') \subseteq MayDelete(step)
    <3>1. cloud' = CloudAfter(plan, part \cup orphan, cloud)
      BY <2>1 DEF Applied
    <3> DEFINE both == part \cup orphan
    <3>2. both \in SUBSET Changes(plan)
      BY DEF Created, With
    <3> HIDE DEF both
    <3>3. /\ \A a \in Held(CloudAfter(plan, both, cloud)) \ Held(cloud) :
                a \in Changes(plan) /\ plan.before[a] = "absent"
          /\ \A a \in Held(cloud) \ Held(CloudAfter(plan, both, cloud)) :
                a \in Changes(plan) /\ plan.after[a] = "absent"
      BY <2>2, <2>3, <3>2, CloudHeld
    <3> QED BY <2>4, <3>1, <3>3 DEF both
  <2> QED BY <2>5, <2>6 DEF StepContained
<1> QED BY <1>1, <1>2, EstateSteps

(* Completed steps are only forgotten when a build starts, and it starts    *)
(* from an empty state.                                                     *)
LEMMA NextDone ==
  ASSUME TypeOK, EstateInv, [Next]_vars
  PROVE  done \subseteq done' \/ state' = NoEstate
<1> USE DEF script, files, private, backend, world, history, bounds
<1>1. CASE PhasePlan
  BY <1>1 DEF PhasePlan, EstateInv, StartsEmpty
<1>2. ASSUME \/ Start \/ ScopePlan \/ DigestChanged \/ Apply
             \/ ApplyStops \/ Probe \/ PlanFails \/ Capture \/ VerifyPlan
             \/ InjectDrift \/ ObservePlan \/ DirectPlan \/ ApprovalPlan
      PROVE  done \subseteq done'
  BY <1>2 DEF Start, ScopePlan, DigestChanged, Apply, ApplyStops, Probe,
              PlanFails, Capture, VerifyPlan, InjectDrift, ObservePlan,
              DirectPlan, ApprovalPlan
<1>3. ASSUME \/ AzureOnline \/ SettlePlan \/ ClientCheck \/ FinalPlan
             \/ Forget \/ DestroyPlan \/ Absence \/ ApplyFails \/ Interrupt
             \/ Overwrite \/ Rerun \/ Environment \/ UNCHANGED vars
      PROVE  done \subseteq done'
  BY <1>3 DEF AzureOnline, SettlePlan, ClientCheck, FinalPlan, Forget,
              DestroyPlan, Absence, ApplyFails, Interrupt, Overwrite, Rerun,
              Environment, Register, Admit, Settle, vars
<1> QED BY <1>1, <1>2, <1>3 DEF Next, Script, Failures

(* An Azure object that appears in the state appears in a step behind every *)
(* gate.                                                                    *)
LEMMA NextAzure ==
  ASSUME TypeOK, EstateInv, [Next]_vars
  PROVE  AzureAfterGates'
<1> SUFFICES ASSUME NEW a \in AzureAddresses, state'[a] # "absent"
             PROVE  Gates \subseteq done'
  BY DEF AzureAfterGates
<1>1. a \in Addresses
  BY DEF Addresses
<1>2. state' # NoEstate
  BY <1>1 DEF NoEstate
<1>3. Gates \subseteq done
  <2>1. CASE state[a] # "absent"
    BY <2>1 DEF EstateInv, AzureAfterGates
  <2>2. CASE state[a] = "absent"
    <3>1. a \in Held(state') \ Held(state)
      BY <1>1, <2>2 DEF Held
    <3>2. a \in MayCreate(step)
      BY <3>1, NextContained DEF StepContained
    <3>3. step \in AzureSteps
      BY <3>2, AzureApart DEF MayCreate
    <3>4. \A g \in Gates : step \in StepsAfter(g)
      BY <3>3 DEF StepsAfter
    <3> QED BY <3>4 DEF EstateInv, GatesInOrder
  <2> QED BY <2>1, <2>2
<1> QED BY <1>2, <1>3, NextDone

------------------------------------------------------------------------------
(* The conjuncts about the plan under review.                               *)
PlanReviewed == PlanIsCurrent /\ PhaseReviewed /\ ScopeReviewed

(* A plan made now describes the objects in the state.                      *)
LEMMA PlansAreCurrent ==
  ASSUME TypeOK, EstateInv, NEW s
  PROVE  /\ Held(Planned(s).before) = Held(state)
         /\ Held(DestroyPlanFor(StepConfig(s), state, cloud, reg).before)
              = Held(state)
         /\ Held(RefreshPlanFor(StepConfig(s), state, cloud, reg, Outs).before)
              = Held(state)
         /\ Planned(s) # NoPlan
         /\ DestroyPlanFor(StepConfig(s), state, cloud, reg) # NoPlan
         /\ RefreshPlanFor(StepConfig(s), state, cloud, reg, Outs) # NoPlan
<1>1. Held(Refreshed(state, cloud)) = Held(state)
  BY RefreshedHeld DEF TypeOK, EstateInv, CloudCovers
<1>2. /\ Planned(s) # NoPlan
      /\ DestroyPlanFor(StepConfig(s), state, cloud, reg) # NoPlan
      /\ RefreshPlanFor(StepConfig(s), state, cloud, reg, Outs) # NoPlan
  BY PlannedType, LifecycleAssumption DEF TypeOK
<1> QED BY <1>1, <1>2
     DEF Planned, PlanFor, DestroyPlanFor, RefreshPlanFor, PlanTo

(* A step that needs no plan has none under review.                         *)
LEMMA NoPlanToReview ==
  ASSUME EstateInv, Running, step \notin PlanSteps
  PROVE  at = "plan"
BY DEF EstateInv, PlanIsCurrent

(* Nothing is under review when a step begins or the script is not running. *)
LEMMA NothingReviewed ==
  ASSUME at' = "plan" \/ ~Running'
  PROVE  PlanReviewed'
BY DEF PlanReviewed, PlanIsCurrent, PhaseReviewed, ScopeReviewed, Running

LEMMA NextReviewed ==
  ASSUME TypeOK, EstateInv, [Next]_vars
  PROVE  PlanReviewed'
<1> USE DEF script, files, private, backend, world, history, bounds
<1>o. /\ \A s \in WaitSteps \cup DriftSteps : s \notin PlanSteps
      /\ \A s \in OtherSteps \ {"lan", "destroy"} : s \notin PlanSteps
      /\ "az_online" \notin PlanSteps
  BY DEF PlanSteps, PhaseSteps, WaitSteps, VerifySteps, DriftSteps,
         ObserveSteps, AzureSteps, OtherSteps
<1>1. ASSUME \/ Start \/ Probe \/ PlanFails \/ Capture \/ InjectDrift
             \/ AzureOnline \/ ClientCheck \/ FinalPlan \/ Forget \/ Absence
      PROVE  PlanReviewed'
  <2>1. at = "plan"
    BY <1>1, <1>o, NoPlanToReview
    DEF Start, Probe, PlanFails, Capture, InjectDrift, AzureOnline, ClientCheck,
        FinalPlan, Forget, Absence, OtherSteps
  <2>2. at' = "plan"
    BY <1>1, <2>1
    DEF Start, Probe, PlanFails, Capture, InjectDrift, AzureOnline, ClientCheck,
        FinalPlan, Forget, Absence, GoTo, Advance, Die, Pass, PollAgain
  <2> QED BY <2>2, NothingReviewed
<1>2. ASSUME \/ DigestChanged \/ Apply \/ ApplyStops \/ ApplyFails
             \/ Interrupt \/ Rerun
      PROVE  PlanReviewed'
  <2>1. at' = "plan" \/ exit' # "running"
    BY <1>2 DEF DigestChanged, Apply, ApplyStops, ApplyFails, Interrupt, Rerun,
                Die, Advance, GoTo
  <2> QED BY <2>1, NothingReviewed DEF Running
<1>3. CASE PhasePlan
  <2>1. CASE at' = "plan" \/ exit' # "running"
    BY <2>1, NothingReviewed DEF Running
  <2>2. CASE at' # "plan" /\ exit' = "running"
    <3>1. /\ Preflight(AwsPhase(step), Planned(step), cloud)
          /\ plan' = Planned(step) /\ receipt' = Planned(step)
          /\ at' = "scope" /\ step' = step /\ step \in PhaseSteps
          /\ state' = state
      BY <1>3, <2>2 DEF PhasePlan, Die
    <3>2. Changes(Planned(step)) \subseteq AwsAddresses \cup KvmAddresses
      BY <3>1 DEF Preflight
    <3>3. PlanIsCurrent'
      BY <3>1, PlansAreCurrent DEF PlanIsCurrent, PlanSteps
    <3>4. PhaseReviewed'
      BY <3>1, <3>2, PlansAreCurrent DEF PhaseReviewed
    <3>5. ScopeReviewed'
      BY <3>1 DEF ScopeReviewed
    <3> QED BY <3>3, <3>4, <3>5 DEF PlanReviewed
  <2> QED BY <2>1, <2>2
<1>4. CASE ScopePlan
  <2>1. CASE exit' # "running"
    BY <2>1, NothingReviewed DEF Running
  <2>2. CASE exit' = "running"
    <3>1. /\ ScopePermits(StepScope(step, plan), plan)
          /\ at = "scope" /\ exit = "running"
          /\ UNCHANGED <<plan, receipt, step, state>>
          /\ scoped' = plan
      BY <1>4, <2>2 DEF ScopePlan, Die, Running
    <3>2. /\ step \in PlanSteps /\ plan # NoPlan
          /\ Held(plan.before) = Held(state)
      BY <3>1 DEF EstateInv, PlanIsCurrent, Running
    <3>3. PlanIsCurrent'
      BY <3>1, <3>2 DEF PlanIsCurrent
    <3>4. PhaseReviewed'
      BY <3>1 DEF EstateInv, PhaseReviewed, Running
    <3>5. ScopeReviewed'
      BY <3>1, <3>2 DEF ScopeReviewed
    <3> QED BY <3>3, <3>4, <3>5 DEF PlanReviewed
  <2> QED BY <2>1, <2>2
<1>5. ASSUME \/ VerifyPlan \/ ObservePlan \/ DirectPlan \/ ApprovalPlan
             \/ SettlePlan \/ DestroyPlan
      PROVE  PlanReviewed'
  <2>1. CASE at' = "plan" \/ exit' # "running"
    BY <2>1, NothingReviewed DEF Running
  <2>2. CASE at' # "plan" /\ exit' = "running"
    <3>1. /\ at' = "scope" /\ step' = step /\ state' = state
          /\ step \in PlanSteps \ PhaseSteps
          /\ plan' \in
               {Planned(step),
                DestroyPlanFor(StepConfig(step), state, cloud, reg),
                RefreshPlanFor(StepConfig(step), state, cloud, reg, Outs)}
      BY <1>5, <2>2
      DEF VerifyPlan, ObservePlan, DirectPlan, ApprovalPlan, SettlePlan,
          DestroyPlan, SavePlan, Advance, GoTo, Die, PollAgain, PlanSteps,
          PhaseSteps, VerifySteps, ObserveSteps, AzureSteps
    <3>2. PlanIsCurrent'
      BY <3>1, PlansAreCurrent DEF PlanIsCurrent
    <3>3. PhaseReviewed' /\ ScopeReviewed'
      BY <3>1 DEF PhaseReviewed, ScopeReviewed
    <3> QED BY <3>2, <3>3 DEF PlanReviewed
  <2> QED BY <2>1, <2>2
<1>6. CASE Overwrite
  <2>1. /\ UNCHANGED <<step, at, exit, receipt, scoped, state>>
        /\ plan' \in {Planned("final"),
                     DestroyPlanFor(StepConfig("destroy"), state, cloud, reg)}
    BY <1>6 DEF Overwrite
  <2>2. PlanIsCurrent'
    BY <2>1, PlansAreCurrent DEF EstateInv, PlanIsCurrent, Running
  <2>3. PhaseReviewed' /\ ScopeReviewed'
    BY <2>1 DEF EstateInv, PhaseReviewed, ScopeReviewed, Running
  <2> QED BY <2>2, <2>3 DEF PlanReviewed
<1>7. ASSUME Environment \/ UNCHANGED vars
      PROVE  PlanReviewed'
  <2>1. UNCHANGED <<step, at, exit, plan, receipt, scoped, state>>
    BY <1>7 DEF Environment, Register, Admit, Settle, vars
  <2> QED BY <2>1 DEF EstateInv, PlanReviewed, PlanIsCurrent, PhaseReviewed,
                      ScopeReviewed, Running
<1> QED BY <1>1, <1>2, <1>3, <1>4, <1>5, <1>6, <1>7
     DEF Next, Script, Failures

------------------------------------------------------------------------------
(* The conjuncts about the order of the steps.                              *)

(* Behind a gate a step follows the gate itself or a step behind it.        *)
LEMMA GateBefore ==
  ASSUME NEW s \in Steps, NEW g \in Gates
  PROVE  NextStep(s) \in StepsAfter(g) => s = g \/ s \in StepsAfter(g)
BY DEF NextStep, Gates, StepsAfter, Steps, PhaseSteps, WaitSteps, VerifySteps,
       DriftSteps, ObserveSteps, AzureSteps, OtherSteps

(* A completed step keeps the order.                                        *)
LEMMA AdvanceInOrder ==
  ASSUME TypeOK, EstateInv, step' = NextStep(step), done' = done \cup {step}
  PROVE  GatesInOrder'
BY GateBefore DEF TypeOK, EstateInv, GatesInOrder

(* Only an absence proof or the dispatch on the mode leads to a new build,  *)
(* and only a destroy to the absence proof.                                 *)
LEMMA NextStepKeeps ==
  ASSUME NEW s \in Steps, s # "destroy"
  PROVE  NextStep(s) \in {"boot_create", "absence"} => NextStep(s) = s
BY DEF NextStep, Steps, PhaseSteps, WaitSteps, VerifySteps, DriftSteps,
       ObserveSteps, AzureSteps, OtherSteps

LEMMA NextOrder ==
  ASSUME TypeOK, EstateInv, [Next]_vars
  PROVE  StartsEmpty' /\ GatesInOrder'
<1> USE DEF script, files, private, backend, world, history, bounds
<1>o. \A g \in Gates : StepsAfter(g) \cap
         {"start", "boot_create", "boot_wait", "boot_approve", "conf_wait",
          "conf_approve", "capture", "tgw", "final", "forget", "destroy",
          "absence"} = {}
  BY DEF Gates, StepsAfter, AzureSteps
<1>a. ASSUME step' = step, done \subseteq done', state' = state,
             exit' = exit \/ exit' # "running"
      PROVE  StartsEmpty' /\ GatesInOrder'
  BY <1>a DEF EstateInv, StartsEmpty, GatesInOrder, Running
<1>b. ASSUME step' = NextStep(step), done' = done \cup {step}, Running,
             step # "destroy", state' = state
      PROVE  StartsEmpty' /\ GatesInOrder'
  <2>1. GatesInOrder'
    BY <1>b, AdvanceInOrder
  <2>2. StartsEmpty'
    BY <1>b, NextStepKeeps DEF TypeOK, EstateInv, StartsEmpty
  <2> QED BY <2>1, <2>2
<1>1. CASE Start
  <2>1. \/ step' = step /\ exit' # "running"
        \/ /\ step' \in {"final", "destroy", "boot_create"}
           /\ step' = "boot_create" => state' = NoEstate
    BY <1>1 DEF Start, GoTo, Die
  <2>2. done' = done /\ state' = state
    BY <1>1 DEF Start
  <2> QED BY <2>1, <2>2, <1>o DEF EstateInv, StartsEmpty, GatesInOrder, Running
<1>2. CASE PhasePlan
  <2>1. /\ step' = step /\ state' = state /\ (exit' = exit \/ exit' # "running")
        /\ step # "boot_create" => done' = done
    BY <1>2 DEF PhasePlan, Die
  <2> QED BY <2>1, <1>o DEF EstateInv, StartsEmpty, GatesInOrder, Running
<1>3. CASE Apply
  <2>1. CASE step \in VerifySteps \cup {"settle"}
    <3>1. step' = step /\ done' = done
      BY <1>3, <2>1 DEF Apply, VerifySteps
    <3> QED BY <2>1, <3>1 DEF EstateInv, StartsEmpty, GatesInOrder, VerifySteps
  <2>2. CASE step = "destroy" /\ state' # NoEstate
    <3>1. exit' # "running" /\ step' = step /\ done' = done
      BY <1>3, <2>2 DEF Apply, VerifySteps, Die
    <3> QED BY <3>1 DEF EstateInv, StartsEmpty, GatesInOrder, Running
  <2>3. CASE /\ step \notin VerifySteps \cup {"settle"}
             /\ ~(step = "destroy" /\ state' # NoEstate)
    <3>1. step' = NextStep(step) /\ done' = done \cup {step}
      BY <1>3, <2>3 DEF Apply, Advance, GoTo
    <3>2. step \in PlanSteps
      BY <1>3 DEF Apply, CanApply, EstateInv, PlanIsCurrent
    <3>3. step \notin {"boot_create", "absence", "destroy"}
            => step' \notin {"boot_create", "absence"}
      BY <3>1, NextStepKeeps DEF TypeOK
    <3>4. step # "absence" /\ (step = "boot_create" => step' = "boot_wait")
      BY <3>1, <3>2 DEF PlanSteps, PhaseSteps, VerifySteps, ObserveSteps,
                        AzureSteps, NextStep
    <3>5. StartsEmpty'
      BY <2>3, <3>3, <3>4 DEF StartsEmpty
    <3> QED BY <3>1, <3>5, AdvanceInOrder
  <2> QED BY <2>1, <2>2, <2>3
<1>4. ASSUME ApplyStops \/ ApplyFails
      PROVE  StartsEmpty' /\ GatesInOrder'
  <2>1. step' = step /\ done' = done /\ exit' # "running"
    BY <1>4 DEF ApplyStops, ApplyFails, Die
  <2> QED BY <2>1 DEF EstateInv, StartsEmpty, GatesInOrder, Running
<1>5. CASE Probe
  <2>1. CASE step' = step
    BY <1>5, <2>1, <1>a DEF Probe, GoTo, Die, PollAgain
  <2>2. CASE step' # step
    <3>1. \E n : step' = AfterWait(step, n)
      BY <1>5, <2>2 DEF Probe, GoTo, Die, PollAgain
    <3>2. step' \in {"boot_approve", "capture", "conf_approve", "tgw"}
      BY <3>1 DEF AfterWait
    <3> QED BY <3>2, <1>o DEF StartsEmpty, GatesInOrder
  <2> QED BY <2>1, <2>2
<1>6. ASSUME \/ ScopePlan \/ DigestChanged \/ PlanFails \/ ObservePlan
             \/ DirectPlan \/ ApprovalPlan \/ DestroyPlan \/ Interrupt
             \/ Overwrite \/ Environment \/ UNCHANGED vars
      PROVE  StartsEmpty' /\ GatesInOrder'
  <2>1. /\ step' = step /\ done' = done /\ state' = state
        /\ exit' = exit \/ exit' # "running"
    BY <1>6
    DEF ScopePlan, DigestChanged, PlanFails, ObservePlan, DirectPlan,
        ApprovalPlan, DestroyPlan, Interrupt, Overwrite, Environment, Register,
        Admit, Settle, vars, Die, PollAgain, SavePlan
  <2> QED BY <2>1, <1>a
<1>7. ASSUME \/ Capture \/ VerifyPlan \/ InjectDrift \/ AzureOnline
             \/ SettlePlan \/ ClientCheck
      PROVE  StartsEmpty' /\ GatesInOrder'
  <2>1. Running /\ step # "destroy" /\ state' = state
    BY <1>7 DEF Capture, VerifyPlan, InjectDrift, AzureOnline, SettlePlan,
                ClientCheck, VerifySteps, DriftSteps
  <2>2. \/ /\ step' = step /\ done' = done
           /\ exit' = exit \/ exit' # "running"
        \/ step' = NextStep(step) /\ done' = done \cup {step}
    BY <1>7 DEF Capture, VerifyPlan, InjectDrift, AzureOnline, SettlePlan,
                ClientCheck, Advance, GoTo, Die, PollAgain, SavePlan
  <2> QED BY <2>1, <2>2, <1>a, <1>b
<1>8. ASSUME \/ FinalPlan \/ Forget \/ Rerun
      PROVE  StartsEmpty' /\ GatesInOrder'
  <2>1. step' \in {"final", "forget", "destroy", "start"}
    BY <1>8 DEF FinalPlan, Forget, Rerun, GoTo, Die, Pass
  <2> QED BY <2>1, <1>o DEF StartsEmpty, GatesInOrder
<1>9. CASE Absence
  <2>1. step' \in {"absence", "boot_create"} /\ state' = state
    BY <1>9 DEF Absence, GoTo, Die, Pass
  <2>2. state = NoEstate
    BY <1>9 DEF Absence, EstateInv, StartsEmpty
  <2> QED BY <2>1, <2>2, <1>o DEF StartsEmpty, GatesInOrder
<1> QED BY <1>1, <1>2, <1>3, <1>4, <1>5, <1>6, <1>7, <1>8, <1>9
     DEF Next, Script, Failures

------------------------------------------------------------------------------
LEMMA InitEstate == Init => EstateInv
<1> SUFFICES ASSUME Init PROVE EstateInv
  OBVIOUS
<1>1. CloudCovers
  <2>1. CASE state = NoEstate /\ reg = [s \in Sites |-> "none"]
    BY <2>1 DEF Init, CloudCovers
  <2>2. CASE state = Converged
    <3>1. ASSUME NEW s \in Sites PROVE Site(s) \in Held(Converged)
      <4>1. Site(s) \in Addresses
        BY DEF Sites, Addresses, AwsAddresses, KvmAddresses, AzureAddresses
      <4>2. CASE s \in AwsSites
        <5>1. Site(s) \in AwsAddresses
          BY <4>2 DEF AwsAddresses
        <5>2. StepConfig("final").aws = "configured"
          BY DEF StepConfig, AwsPhase
        <5>3. Site(s) # AwsNetwork /\ Site(s) # AwsTgw
          BY DEF Site, AwsNetwork, AwsTgw
        <5>4. \A r : WantedAws(StepConfig("final"), r)[Site(s)] = "final"
          BY <4>2, <5>1, <5>2, <5>3 DEF WantedAws
        <5>5. Site(s) \notin KvmAddresses
          BY <4>2, SitesAssumption
          DEF KvmAddresses, Site, Approval, KvmBgp, KvmLan
        <5> QED BY <4>1, <5>1, <5>4, <5>5 DEF Converged, Held, Wanted
      <4>3. CASE s = KvmSite
        <5>1. Site(s) \in KvmAddresses /\ Site(s) \notin AwsAddresses
          BY <4>3, SitesAssumption
          DEF KvmAddresses, AwsAddresses, Site, Approval, AwsNetwork, AwsTgw
        <5>2. \A r : WantedKvm(StepConfig("final"), r)[Site(s)] = "present"
          BY <4>3, <5>1 DEF WantedKvm, Site, Approval, KvmBgp, KvmLan
        <5> QED BY <4>1, <5>1, <5>2 DEF Converged, Held, Wanted
      <4>4. CASE s \in AzureSites
        <5>1. Site(s) \in AzureAddresses
          BY <4>4 DEF AzureAddresses
        <5>2. Site(s) \notin AwsAddresses /\ Site(s) \notin KvmAddresses
          BY <5>1, AzureApart
        <5>3. StepConfig("final").azure /\ Site(s) # AzureHub
          BY DEF StepConfig, PhaseSteps, WaitSteps, VerifySteps, ObserveSteps,
                 Site, AzureHub
        <5>4. \A r : WantedAzure(StepConfig("final"), r)[Site(s)]
                       \in {"bound", "unbound"}
          BY <4>4, <5>1, <5>3 DEF WantedAzure
        <5> QED BY <4>1, <5>1, <5>2, <5>4 DEF Converged, Held, Wanted
      <4> QED BY <4>2, <4>3, <4>4 DEF Sites
    <3> QED BY <2>2, <3>1 DEF Init, CloudCovers
  <2> QED BY <2>1, <2>2 DEF Init
<1>2. GatesInOrder /\ StartsEmpty
  BY DEF Init, GatesInOrder, Gates, StepsAfter, AzureSteps, StartsEmpty
<1>3. AzureAfterGates
  <2>1. Gates \subseteq Steps
    BY DEF Gates, Steps, VerifySteps, OtherSteps
  <2>2. AzureAddresses \subseteq Addresses
    BY DEF Addresses
  <2> QED BY <2>1, <2>2 DEF Init, AzureAfterGates, NoEstate
<1>4. PlanIsCurrent /\ PhaseReviewed /\ ScopeReviewed
  BY DEF Init, PlanIsCurrent, PhaseReviewed, ScopeReviewed
<1> QED BY <1>1, <1>2, <1>3, <1>4 DEF EstateInv

LEMMA NextEstate == TypeOK /\ EstateInv /\ [Next]_vars => EstateInv'
BY NextCovers, NextAzure, NextReviewed, NextOrder DEF EstateInv, PlanReviewed

LEMMA Inductive == Spec => [](TypeOK /\ EstateInv)
BY InitType, InitEstate, NextType, NextEstate, PTL DEF Spec

(* The variables keep their types: no sequence of steps, failures and       *)
(* reruns takes the script to a step it does not have, a registration to an *)
(* unknown state or an object to a value no configuration asks for.         *)
THEOREM TypeCorrect == Spec => []TypeOK
BY Inductive, PTL

(* The strengthened invariant of the estate: what is about to be applied    *)
(* was reviewed for its step and describes the objects the state holds.     *)
THEOREM EstateInvariant == Spec => []EstateInv
BY Inductive, PTL

(* No Azure object is managed before the gates of its own estate passed,    *)
(* however many invocations were killed or failed before.                   *)
THEOREM AzureBehindGates == Spec => []AzureAfterGates
<1>1. EstateInv => AzureAfterGates
  BY DEF EstateInv
<1> QED BY <1>1, Inductive, PTL

(* Whatever is written over a saved plan and wherever an apply stops, a     *)
(* step creates and deletes only what belongs to it.                        *)
THEOREM Containment == Spec => Contained
<1>1. TypeOK /\ EstateInv /\ [Next]_vars => [StepContained]_vars
  BY NextContained
<1> QED BY <1>1, Inductive, PTL DEF Spec, Contained

------------------------------------------------------------------------------
(* The absence receipt.                                                     *)

(* Only an absence proof writes the receipt, only an apply withdraws it.    *)
LEMMA NextReceipt ==
  ASSUME TypeOK, EstateInv, [Next]_vars
  PROVE  Absence \/ ApplyStep \/ (SameObjects /\ absent' = absent)
<1> USE DEF script, files, private, backend, world, history, bounds
<1>1. ASSUME \/ Start \/ PhasePlan \/ ScopePlan \/ DigestChanged \/ Probe
             \/ PlanFails \/ Capture \/ VerifyPlan \/ InjectDrift
             \/ ObservePlan \/ DirectPlan \/ ApprovalPlan
      PROVE  absent' = absent
  BY <1>1 DEF Start, PhasePlan, ScopePlan, DigestChanged, Probe, PlanFails,
              Capture, VerifyPlan, InjectDrift, ObservePlan, DirectPlan,
              ApprovalPlan
<1>2. ASSUME \/ AzureOnline \/ SettlePlan \/ ClientCheck \/ FinalPlan
             \/ Forget \/ DestroyPlan \/ Interrupt \/ Overwrite \/ Rerun
             \/ Environment \/ UNCHANGED vars
      PROVE  absent' = absent
  BY <1>2 DEF AzureOnline, SettlePlan, ClientCheck, FinalPlan, Forget,
              DestroyPlan, Interrupt, Overwrite, Rerun, Environment, Register,
              Admit, Settle, vars
<1>3. ASSUME Apply \/ ApplyStops \/ ApplyFails PROVE ApplyStep
  BY <1>3, ApplySteps
<1> QED BY <1>1, <1>2, <1>3, EstateSteps
     DEF Next, Script, Failures

LEMMA NextAbsence ==
  ASSUME TypeOK, EstateInv, AbsenceHonest, [Next]_vars
  PROVE  AbsenceHonest'
<1> SUFFICES ASSUME absent', NEW s \in AwsSites \cup {KvmSite}
             PROVE  cloud'[Site(s)] = "absent"
  BY DEF AbsenceHonest
<1>0. Site(s) \in Addresses
  BY DEF Addresses, AwsAddresses, KvmAddresses
<1>1. CASE Absence
  <2>1. cloud' = cloud /\ Site(s) \in Queried
    BY <1>1 DEF Absence, world, Queried
  <2>2. CASE \E a \in Queried : cloud[a] # "absent"
    BY <1>1, <2>1, <2>2 DEF Absence, AbsenceHonest
  <2>3. CASE ~(\E a \in Queried : cloud[a] # "absent")
    BY <2>1, <2>3
  <2> QED BY <2>2, <2>3
<1>2. CASE ApplyStep
  <2>1. PICK part \in SUBSET Changes(plan), orphan \in SUBSET Created(plan) :
          Applied(plan, part, orphan)
    BY <1>2 DEF ApplyStep
  <2>2. /\ cloud[Site(s)] = "absent"
        /\ \A a \in part \cup orphan : plan.after[a] = "absent"
    BY <2>1 DEF Applied, AbsenceHonest
  <2> QED BY <1>0, <2>1, <2>2 DEF Applied, CloudAfter
<1>3. CASE SameObjects /\ absent' = absent
  <2>1. Site(s) \notin Held(cloud)
    BY <1>3 DEF AbsenceHonest, Held
  <2> QED BY <1>0, <1>3, <2>1 DEF SameObjects, Held
<1> QED BY <1>1, <1>2, <1>3, NextReceipt

(* Behind an absence receipt no AWS or KVM Customer Edge is left, also when *)
(* a failed apply created one that the state never knew.                    *)
THEOREM AbsenceProven == Spec => []AbsenceHonest
<1>1. Init => AbsenceHonest
  BY DEF Init, AbsenceHonest
<1> QED BY <1>1, Inductive, NextAbsence, PTL DEF Spec

------------------------------------------------------------------------------
(* The registration gate and the device mapping.                            *)

(* A gate that is ready has seen a registration of every AWS site: covered  *)
(* sites are as many as there are, hence all of them, and a site is covered *)
(* by an ONLINE registration or by an approval, which is wanted for a NEW   *)
(* one only.                                                                *)
LEMMA ReadyMeansRegistered ==
  ASSUME TypeOK, NEW s, NEW kvm,
         GateReady(Planned(s), Cardinality(AwsSites), kvm),
         NEW site \in AwsSites
  PROVE  reg[site] # "none"
<1> DEFINE p == Planned(s)
<1>1. Covered(p, AwsSites) = AwsSites
  <2>1. Covered(p, AwsSites) \in SUBSET AwsSites
    BY DEF Covered, GateOnline, GateApprovals, ApprovalCreates
  <2>2. Cardinality(Covered(p, AwsSites)) = Cardinality(AwsSites)
    BY DEF GateReady
  <2> QED BY <2>1, <2>2, FS_Subset, SitesAssumption
<1>2. CASE site \in p.online
  <2>1. p.online = OnlineSites(reg)
    BY DEF Planned, PlanFor, PlanTo
  <2> QED BY <1>2, <2>1 DEF OnlineSites
<1>3. CASE Approval(site) \in Created(p)
  <2>1. p \in Plans /\ Approval(site) \in AwsAddresses
    BY PlannedType DEF TypeOK, AwsAddresses
  <2>2. p.after[Approval(site)] # "absent"
    BY <1>3, <2>1, ActionOfChange DEF Created, With
  <2>3. p.after = Wanted(StepConfig(s), reg)
    BY DEF Planned, PlanFor, PlanTo
  <2>4. Approval(site) \notin KvmAddresses /\ Approval(site) \in Addresses
    BY SitesAssumption
    DEF KvmAddresses, Addresses, AwsAddresses, Site, Approval, KvmBgp, KvmLan
  <2>5. WantedAws(StepConfig(s), reg)[Approval(site)] # "absent"
    BY <2>1, <2>2, <2>3, <2>4 DEF Wanted
  <2>6. /\ Approval(site) # AwsNetwork /\ Approval(site) # AwsTgw
        /\ \A t : Approval(site) # Site(t)
        /\ Approval(site)[2] = site
    BY DEF Approval, Site, AwsNetwork, AwsTgw
  <2>7. reg[site] = "NEW"
    BY <2>1, <2>5, <2>6 DEF WantedAws
  <2> QED BY <2>7
<1> QED BY <1>1, <1>2, <1>3 DEF Covered, GateOnline, GateApprovals,
                                ApprovalCreates

(* From the bootstrap gate to the capture the projection names every site.  *)
ProjectionComplete ==
  /\ Running /\ step \in {"boot_approve", "capture"} => projection = AwsSites
  /\ CaptureNeverIncomplete

LEMMA NextProjection ==
  ASSUME TypeOK, EstateInv, ProjectionComplete, [Next]_vars
  PROVE  ProjectionComplete'
<1> USE DEF script, files, private, backend, world, history, bounds
<1>1. CASE Probe
  <2>1. CASE step' \in {"boot_approve", "capture"} /\ exit' = "running"
    <3>1. /\ step = "boot_wait"
          /\ GateReady(Planned(step), Cardinality(AwsSites), 1)
          /\ projection' = {s \in AwsSites : reg[s] # "none"}
      BY <1>1, <2>1 DEF Probe, WaitSteps, AfterWait, GoTo, PollAgain, Die
    <3>2. projection' = AwsSites
      BY <3>1, ReadyMeansRegistered
    <3> QED BY <2>1, <3>2 DEF ProjectionComplete, CaptureNeverIncomplete
  <2>2. CASE ~(step' \in {"boot_approve", "capture"} /\ exit' = "running")
    <3>1. exit' # "capture"
      BY <1>1 DEF Probe, GoTo, PollAgain, Die, Running
    <3> QED BY <2>2, <3>1
            DEF ProjectionComplete, CaptureNeverIncomplete, Running
  <2> QED BY <2>1, <2>2
<1>2. CASE Capture
  <2>1. projection = AwsSites
    BY <1>2 DEF Capture, ProjectionComplete
  <2>2. step' = "retire" /\ exit' = "running"
    BY <1>2, <2>1 DEF Capture, Advance, GoTo, NextStep, Running
  <2> QED BY <2>2 DEF ProjectionComplete, CaptureNeverIncomplete
<1>3. CASE Apply
  <2>1. projection' = projection /\ exit' # "capture"
    BY <1>3 DEF Apply, CanApply, Running, Advance, GoTo, Die
  <2>2. step' \in {"boot_approve", "capture"} =>
          step' = step \/ step = "boot_approve"
    BY <1>3 DEF Apply, Advance, GoTo, Die, NextStep, CanApply, EstateInv,
                PlanIsCurrent, PlanSteps, PhaseSteps, VerifySteps, ObserveSteps,
                AzureSteps
  <2> QED BY <1>3, <2>1, <2>2 DEF ProjectionComplete, CaptureNeverIncomplete,
                                  Apply, CanApply, Running
<1>4. ASSUME \/ VerifyPlan \/ InjectDrift \/ AzureOnline \/ SettlePlan
             \/ ClientCheck \/ Start \/ FinalPlan \/ Forget \/ Absence \/ Rerun
      PROVE  ProjectionComplete'
  <2>1. step' \notin {"boot_approve", "capture"}
    BY <1>4 DEF VerifyPlan, InjectDrift, AzureOnline, SettlePlan, ClientCheck,
                Start, FinalPlan, Forget, Absence, Rerun, Advance, GoTo, Die,
                Pass, PollAgain, SavePlan, NextStep, VerifySteps, DriftSteps
  <2>2. exit' # "capture"
    BY <1>4 DEF VerifyPlan, InjectDrift, AzureOnline, SettlePlan, ClientCheck,
                Start, FinalPlan, Forget, Absence, Rerun, Advance, GoTo, Die,
                Pass, PollAgain, SavePlan, Running
  <2> QED BY <2>1, <2>2 DEF ProjectionComplete, CaptureNeverIncomplete
<1>5. ASSUME \/ PhasePlan \/ ScopePlan \/ DigestChanged \/ ApplyStops
             \/ PlanFails \/ ObservePlan \/ DirectPlan \/ ApprovalPlan
             \/ DestroyPlan \/ ApplyFails \/ Interrupt \/ Overwrite
             \/ Environment \/ UNCHANGED vars
      PROVE  ProjectionComplete'
  <2>1. step' = step /\ projection' = projection
    BY <1>5 DEF PhasePlan, ScopePlan, DigestChanged, ApplyStops, PlanFails,
                ObservePlan, DirectPlan, ApprovalPlan, DestroyPlan, ApplyFails,
                Interrupt, Overwrite, Environment, Register, Admit, Settle,
                vars, Die, PollAgain, SavePlan
  <2>2. exit' = exit \/ exit' \notin {"running", "capture"}
    BY <1>5 DEF PhasePlan, ScopePlan, DigestChanged, ApplyStops, PlanFails,
                ObservePlan, DirectPlan, ApprovalPlan, DestroyPlan, ApplyFails,
                Interrupt, Overwrite, Environment, Register, Admit, Settle,
                vars, Die, PollAgain, SavePlan
  <2> QED BY <2>1, <2>2 DEF ProjectionComplete, CaptureNeverIncomplete, Running
<1> QED BY <1>1, <1>2, <1>3, <1>4, <1>5
     DEF Next, Script, Failures

(* The gate never lets the lifecycle on with a projection the device        *)
(* mapping cannot be made from, for any number of sites and polls.          *)
THEOREM CaptureComplete == Spec => []CaptureNeverIncomplete
<1>1. Init => ProjectionComplete
  BY DEF Init, ProjectionComplete, CaptureNeverIncomplete
<1>2. ProjectionComplete => CaptureNeverIncomplete
  BY DEF ProjectionComplete
<1> QED BY <1>1, <1>2, Inductive, NextProjection, PTL DEF Spec

------------------------------------------------------------------------------
(* How far an invocation is from its end.  The steps of a build have their  *)
(* turns.  The laps of a full run are the dispatch, the first teardown, the *)
(* first build, its teardown and the second build; other modes make some of *)
(* them.  No loop of the script is outside of StepsLeft.                    *)
Turn(s) ==
  CASE s = "start" -> 0            [] s = "boot_create" -> 1
    [] s = "boot_wait" -> 2        [] s = "boot_approve" -> 3
    [] s = "capture" -> 4          [] s = "retire" -> 5
    [] s = "conf_create" -> 6      [] s = "conf_wait" -> 7
    [] s = "conf_approve" -> 8     [] s = "tgw" -> 9
    [] s = "healthy" -> 10         [] s = "eni_drift" -> 11
    [] s = "eni_observe" -> 12     [] s = "eni_repair" -> 13
    [] s = "eni_verify" -> 14      [] s = "kvm_drift" -> 15
    [] s = "kvm_observe" -> 16     [] s = "kvm_repair" -> 17
    [] s = "kvm_verify" -> 18      [] s = "lan" -> 19
    [] s = "client" -> 20          [] s = "az_build" -> 21
    [] s = "az_bind" -> 22         [] s = "az_approve" -> 23
    [] s = "az_online" -> 24       [] s = "settle" -> 25
    [] s = "final" -> 26           [] s = "forget" -> 27
    [] s = "destroy" -> 28         [] OTHER -> 29

Lap(c, s) ==
  CASE s = "start" -> 0
    [] s \in {"destroy", "absence"} /\ c # "first" -> 1
    [] s \in {"destroy", "absence"} /\ c = "first" -> 3
    [] s \notin {"start", "destroy", "absence"} /\ c = "second" -> 4
    [] OTHER -> 2

Remaining(c, s) == 30 * (4 - Lap(c, s)) + (29 - Turn(s))

(* How often a step may count a try, and the plan, the review and the apply *)
(* of each.                                                                 *)
Attempts(s) ==
  CASE s \in VerifySteps -> 2 [] s = "settle" -> 3 [] OTHER -> MaxPolls

Rounds == 3 * (MaxPolls + 4)

PartsLeft == CASE at = "plan" -> 2 [] at = "scope" -> 1 [] OTHER -> 0

TriesLeft == 3 * (MaxPolls + 3 - tries) + PartsLeft

StepsLeft == Remaining(cycle, step) * Rounds + TriesLeft

(* What the loops count, and the build that is forgotten.                    *)
Counted ==
  Running =>
    /\ tries \in 0..Attempts(step)
    /\ (step \in VerifySteps \cup {"settle"} /\ at # "plan"
          => tries < Attempts(step))
    /\ (step = "forget" => cycle = "first")

(* The ways of a step: on to a later one, another try, the next part of it.  *)
Onward ==
  \E s \in Steps, c \in Cycles :
    /\ GoTo(s, c) /\ Remaining(c, s) < Remaining(cycle, step)
    /\ (s = "forget" => c = "first")

Again ==
  /\ tries' = tries + 1 /\ tries < Attempts(step)
  /\ step' = step /\ cycle' = cycle
  /\ \/ at' = "plan"
     \/ at' = at /\ step \notin VerifySteps \cup {"settle"}

Farther ==
  /\ \/ at = "plan" /\ at' = "scope"
     \/ at = "scope" /\ at' = "apply"
  /\ step' = step /\ cycle' = cycle /\ tries' = tries
  /\ (step \in VerifySteps \cup {"settle"} => tries < Attempts(step))

LEMMA TurnType == ASSUME NEW s PROVE Turn(s) \in 0..29
BY DEF Turn

LEMMA LapType == ASSUME NEW c, NEW s PROVE Lap(c, s) \in 0..4
BY DEF Lap

LEMMA RemainingType == ASSUME NEW c, NEW s PROVE Remaining(c, s) \in 0..149
BY TurnType, LapType DEF Remaining

LEMMA AttemptsType ==
  ASSUME NEW s PROVE Attempts(s) \in 0..(MaxPolls + 3)
BY LifecycleAssumption DEF Attempts

(* Steps that lead to the next one.                                         *)
Advancing == PlanSteps \cup DriftSteps \cup {"capture", "az_online", "client"}

LEMMA Turns ==
  /\ Turn("start") = 0 /\ Turn("boot_create") = 1 /\ Turn("boot_wait") = 2
  /\ Turn("boot_approve") = 3 /\ Turn("capture") = 4 /\ Turn("retire") = 5
  /\ Turn("conf_create") = 6 /\ Turn("conf_wait") = 7
  /\ Turn("conf_approve") = 8 /\ Turn("tgw") = 9 /\ Turn("healthy") = 10
  /\ Turn("eni_drift") = 11 /\ Turn("eni_observe") = 12
  /\ Turn("eni_repair") = 13 /\ Turn("eni_verify") = 14
  /\ Turn("kvm_drift") = 15 /\ Turn("kvm_observe") = 16
  /\ Turn("kvm_repair") = 17 /\ Turn("kvm_verify") = 18 /\ Turn("lan") = 19
  /\ Turn("client") = 20 /\ Turn("az_build") = 21 /\ Turn("az_bind") = 22
  /\ Turn("az_approve") = 23 /\ Turn("az_online") = 24 /\ Turn("settle") = 25
  /\ Turn("final") = 26 /\ Turn("forget") = 27 /\ Turn("destroy") = 28
  /\ Turn("absence") = 29
BY DEF Turn

LEMMA Successors ==
  /\ NextStep("boot_create") = "boot_wait"
  /\ NextStep("boot_approve") = "capture" /\ NextStep("capture") = "retire"
  /\ NextStep("retire") = "conf_create" /\ NextStep("conf_create") = "conf_wait"
  /\ NextStep("conf_approve") = "tgw" /\ NextStep("tgw") = "healthy"
  /\ NextStep("healthy") = "eni_drift" /\ NextStep("eni_drift") = "eni_observe"
  /\ NextStep("eni_observe") = "eni_repair"
  /\ NextStep("eni_repair") = "eni_verify"
  /\ NextStep("eni_verify") = "kvm_drift"
  /\ NextStep("kvm_drift") = "kvm_observe"
  /\ NextStep("kvm_observe") = "kvm_repair"
  /\ NextStep("kvm_repair") = "kvm_verify" /\ NextStep("kvm_verify") = "lan"
  /\ NextStep("lan") = "client" /\ NextStep("client") = "az_build"
  /\ NextStep("az_build") = "az_bind" /\ NextStep("az_bind") = "az_approve"
  /\ NextStep("az_approve") = "az_online" /\ NextStep("az_online") = "settle"
  /\ NextStep("settle") = "final" /\ NextStep("destroy") = "absence"
BY DEF NextStep

LEMMA NextTurn ==
  ASSUME NEW s \in Advancing, NEW c
  PROVE  /\ Turn(s) < Turn(NextStep(s)) /\ Lap(c, NextStep(s)) = Lap(c, s)
         /\ NextStep(s) # "forget"
<1>1. Turn(s) < Turn(NextStep(s))
  <2>1. CASE s \in PhaseSteps
    BY <2>1, Turns, Successors DEF PhaseSteps
  <2>2. CASE s \in VerifySteps \cup ObserveSteps \cup DriftSteps
    BY <2>2, Turns, Successors DEF VerifySteps, ObserveSteps, DriftSteps
  <2>3. CASE s \in AzureSteps
    BY <2>3, Turns, Successors DEF AzureSteps
  <2>4. CASE s \in {"lan", "destroy", "capture", "client"}
    BY <2>4, Turns, Successors
  <2> QED BY <2>1, <2>2, <2>3, <2>4 DEF Advancing, PlanSteps, AzureSteps
<1>2. Lap(c, NextStep(s)) = Lap(c, s) /\ NextStep(s) # "forget"
  BY DEF Advancing, PlanSteps, PhaseSteps, VerifySteps, ObserveSteps,
         DriftSteps, AzureSteps, NextStep, Lap
<1> QED BY <1>1, <1>2

LEMMA AdvanceOnward ==
  ASSUME TypeOK, step \in Advancing, Advance
  PROVE  Onward
<1>1. /\ Turn(step) < Turn(NextStep(step))
      /\ Lap(cycle, NextStep(step)) = Lap(cycle, step)
      /\ NextStep(step) # "forget"
  BY NextTurn
<1>2. Remaining(cycle, NextStep(step)) < Remaining(cycle, step)
  BY <1>1, TurnType, LapType DEF Remaining
<1>3. NextStep(step) \in Steps /\ cycle \in Cycles
  BY NextStepType DEF TypeOK
<1> QED BY <1>1, <1>2, <1>3 DEF Onward, Advance

(* Every step of the script takes one of these ways, or is its last.        *)
LEMMA PollingAgain ==
  ASSUME tries \in Nat, PollAgain, step \notin VerifySteps \cup {"settle"}
  PROVE  exit' # "running" \/ Again
<1>1. CASE tries < MaxPolls
  <2>1. Attempts(step) = MaxPolls
    BY DEF Attempts
  <2> QED BY <1>1, <2>1 DEF PollAgain, Again
<1>2. CASE ~(tries < MaxPolls)
  BY <1>2 DEF PollAgain, Die
<1> QED BY <1>1, <1>2

LEMMA PollSteps ==
  ASSUME TypeOK, Counted, Probe \/ PlanFails \/ ApprovalPlan \/ AzureOnline
  PROVE  exit' # "running" \/ Onward \/ Again \/ Farther
<1> USE DEF TypeOK
<1>1. CASE Probe
  <2>1. \/ exit' # "running" \/ PollAgain
        \/ \E n : GoTo(AfterWait(step, n), cycle)
    BY <1>1 DEF Probe, Die
  <2>2. ASSUME NEW n, GoTo(AfterWait(step, n), cycle) PROVE Onward
    <3>1. step \in {"boot_wait", "conf_wait"} /\ cycle \in Cycles
      BY <1>1 DEF Probe, WaitSteps
    <3>2. AfterWait(step, n) \in Steps
      BY <3>1, NextStepType DEF WaitSteps
    <3>3. /\ AfterWait(step, n)
               \in {"boot_approve", "capture", "conf_approve", "tgw"}
          /\ Turn(step) < Turn(AfterWait(step, n))
      BY <3>1, Turns DEF AfterWait
    <3>4. Lap(cycle, AfterWait(step, n)) = Lap(cycle, step)
      BY <3>1, <3>3 DEF Lap
    <3>5. Remaining(cycle, AfterWait(step, n)) < Remaining(cycle, step)
      BY <3>3, <3>4, TurnType, LapType DEF Remaining
    <3> QED BY <2>2, <3>1, <3>2, <3>3, <3>5 DEF Onward
  <2>3. step \notin VerifySteps \cup {"settle"}
    BY <1>1 DEF Probe, WaitSteps, VerifySteps
  <2> QED BY <2>1, <2>2, <2>3, PollingAgain
<1>2. CASE PlanFails
  <2>1. PollAgain /\ step \notin VerifySteps \cup {"settle"}
    BY <1>2 DEF PlanFails, WaitSteps, VerifySteps
  <2> QED BY <2>1, PollingAgain
<1>3. CASE ApprovalPlan
  <2>1. step = "az_approve" /\ at = "plan"
    BY <1>3 DEF ApprovalPlan
  <2>2. \/ PollAgain
        \/ at' = "scope" /\ step' = step /\ cycle' = cycle /\ tries' = tries
    BY <1>3 DEF ApprovalPlan, SavePlan
  <2>3. step \notin VerifySteps \cup {"settle"}
    BY <2>1 DEF VerifySteps
  <2>4. PollAgain => exit' # "running" \/ Again
    BY <2>3, PollingAgain
  <2>5. CASE at' = "scope" /\ step' = step /\ cycle' = cycle /\ tries' = tries
    BY <2>1, <2>3, <2>5 DEF Farther
  <2> QED BY <2>2, <2>4, <2>5
<1>4. CASE AzureOnline
  <2>1. step = "az_online"
    BY <1>4 DEF AzureOnline
  <2>2. PollAgain \/ Advance
    BY <1>4 DEF AzureOnline
  <2>3. step \notin VerifySteps \cup {"settle"} /\ step \in Advancing
    BY <2>1 DEF VerifySteps, Advancing
  <2> QED BY <2>2, <2>3, PollingAgain, AdvanceOnward
<1> QED BY <1>1, <1>2, <1>3, <1>4

LEMMA ApplyMoves ==
  ASSUME TypeOK, EstateInv, Counted, Apply
  PROVE  exit' # "running" \/ Onward \/ Again
<1>1. step \in PlanSteps /\ at = "apply" /\ Running
  BY DEF EstateInv, PlanIsCurrent, Apply, CanApply
<1>2. CASE step \in VerifySteps \cup {"settle"}
  <2>1. tries' = tries + 1 /\ at' = "plan" /\ step' = step /\ cycle' = cycle
    BY <1>2 DEF Apply, Die, Advance, GoTo, VerifySteps
  <2>2. tries < Attempts(step)
    BY <1>1, <1>2 DEF Counted
  <2> QED BY <2>1, <2>2 DEF Again
<1>3. CASE step \notin VerifySteps \cup {"settle"}
  <2>1. exit' = "destroy" \/ Advance
    BY <1>3 DEF Apply, Die, Advance, GoTo
  <2>2. step \in Advancing
    BY <1>1 DEF Advancing
  <2> QED BY <2>1, <2>2, AdvanceOnward
<1> QED BY <1>2, <1>3

LEMMA DispatchMoves ==
  ASSUME TypeOK, Counted, Start \/ FinalPlan \/ Forget \/ Absence
  PROVE  exit' # "running" \/ Onward
<1> DEFINE To(s, c) == /\ GoTo(s, c) /\ s \in Steps /\ c \in Cycles
                       /\ Remaining(c, s) < Remaining(cycle, step)
                       /\ (s = "forget" => c = "first")
<1>0. ASSUME NEW s, NEW c, To(s, c) PROVE Onward
  BY <1>0 DEF Onward
<1>1. CASE Start
  <2>1. step = "start" /\ Remaining(cycle, step) = 149
    BY <1>1, Turns DEF Start, Remaining, Lap
  <2>2. \/ exit' # "running"
        \/ GoTo("final", "verify") \/ GoTo("destroy", "requested")
        \/ GoTo("boot_create", "build") \/ GoTo("boot_create", "first")
        \/ GoTo("destroy", "initial")
    BY <1>1 DEF Start, Die
  <2>3. /\ Remaining("verify", "final") < 149
        /\ Remaining("requested", "destroy") < 149
        /\ Remaining("build", "boot_create") < 149
        /\ Remaining("first", "boot_create") < 149
        /\ Remaining("initial", "destroy") < 149
    BY Turns DEF Remaining, Lap
  <2>4. /\ {"final", "destroy", "boot_create"} \subseteq Steps
        /\ {"verify", "requested", "build", "first", "initial"} \subseteq Cycles
    BY DEF Steps, OtherSteps, PhaseSteps, Cycles, Builds
  <2> QED BY <1>0, <2>1, <2>2, <2>3, <2>4
<1>2. CASE FinalPlan
  <2>1. step = "final"
    BY <1>2 DEF FinalPlan
  <2>2. \/ exit' # "running"
        \/ cycle = "first" /\ GoTo("forget", cycle)
    BY <1>2 DEF FinalPlan, Die, Pass, GoTo
  <2>3. Remaining("first", "forget") < Remaining("first", "final")
    BY Turns DEF Remaining, Lap
  <2>4. "forget" \in Steps /\ "first" \in Cycles
    BY DEF Steps, OtherSteps, Cycles, Builds
  <2> QED BY <1>0, <2>1, <2>2, <2>3, <2>4
<1>3. CASE Forget
  <2>1. step = "forget" /\ cycle = "first" /\ GoTo("destroy", cycle)
    BY <1>3 DEF Forget, Counted
  <2>2. Remaining("first", "destroy") < Remaining("first", "forget")
    BY Turns DEF Remaining, Lap
  <2>3. "destroy" \in Steps /\ "first" \in Cycles
    BY DEF Steps, OtherSteps, Cycles, Builds
  <2> QED BY <1>0, <2>1, <2>2, <2>3
<1>4. CASE Absence
  <2>1. step = "absence"
    BY <1>4 DEF Absence
  <2>2. \/ exit' # "running"
        \/ cycle = "initial" /\ GoTo("boot_create", "first")
        \/ cycle = "first" /\ GoTo("boot_create", "second")
    BY <1>4 DEF Absence, Die, Pass
  <2>3. /\ Remaining("first", "boot_create") < Remaining("initial", "absence")
        /\ Remaining("second", "boot_create") < Remaining("first", "absence")
    BY Turns DEF Remaining, Lap
  <2>4. "boot_create" \in Steps /\ {"first", "second"} \subseteq Cycles
    BY DEF Steps, PhaseSteps, Cycles, Builds
  <2> QED BY <1>0, <2>1, <2>2, <2>3, <2>4
<1> QED BY <1>1, <1>2, <1>3, <1>4

LEMMA SavesFarther ==
  ASSUME at = "plan", at' = "scope", UNCHANGED <<cycle, step, tries>>,
         step \in VerifySteps \cup {"settle"} => tries < Attempts(step)
  PROVE  Farther
BY DEF Farther

LEMMA PlanMoves ==
  ASSUME TypeOK, Counted,
         PhasePlan \/ ObservePlan \/ DirectPlan \/ DestroyPlan \/ ScopePlan
  PROVE  exit' # "running" \/ Farther
<1>1. CASE ScopePlan
  <2>1. \/ exit' # "running"
        \/ at' = "apply" /\ UNCHANGED <<cycle, step, tries>>
    BY <1>1 DEF ScopePlan, Die
  <2>2. /\ at = "scope"
        /\ (step \in VerifySteps \cup {"settle"} => tries < Attempts(step))
    BY <1>1 DEF ScopePlan, Counted
  <2> QED BY <2>1, <2>2 DEF Farther
<1>2. CASE PhasePlan
  <2>1. \/ exit' # "running"
        \/ at' = "scope" /\ UNCHANGED <<cycle, step, tries>>
    BY <1>2 DEF PhasePlan, Die
  <2>2. at = "plan" /\ step \notin VerifySteps \cup {"settle"}
    BY <1>2 DEF PhasePlan, PhaseSteps, VerifySteps
  <2> QED BY <2>1, <2>2, SavesFarther
<1>3. CASE ObservePlan
  <2>1. \/ exit' # "running"
        \/ at' = "scope" /\ UNCHANGED <<cycle, step, tries>>
    BY <1>3 DEF ObservePlan, Die
  <2>2. at = "plan" /\ step \notin VerifySteps \cup {"settle"}
    BY <1>3 DEF ObservePlan, ObserveSteps, VerifySteps
  <2> QED BY <2>1, <2>2, SavesFarther
<1>4. CASE DirectPlan
  <2>1. at' = "scope" /\ UNCHANGED <<cycle, step, tries>>
    BY <1>4 DEF DirectPlan, SavePlan
  <2>2. at = "plan" /\ step \notin VerifySteps \cup {"settle"}
    BY <1>4 DEF DirectPlan, VerifySteps
  <2> QED BY <2>1, <2>2, SavesFarther
<1>5. CASE DestroyPlan
  <2>1. \/ exit' # "running"
        \/ at' = "scope" /\ UNCHANGED <<cycle, step, tries>>
    BY <1>5 DEF DestroyPlan, SavePlan, Die
  <2>2. at = "plan" /\ step \notin VerifySteps \cup {"settle"}
    BY <1>5 DEF DestroyPlan, VerifySteps
  <2> QED BY <2>1, <2>2, SavesFarther
<1> QED BY <1>1, <1>2, <1>3, <1>4, <1>5

LEMMA LoopMoves ==
  ASSUME TypeOK, Counted, VerifyPlan \/ SettlePlan
  PROVE  exit' # "running" \/ Onward \/ Farther
<1>1. CASE VerifyPlan
  <2>1. \/ exit' # "running"
        \/ Advance
        \/ tries < 2 /\ at' = "scope" /\ UNCHANGED <<cycle, step, tries>>
    BY <1>1 DEF VerifyPlan, Die, Advance, GoTo
  <2>2. at = "plan" /\ step \in VerifySteps
    BY <1>1 DEF VerifyPlan
  <2>3. Attempts(step) = 2 /\ step \in Advancing
    BY <2>2 DEF Attempts, Advancing, PlanSteps, VerifySteps
  <2> QED BY <2>1, <2>2, <2>3, AdvanceOnward, SavesFarther
<1>2. CASE SettlePlan
  <2>1. \/ exit' # "running"
        \/ Advance
        \/ tries # 3 /\ at' = "scope" /\ UNCHANGED <<cycle, step, tries>>
    BY <1>2 DEF SettlePlan, SavePlan, Die, Advance, GoTo
  <2>2. at = "plan" /\ step = "settle" /\ Running
    BY <1>2 DEF SettlePlan
  <2>3. Attempts(step) = 3 /\ step \in Advancing
    BY <2>2 DEF Attempts, VerifySteps, Advancing, PlanSteps, AzureSteps
  <2>4. tries \in 0..3
    BY <2>2, <2>3 DEF Counted
  <2> QED BY <2>1, <2>2, <2>3, <2>4, AdvanceOnward, SavesFarther
<1> QED BY <1>1, <1>2

LEMMA CheckMoves ==
  ASSUME TypeOK,
         \/ Capture \/ InjectDrift \/ ClientCheck
         \/ DigestChanged \/ ApplyStops
  PROVE  exit' # "running" \/ Onward
<1>1. CASE Capture \/ InjectDrift \/ ClientCheck
  <2>1. exit' # "running" \/ Advance
    BY <1>1 DEF Capture, InjectDrift, ClientCheck, Die, Advance, GoTo
  <2>2. step \in Advancing
    BY <1>1 DEF Capture, InjectDrift, ClientCheck, Advancing
  <2> QED BY <2>1, <2>2, AdvanceOnward
<1>2. CASE DigestChanged \/ ApplyStops
  BY <1>2 DEF DigestChanged, ApplyStops, Die
<1> QED BY <1>1, <1>2

LEMMA ScriptMoves ==
  ASSUME TypeOK, EstateInv, Counted, Script
  PROVE  exit' # "running" \/ Onward \/ Again \/ Farther
<1>1. CASE Probe \/ PlanFails \/ ApprovalPlan \/ AzureOnline
  BY <1>1, PollSteps
<1>2. CASE Apply
  BY <1>2, ApplyMoves
<1>3. CASE Start \/ FinalPlan \/ Forget \/ Absence
  BY <1>3, DispatchMoves
<1>4. CASE PhasePlan \/ ObservePlan \/ DirectPlan \/ DestroyPlan \/ ScopePlan
  BY <1>4, PlanMoves
<1>5. CASE VerifyPlan \/ SettlePlan
  BY <1>5, LoopMoves
<1>6. CASE \/ Capture \/ InjectDrift \/ ClientCheck
           \/ DigestChanged \/ ApplyStops
  BY <1>6, CheckMoves
<1> QED BY <1>1, <1>2, <1>3, <1>4, <1>5, <1>6 DEF Script

LEMMA ScriptRuns ==
  ASSUME Script PROVE Running
BY DEF Script, Start, PhasePlan, ScopePlan, DigestChanged, Apply, ApplyStops,
       CanApply, Probe, PlanFails, Capture, VerifyPlan, InjectDrift,
       ObservePlan, DirectPlan, ApprovalPlan, AzureOnline, SettlePlan,
       ClientCheck, FinalPlan, Forget, DestroyPlan, Absence

(* The other steps: the world and other processes leave the script where it *)
(* is, a failure ends the invocation.                                       *)
LEMMA OthersMoves ==
  ASSUME TypeOK, Environment \/ Failures \/ UNCHANGED vars
  PROVE  exit' # "running" \/ UNCHANGED script
<1>1. CASE Environment
  BY <1>1 DEF Environment, Register, Admit, Settle
<1>2. CASE Failures
  BY <1>2 DEF Failures, ApplyFails, Interrupt, Overwrite, Die
<1>3. CASE UNCHANGED vars
  BY <1>3 DEF vars, script
<1> QED BY <1>1, <1>2, <1>3

(* What the loops count is inductive.                                       *)
LEMMA CountedInit ==
  ASSUME Init PROVE Counted
BY LifecycleAssumption DEF Init, Counted, Attempts, VerifySteps

LEMMA CountedStart ==
  ASSUME tries' = 0, at' = "plan", step' = "forget" => cycle' = "first"
  PROVE  Counted'
<1>1. 0 \in 0..Attempts(step')
  BY AttemptsType
<1> QED BY <1>1 DEF Counted, Running

LEMMA CountedStep ==
  ASSUME TypeOK, EstateInv, Counted, [Next]_vars
  PROVE  Counted'
<1>1. CASE exit' # "running"
  BY <1>1 DEF Counted, Running
<1>2. CASE Onward
  <2>1. PICK s \in Steps, c \in Cycles :
          GoTo(s, c) /\ (s = "forget" => c = "first")
    BY <1>2 DEF Onward
  <2> QED BY <2>1, CountedStart DEF GoTo
<1>3. CASE UNCHANGED script
  BY <1>3 DEF Counted, Running, Attempts, script
<1>4. CASE Running /\ Again
  <2>1. tries' \in 0..Attempts(step') /\ step' = step /\ cycle' = cycle
    <3>1. Attempts(step') = Attempts(step)
      BY <1>4 DEF Again
    <3>2. tries \in Nat /\ Attempts(step) \in Nat
      BY AttemptsType DEF TypeOK
    <3> QED BY <1>4, <3>1, <3>2 DEF Again
  <2>2. at' = "plan" \/ step \notin VerifySteps \cup {"settle"}
    BY <1>4 DEF Again
  <2> QED BY <1>4, <2>1, <2>2 DEF Counted, Running
<1>5. CASE Running /\ Farther
  <2>1. UNCHANGED <<step, cycle, tries>>
    BY <1>5 DEF Farther
  <2>2. Attempts(step') = Attempts(step)
    BY <2>1
  <2>3. step \in VerifySteps \cup {"settle"} => tries < Attempts(step)
    BY <1>5 DEF Farther
  <2> QED BY <1>5, <2>1, <2>2, <2>3 DEF Counted, Running
<1>6. CASE Rerun
  <2>1. tries' = 0 /\ at' = "plan" /\ step' = "start"
    BY <1>6 DEF Rerun
  <2> QED BY <2>1, CountedStart
<1>7. CASE Script
  <2>1. Running
    BY <1>7, ScriptRuns
  <2> QED BY <2>1, <1>1, <1>2, <1>4, <1>5, <1>7, ScriptMoves
<1>8. CASE Environment \/ Failures \/ UNCHANGED vars
  BY <1>1, <1>3, <1>8, OthersMoves
<1> QED BY <1>6, <1>7, <1>8 DEF Next

------------------------------------------------------------------------------
(* Less is left after each way.                                             *)
LEMMA RoundsDescend ==
  ASSUME NEW q \in Nat, NEW p \in Nat, q < p, NEW k \in Nat, NEW m \in Nat,
         NEW n \in Nat, m < k
  PROVE  q * k + m < p * k + n
<1>1. q * k \in Nat /\ p * k \in Nat
  OBVIOUS
<1>2. (q + 1) * k = q * k + k
  OBVIOUS
<1>3. (q + 1) * k =< p * k
  OBVIOUS
<1> QED BY <1>1, <1>2, <1>3

LEMMA TriesFit ==
  ASSUME NEW s, NEW t \in 0..Attempts(s), NEW r \in 0..2
  PROVE  3 * (MaxPolls + 3 - t) + r \in 0..(Rounds - 1)
<1>1. Attempts(s) \in 0..(MaxPolls + 3) /\ MaxPolls \in Nat
  BY AttemptsType, LifecycleAssumption
<1>2. t \in 0..(MaxPolls + 3)
  BY <1>1
<1> QED BY <1>1, <1>2 DEF Rounds

LEMMA TriesLeftType ==
  ASSUME Counted, Running
  PROVE  TriesLeft \in 0..(Rounds - 1) /\ PartsLeft \in 0..2
<1>1. PartsLeft \in 0..2
  BY DEF PartsLeft
<1>2. tries \in 0..Attempts(step)
  BY DEF Counted
<1> QED BY <1>1, <1>2, TriesFit DEF TriesLeft

LEMMA TriesLeftAfter ==
  ASSUME Counted', Running'
  PROVE  TriesLeft' \in 0..(Rounds - 1) /\ PartsLeft' \in 0..2
<1>1. PartsLeft' \in 0..2
  BY DEF PartsLeft
<1>2. tries' \in 0..Attempts(step')
  BY DEF Counted
<1> QED BY <1>1, <1>2, TriesFit DEF TriesLeft

LEMMA StepsLeftType ==
  ASSUME TypeOK, Counted, Running
  PROVE  StepsLeft \in 0..(150 * Rounds)
<1>1. Remaining(cycle, step) \in 0..149 /\ TriesLeft \in 0..(Rounds - 1)
  BY RemainingType, TriesLeftType
<1>2. Rounds \in Nat
  BY LifecycleAssumption DEF Rounds
<1>3. Remaining(cycle, step) * Rounds + TriesLeft < 150 * Rounds + 0
  BY <1>1, <1>2, RoundsDescend
<1>4. Remaining(cycle, step) * Rounds \in Nat
  BY <1>1, <1>2
<1> QED BY <1>1, <1>2, <1>3, <1>4 DEF StepsLeft

LEMMA TryTaken ==
  ASSUME NEW n \in Nat, NEW t \in Nat, NEW p \in 0..2, NEW q \in 0..2
  PROVE  3 * (n + 3 - (t + 1)) + q < 3 * (n + 3 - t) + p
<1>1. 3 * (n + 3 - (t + 1)) = 3 * (n + 3 - t) - 3
  OBVIOUS
<1>2. 3 * (n + 3 - t) \in Int
  OBVIOUS
<1> QED BY <1>1, <1>2

LEMMA PartTaken ==
  ASSUME NEW n \in Nat, NEW t \in Nat, NEW p \in 0..2, NEW q \in 0..2, q < p
  PROVE  3 * (n + 3 - t) + q < 3 * (n + 3 - t) + p
<1>1. 3 * (n + 3 - t) \in Int
  OBVIOUS
<1> QED BY <1>1

LEMMA StepsLeftFalls ==
  ASSUME TypeOK, Counted, Running, TypeOK', Counted', Running',
         Onward \/ Again \/ Farther
  PROVE  StepsLeft' < StepsLeft
<1> USE LifecycleAssumption
<1>1. /\ Remaining(cycle, step) \in 0..149 /\ TriesLeft \in 0..(Rounds - 1)
      /\ Remaining(cycle', step') \in 0..149 /\ TriesLeft' \in 0..(Rounds - 1)
      /\ PartsLeft \in 0..2 /\ PartsLeft' \in 0..2 /\ Rounds \in Nat
  BY RemainingType, TriesLeftType, TriesLeftAfter DEF Rounds
<1>2. /\ StepsLeft = Remaining(cycle, step) * Rounds + TriesLeft
      /\ StepsLeft' = Remaining(cycle', step') * Rounds + TriesLeft'
  BY DEF StepsLeft
<1>3. CASE Onward
  <2>1. Remaining(cycle', step') < Remaining(cycle, step)
    BY <1>3 DEF Onward, GoTo
  <2> QED BY <1>1, <1>2, <2>1, RoundsDescend
<1>4. ASSUME step' = step, cycle' = cycle, TriesLeft' < TriesLeft
      PROVE  StepsLeft' < StepsLeft
  <2>1. Remaining(cycle, step) * Rounds \in Nat
    BY <1>1
  <2>2. Remaining(cycle', step') * Rounds = Remaining(cycle, step) * Rounds
    BY <1>4
  <2> QED BY <1>1, <1>2, <1>4, <2>1, <2>2
<1>5. tries \in Nat /\ tries' \in Nat /\ MaxPolls \in Nat
  BY DEF TypeOK
<1>6. CASE Again
  <2>1. TriesLeft' < TriesLeft
    <3>1. tries' = tries + 1
      BY <1>6 DEF Again
    <3>2. TriesLeft = 3 * (MaxPolls + 3 - tries) + PartsLeft
      BY DEF TriesLeft
    <3>3. TriesLeft' = 3 * (MaxPolls + 3 - tries') + PartsLeft'
      BY DEF TriesLeft
    <3>4. PartsLeft \in 0..2 /\ PartsLeft' \in 0..2
      BY <1>1
    <3> QED BY <1>5, <3>1, <3>2, <3>3, <3>4, TryTaken
  <2> QED BY <1>4, <1>6, <2>1 DEF Again
<1>7. CASE Farther
  <2>1. PartsLeft' < PartsLeft /\ tries' = tries
    BY <1>7 DEF Farther, PartsLeft
  <2>2. TriesLeft' < TriesLeft
    <3>2. TriesLeft = 3 * (MaxPolls + 3 - tries) + PartsLeft
      BY DEF TriesLeft
    <3>3. TriesLeft' = 3 * (MaxPolls + 3 - tries') + PartsLeft'
      BY DEF TriesLeft
    <3>4. PartsLeft \in 0..2 /\ PartsLeft' \in 0..2
      BY <1>1
    <3> QED BY <1>5, <2>1, <3>2, <3>3, <3>4, PartTaken
  <2> QED BY <1>4, <1>7, <2>2 DEF Farther
<1> QED BY <1>3, <1>6, <1>7

------------------------------------------------------------------------------
(* An invocation ends.  Each step of the script brings it nearer to its end *)
(* by a measure that nothing else raises: neither the sites and their       *)
(* registrations, nor another process, and a failure ends it at once.       *)
InvocationEnds ==
  /\ Running => StepsLeft \in 0..(150 * Rounds)
  /\ Running /\ Running' => IF Script THEN StepsLeft' < StepsLeft
                                     ELSE StepsLeft' = StepsLeft

THEOREM InvocationsEnd == Spec => [][InvocationEnds]_vars
<1>1. Init => Counted
  BY CountedInit
<1>2. TypeOK /\ EstateInv /\ Counted /\ [Next]_vars => Counted'
  BY CountedStep
<1>3. TypeOK /\ TypeOK' /\ EstateInv /\ Counted /\ Counted' /\ [Next]_vars
        => InvocationEnds
  <2> SUFFICES ASSUME TypeOK, TypeOK', EstateInv, Counted, Counted',
                      [Next]_vars, Running
               PROVE  /\ StepsLeft \in 0..(150 * Rounds)
                      /\ Running' => IF Script THEN StepsLeft' < StepsLeft
                                               ELSE StepsLeft' = StepsLeft
    BY DEF InvocationEnds
  <2>1. StepsLeft \in 0..(150 * Rounds)
    BY StepsLeftType
  <2>2. ASSUME Running', Script PROVE StepsLeft' < StepsLeft
    BY <2>2, ScriptMoves, StepsLeftFalls DEF Running
  <2>3. ASSUME Running', ~Script PROVE StepsLeft' = StepsLeft
    <3>1. ~Rerun
      BY DEF Rerun
    <3>2. UNCHANGED script
      BY <2>3, <3>1, OthersMoves DEF Next, Running
    <3> QED BY <3>2 DEF script, StepsLeft, TriesLeft, PartsLeft
  <2> QED BY <2>1, <2>2, <2>3
<1> QED BY <1>1, <1>2, <1>3, TypeCorrect, EstateInvariant, PTL DEF Spec
=============================================================================
