--------------------------- MODULE ShowcaseLifecycle ---------------------------
(***************************************************************************)
(* scripts/showcase-lifecycle.sh: one operator builds, verifies, drifts,   *)
(* repairs and destroys the whole showcase through saved Terraform plans   *)
(* that are reviewed before they are applied, while Customer Edges boot    *)
(* and register on their own, plan files may be overwritten, and the       *)
(* script may be killed anywhere and started again.                        *)
(***************************************************************************)
EXTENDS ShowcaseRoot

CONSTANTS
  NoPlan,         \* no saved plan file, no receipt
  Admissions,     \* states a new registration may start in
  MaxPolls,       \* polls of a wait loop before its deadline
  MaxRuns,        \* invocations of the script
  MaxFaults,      \* interrupted steps and failed applies
  MaxOverwrites,  \* plan files replaced under the script
  Orphans         \* a failed apply may leave an object outside the state

ASSUME LifecycleAssumption ==
  /\ NoPlan \notin Plans
  /\ Admissions \subseteq {"NEW", "ONLINE"} /\ Admissions # {}
  /\ MaxPolls \in Nat /\ MaxRuns \in Nat /\ MaxFaults \in Nat
  /\ MaxOverwrites \in Nat /\ Orphans \in BOOLEAN

VARIABLES
  (* the running script *)
  mode,       \* --mode
  cycle,      \* the cycle argument of the current function
  step,       \* the function, or the part of it, being executed
  at,         \* "plan", "scope" or "apply" within a step
  tries,      \* polls or attempts of the current loop
  exit,       \* "running", "passed", or why the script died
  (* files of the private root *)
  plan,       \* PLAN_FILE
  receipt,    \* plan-receipt.json and summary.json of a phase plan
  scoped,     \* showcase-plan-receipt.json
  used,       \* cycles whose first evidence directory is not empty
  projection, \* AWS sites in aws-registration-projection.json
  mapped,     \* cycles with an aws-device-mapping.json
  captured,   \* Azure addresses named in latest-destroy-us-*.json
  (* the Terraform backend *)
  state,      \* resources
  shown,      \* status outputs stored with their settled value
  named,      \* the output xc_site_names holds the Azure sites
  legacy,     \* written by a provider whose plans no longer decode
  (* AWS, Azure, libvirt and F5 Distributed Cloud *)
  cloud,      \* resources
  reg,        \* registrations
  real,       \* status outputs whose value has settled
  (* history and bounds *)
  done,       \* steps completed for the estate in the state
  absent,     \* an absence receipt was written and nothing created since
  runs, faults, overwrites

script  == <<mode, cycle, step, at, tries, exit>>
files   == <<plan, receipt, scoped>>
private == <<used, projection, mapped, captured>>
backend == <<state, shown, named, legacy>>
world   == <<cloud, reg, real>>
history == <<done, absent>>
bounds  == <<runs, faults, overwrites>>
vars == <<script, files, private, backend, world, history, bounds>>

------------------------------------------------------------------------------
(* Steps, in the order of build_cycle.                                      *)
PhaseSteps == {"boot_create", "boot_approve", "retire", "conf_create",
               "conf_approve", "tgw", "eni_repair", "kvm_repair"}
WaitSteps == {"boot_wait", "conf_wait"}
VerifySteps == {"healthy", "eni_verify", "kvm_verify"}
DriftSteps == {"eni_drift", "kvm_drift"}
ObserveSteps == {"eni_observe", "kvm_observe"}
AzureSteps == {"az_build", "az_bind", "az_approve", "az_online", "settle"}
OtherSteps == {"start", "capture", "lan", "client", "final", "forget",
               "destroy", "absence"}
Steps == PhaseSteps \cup WaitSteps \cup VerifySteps \cup DriftSteps
           \cup ObserveSteps \cup AzureSteps \cup OtherSteps

Builds == {"build", "first", "second"}
Cycles == Builds \cup {"none", "verify", "requested", "initial"}
Modes == {"full", "build", "verify", "destroy"}
Exits == {"running", "passed", "fault", "not_empty", "no_mapping", "reuse",
          "preflight", "scope", "digest", "apply", "gate", "deadline",
          "capture", "settle", "kvm_status", "drift", "azure_uat", "decode",
          "destroy", "absence"}

AwsPhase(s) ==
  CASE s \in {"boot_create", "boot_wait", "boot_approve", "destroy"} ->
         "bootstrap"
    [] s = "retire" -> "bootstrap_retirement"
    [] OTHER -> "configured"

(* The -var arguments of the plan each step saves; the tfvars of a complete *)
(* deployment enable everything that a step does not disable.               *)
(* Mutant: the probe of the configured phase leaves TGW Connect enabled.     *)
StepConfigMutant(s) ==
  LET awsKvm == PhaseSteps \cup WaitSteps \cup VerifySteps \cup ObserveSteps
  IN  [aws |-> AwsPhase(s),
       tgw |-> s \notin {"boot_wait", "boot_create", "boot_approve", "retire",
                        "conf_create", "conf_approve", "destroy"},
       azure |-> s \notin awsKvm \cup {"lan"},
       azphase |-> IF s \in {"az_build", "destroy"} THEN "bootstrap"
                                                   ELSE "configured",
       approve |-> s # "az_bind",
       lan |-> CASE s \in awsKvm -> "hardware"
                 [] s = "destroy" -> "disabled"
                 [] OTHER -> "configured"]

StepConfig(s) ==
  LET awsKvm == PhaseSteps \cup WaitSteps \cup VerifySteps \cup ObserveSteps
  IN  [aws |-> AwsPhase(s),
       tgw |-> s \notin WaitSteps \cup {"boot_create", "boot_approve", "retire",
                                        "conf_create", "conf_approve",
                                        "destroy"},
       azure |-> s \notin awsKvm \cup {"lan"},
       azphase |-> IF s \in {"az_build", "destroy"} THEN "bootstrap"
                                                   ELSE "configured",
       approve |-> s # "az_bind",
       lan |-> CASE s \in awsKvm -> "hardware"
                 [] s = "destroy" -> "disabled"
                 [] OTHER -> "configured"]

(* The scope a saved plan of the step must satisfy.                         *)
StepScope(s, p) ==
  CASE s \in PhaseSteps -> "aws-kvm-build"
    [] s \in VerifySteps ->
         IF p.outs = {"kvm_runtime_status"} THEN "kvm-status-output-refresh"
                                            ELSE "aws-status-output-refresh"
    [] s \in ObserveSteps -> "refresh-only"
    [] s = "lan" -> "kvm-configured"
    [] s = "az_build" -> "azure-build"
    [] s = "az_bind" -> "azure-bindings"
    [] s = "az_approve" -> "azure-approvals"
    [] s = "settle" -> "azure-converge"
    [] OTHER -> "full-destroy"

(* The object a drift is injected into.                                     *)
DriftTarget(s) ==
  IF s \in {"eni_drift", "eni_observe"} THEN AwsNetwork ELSE Site(KvmSite)

(* The step after a completed one; the wait loops choose between approving  *)
(* and going on.                                                            *)
NextStep(s) ==
  CASE s = "boot_create" -> "boot_wait"
    [] s = "boot_approve" -> "capture"
    [] s = "capture" -> "retire"
    [] s = "retire" -> "conf_create"
    [] s = "conf_create" -> "conf_wait"
    [] s = "conf_approve" -> "tgw"
    [] s = "tgw" -> "healthy"
    [] s = "healthy" -> "eni_drift"
    [] s = "eni_drift" -> "eni_observe"
    [] s = "eni_observe" -> "eni_repair"
    [] s = "eni_repair" -> "eni_verify"
    [] s = "eni_verify" -> "kvm_drift"
    [] s = "kvm_drift" -> "kvm_observe"
    [] s = "kvm_observe" -> "kvm_repair"
    [] s = "kvm_repair" -> "kvm_verify"
    [] s = "kvm_verify" -> "lan"
    [] s = "lan" -> "client"
    [] s = "client" -> "az_build"
    [] s = "az_build" -> "az_bind"
    [] s = "az_bind" -> "az_approve"
    [] s = "az_approve" -> "az_online"
    [] s = "az_online" -> "settle"
    [] s = "settle" -> "final"
    [] s = "destroy" -> "absence"
    [] OTHER -> s

AfterWait(s, approvals) ==
  CASE s = "boot_wait" -> IF approvals > 0 THEN "boot_approve" ELSE "capture"
    [] OTHER -> IF approvals > 0 THEN "conf_approve" ELSE "tgw"

------------------------------------------------------------------------------
(* Ways a step ends.                                                        *)
Running == exit = "running"

Die(reason) ==
  /\ exit' = reason
  /\ UNCHANGED <<mode, cycle, step, at, tries>>

GoTo(s, c) ==
  /\ step' = s /\ cycle' = c /\ at' = "plan" /\ tries' = 0
  /\ UNCHANGED <<mode, exit>>

Advance == GoTo(NextStep(step), cycle)

(* rm -f of the plan file; the next step has a directory of its own.        *)
NoFiles == plan' = NoPlan /\ receipt' = NoPlan /\ scoped' = NoPlan

(* One more poll of a wait loop, or its deadline.                           *)
(* Mutant: a poll is not counted.                                           *)
PollAgainMutant ==
  IF tries < MaxPolls
    THEN UNCHANGED <<mode, cycle, step, at, tries, exit>>
    ELSE Die("deadline")

PollAgain ==
  IF tries < MaxPolls
    THEN tries' = tries + 1 /\ UNCHANGED <<mode, cycle, step, at, exit>>
    ELSE Die("deadline")

Outs == (real \ shown) \cup (shown \ real)
Planned(s) == PlanFor(StepConfig(s), state, cloud, reg, Outs)

------------------------------------------------------------------------------
(* The dispatch on --mode.  Mutant: build does not ask for an empty state.  *)
StartMutant ==
  /\ Running /\ step = "start"
  /\ CASE mode = "verify" ->
            IF "second" \in mapped THEN GoTo("final", "verify")
                                   ELSE Die("no_mapping")
       [] mode = "destroy" -> GoTo("destroy", "requested")
       [] mode = "build" -> GoTo("boot_create", "build")
       [] OTHER ->
            IF state = NoEstate THEN GoTo("boot_create", "first")
                                ELSE GoTo("destroy", "initial")
  /\ UNCHANGED <<files, private, backend, world, history, bounds>>

Start ==
  /\ Running /\ step = "start"
  /\ CASE mode = "verify" ->
            IF "second" \in mapped THEN GoTo("final", "verify")
                                   ELSE Die("no_mapping")
       [] mode = "destroy" -> GoTo("destroy", "requested")
       [] mode = "build" ->
            IF state = NoEstate THEN GoTo("boot_create", "build")
                                ELSE Die("not_empty")
       [] OTHER ->
            IF state = NoEstate THEN GoTo("boot_create", "first")
                                ELSE GoTo("destroy", "initial")
  /\ UNCHANGED <<files, private, backend, world, history, bounds>>

(* run_phase, its saved plan: terraform plan and the preflight of it.  The  *)
(* digest is compared after the preflight, so nothing can come between.     *)
PhasePlan ==
  /\ Running /\ step \in PhaseSteps /\ at = "plan"
  /\ IF step = "boot_create" /\ cycle \in used
       THEN Die("reuse") /\ UNCHANGED <<files, used, done>>
       ELSE /\ used' = used \cup {cycle}
            /\ done' = IF step = "boot_create" THEN {} ELSE done
            /\ IF Preflight(AwsPhase(step), Planned(step), cloud)
                 THEN /\ plan' = Planned(step) /\ receipt' = Planned(step)
                      /\ at' = "scope"
                      /\ UNCHANGED <<scoped, mode, cycle, step, tries, exit>>
                 ELSE Die("preflight") /\ UNCHANGED files
  /\ UNCHANGED <<projection, mapped, captured, backend, world, absent, bounds>>

(* scope_plan: review the plan file as it is now.                           *)
ScopePlan ==
  /\ Running /\ at = "scope"
  /\ IF ScopePermits(StepScope(step, plan), plan)
       THEN /\ scoped' = plan /\ at' = "apply"
            /\ UNCHANGED <<mode, cycle, step, tries, exit>>
       ELSE Die("scope") /\ UNCHANGED scoped
  /\ UNCHANGED <<plan, receipt, private, backend, world, history, bounds>>

(* The digest compared right before terraform apply: a phase plan with the  *)
(* receipt of its preflight, any other plan with the receipt of its scope.  *)
(* Mutant: the file is compared with itself.                                *)
DigestMutant == plan

Digest == IF step \in PhaseSteps THEN receipt ELSE scoped

DigestChanged ==
  /\ Running /\ at = "apply" /\ plan # Digest
  /\ Die("digest")
  /\ UNCHANGED <<files, private, backend, world, history, bounds>>

(* Status outputs that start over: the KVM counts when its domain or peer   *)
(* changes, the AWS upgrade when a site is created or deleted.              *)
Unsettled(p, part) ==
  (IF part \cap {Site(KvmSite), KvmBgp} # {} THEN {"kvm_runtime_status"}
                                             ELSE {})
    \cup (IF \E s \in AwsSites :
                 Site(s) \in part /\ Action(p, Site(s)) # "update"
            THEN {"aws_site_upgrade_status"} ELSE {})

(* terraform apply of the plan p that completes the changes in `part`; the  *)
(* objects in `orphan` exist but did not reach the state.                   *)
Applied(p, part, orphan) ==
  /\ state' = StateAfter(p, part)
  /\ cloud' = CloudAfter(p, part \cup orphan, cloud)
  /\ reg' = RegAfter(p, part, reg)
  /\ real' = real \ Unsettled(p, part)
  /\ absent' = (absent /\ \A a \in part \cup orphan : p.after[a] = "absent")

CanApply == Running /\ at = "apply" /\ plan = Digest

(* An apply goes through when the sites it waits for come ONLINE and no name *)
(* it creates is taken.                                                      *)
Taken(p) == Colliding(p, cloud)

AwaitedOnline(p) == \A s \in AwaitedSites(p) : reg[s] = "ONLINE"

(* The step after an apply: the verify and settle loops plan again, a       *)
(* complete destroy leaves an empty state.                                  *)
Apply ==
  /\ CanApply /\ AwaitedOnline(plan) /\ Taken(plan) = {}
  /\ Applied(plan, Changes(plan), {})
  /\ shown' = real'
  /\ named' = (step # "destroy" /\ plan.cfg.azure)
  /\ legacy' = (legacy /\ step # "destroy")
  /\ CASE step \in VerifySteps \cup {"settle"} ->
            /\ tries' = tries + 1 /\ at' = "plan"
            /\ UNCHANGED <<mode, cycle, step, exit, done>>
       [] step = "destroy" /\ state' # NoEstate ->
            Die("destroy") /\ UNCHANGED done
       [] OTHER -> Advance /\ done' = done \cup {step}
  /\ NoFiles
  /\ UNCHANGED <<private, bounds>>

(* An output of configured names is stored by an apply that fails as well;  *)
(* a destroy that fails may have removed it.                                *)
NamedAfterFailure ==
  named' \in IF step = "destroy" THEN {named, FALSE} ELSE {plan.cfg.azure}

(* An apply that stops half way.  Of the subsets of the changes that may be *)
(* complete by then, none, one and all but one stand for all.               *)
FailedParts(p) ==
  {{}} \cup {{a} : a \in Changes(p)} \cup {Changes(p) \ {a} : a \in Changes(p)}

Orphaned(p, part) ==
  {{}} \cup IF Orphans THEN {{a} : a \in Created(p) \ (part \cup Approvals)}
                       ELSE {}

ApplyFails ==
  /\ CanApply /\ faults < MaxFaults
  /\ faults' = faults + 1
  /\ \E part \in FailedParts(plan) :
       \E orphan \in Orphaned(plan, part) : Applied(plan, part, orphan)
  /\ NamedAfterFailure
  /\ Die("apply")
  /\ UNCHANGED <<files, private, shown, legacy, done, runs, overwrites>>

(* A site the apply waits for does not come ONLINE in time, or a name it    *)
(* creates is taken.                                                        *)
ApplyStops ==
  /\ CanApply
  /\ ~AwaitedOnline(plan) \/ Taken(plan) # {}
  /\ Applied(plan, Changes(plan) \ (Taken(plan) \cup {AwsTgw, KvmBgp}), {})
  /\ NamedAfterFailure
  /\ Die("apply")
  /\ UNCHANGED <<files, private, shown, legacy, done, bounds>>

------------------------------------------------------------------------------
(* wait_for_approvals: a probe plan that is reviewed and never applied.     *)
Probe ==
  /\ Running /\ step \in WaitSteps
  /\ LET p == Planned(step)
         aws == Cardinality(AwsSites)
         kvm == IF step = "boot_wait" THEN 1 ELSE 0
     IN  CASE GateError(p, aws, kvm) ->
                Die("gate") /\ UNCHANGED <<projection, done>>
           [] ~GateError(p, aws, kvm) /\ GateReady(p, aws, kvm) ->
                /\ projection' = IF step = "boot_wait"
                                   THEN {s \in AwsSites : reg[s] # "none"}
                                   ELSE projection
                /\ done' = done \cup {step}
                /\ GoTo(AfterWait(step, ApprovalCount(p)), cycle)
           [] OTHER -> PollAgain /\ UNCHANGED <<projection, done>>
  /\ UNCHANGED <<files, used, mapped, captured, backend, world, absent, bounds>>

(* A plan of a wait loop that fails counts as a poll.                       *)
PlanFails ==
  /\ Running /\ at = "plan" /\ step \in WaitSteps \cup {"az_bind", "az_approve"}
  /\ PollAgain
  /\ UNCHANGED <<files, private, backend, world, history, bounds>>

(* capture_bootstrap_mapping_inputs: the mapping joins the ENIs of every    *)
(* AWS site with the registrations of the reviewed projection, one to one.  *)
Capture ==
  /\ Running /\ step = "capture"
  /\ IF projection = AwsSites
       THEN /\ mapped' = mapped \cup {cycle} /\ done' = done \cup {step}
            /\ Advance
       ELSE Die("capture") /\ UNCHANGED <<mapped, done>>
  /\ UNCHANGED <<files, used, projection, captured, backend, world, absent,
                 bounds>>

(* verify_configured: up to three plans, of which the first two may refresh *)
(* a status output; the last one must change nothing and find KVM healthy.  *)
VerifyPlan ==
  /\ Running /\ step \in VerifySteps /\ at = "plan"
  /\ LET p == Planned(step)
     IN  CASE ~Preflight("configured", p, cloud) ->
                Die("preflight") /\ UNCHANGED <<files, done>>
           [] Preflight("configured", p, cloud) /\ AwsKvmZero(p) ->
                /\ IF "kvm_runtime_status" \in shown
                     THEN Advance /\ done' = done \cup {step}
                     ELSE Die("kvm_status") /\ UNCHANGED done
                /\ UNCHANGED files
           [] OTHER ->
                /\ IF tries < 2
                     THEN /\ plan' = p /\ receipt' = p /\ at' = "scope"
                          /\ UNCHANGED <<scoped, mode, cycle, step, tries,
                                         exit>>
                     ELSE Die("settle") /\ UNCHANGED files
                /\ UNCHANGED done
  /\ UNCHANGED <<private, backend, world, absent, bounds>>

(* create-tags on the ENI the state names, virsh autostart --disable on a   *)
(* domain that has autostart.                                               *)
InjectDrift ==
  /\ Running /\ step \in DriftSteps
  /\ IF \/ state[DriftTarget(step)] = "absent"
        \/ step = "kvm_drift" /\ cloud[Site(KvmSite)] # "present"
       THEN Die("drift") /\ UNCHANGED <<cloud, done>>
       ELSE /\ cloud' = [cloud EXCEPT ![DriftTarget(step)] = "drifted"]
            /\ done' = done \cup {step}
            /\ Advance
  /\ UNCHANGED <<files, private, backend, reg, real, absent, bounds>>

(* observe_refresh_only_drift, its checks before the scope.                 *)
ObservePlan ==
  /\ Running /\ step \in ObserveSteps /\ at = "plan"
  /\ LET p == RefreshPlanFor(StepConfig(step), state, cloud, reg, Outs)
     IN  IF p.drift = {DriftTarget(step)}
           THEN /\ plan' = p /\ at' = "scope"
                /\ UNCHANGED <<receipt, scoped, mode, cycle, step, tries, exit>>
           ELSE Die("drift") /\ UNCHANGED files
  /\ UNCHANGED <<private, backend, world, history, bounds>>

(* build_cycle and the Azure functions: save a plan and go on to review it. *)
SavePlan(p) ==
  /\ plan' = p /\ at' = "scope"
  /\ UNCHANGED <<receipt, scoped, mode, cycle, step, tries, exit>>

DirectPlan ==
  /\ Running /\ step \in {"lan", "az_build", "az_bind"} /\ at = "plan"
  /\ SavePlan(Planned(step))
  /\ UNCHANGED <<private, backend, world, history, bounds>>

(* wait_for_azure_approvals: every approval in one plan, or another poll.   *)
ApprovalPlan ==
  /\ Running /\ step = "az_approve" /\ at = "plan"
  /\ IF AzureApprovalCreates(Planned(step)) = {Approval(s) : s \in AzureSites}
       THEN SavePlan(Planned(step))
       ELSE PollAgain /\ UNCHANGED files
  /\ UNCHANGED <<private, backend, world, history, bounds>>

(* wait_for_azure_online: the sites are asked in F5 XC, not in the state.   *)
(* Mutant: the wait is skipped.                                             *)
AzureOnlineMutant ==
  /\ Running /\ step = "az_online"
  /\ Advance /\ done' = done \cup {step}
  /\ UNCHANGED <<files, private, backend, world, absent, bounds>>

AzureOnline ==
  /\ Running /\ step = "az_online"
  /\ IF \A s \in AzureSites : reg[s] = "ONLINE"
       THEN Advance /\ done' = done \cup {step}
       ELSE PollAgain /\ UNCHANGED done
  /\ UNCHANGED <<files, private, backend, world, absent, bounds>>

(* settle_azure: up to three plans are applied; the next must be empty.     *)
SettlePlan ==
  /\ Running /\ step = "settle" /\ at = "plan"
  /\ LET p == Planned(step)
     IN  CASE Changes(p) = {} ->
                /\ IF ZeroChange(p) THEN Advance /\ done' = done \cup {step}
                                    ELSE Die("scope") /\ UNCHANGED done
                /\ UNCHANGED files
           [] Changes(p) # {} /\ tries = 3 ->
                Die("settle") /\ UNCHANGED <<files, done>>
           [] OTHER -> SavePlan(p) /\ UNCHANGED done
  /\ UNCHANGED <<private, backend, world, absent, bounds>>

(* verify-kvm-lan-client.py; its failure is an interrupted step.            *)
ClientCheck ==
  /\ Running /\ step = "client"
  /\ done' = done \cup {step}
  /\ Advance
  /\ UNCHANGED <<files, private, backend, world, absent, bounds>>

Pass ==
  /\ exit' = "passed"
  /\ UNCHANGED <<mode, cycle, step, at, tries>>

(* verify_final: verify-deployment.sh wants an empty evidence directory and  *)
(* every Azure site ONLINE; then a plan must change nothing.                 *)
(* Mutant: the sites are counted, not asked for their state.                *)
AzureVerifiedMutant == \A s \in AzureSites : state[Site(s)] # "absent"

AzureVerified ==
  \A s \in AzureSites : state[Site(s)] # "absent" /\ reg[s] = "ONLINE"

FinalPlan ==
  /\ Running /\ step = "final"
  /\ LET unused == cycle \notin used \/ cycle # "verify"
         zero == ~legacy /\ ZeroChange(Planned(step))
     IN  CASE ~unused -> Die("reuse") /\ UNCHANGED done
           [] unused /\ ~AzureVerified -> Die("azure_uat") /\ UNCHANGED done
           [] unused /\ AzureVerified /\ ~zero -> Die("scope") /\ UNCHANGED done
           [] OTHER -> /\ done' = done \cup {step}
                       /\ IF cycle = "first" THEN GoTo("forget", cycle)
                                             ELSE Pass
  /\ used' = used \cup {cycle}
  /\ UNCHANGED <<files, projection, mapped, captured, backend, world, absent,
                 bounds>>

(* rm -f of the mapping artifacts between the two builds of a full run.     *)
(* Mutant: the teardown between the builds is forgotten.                    *)
ForgetMutant ==
  /\ Running /\ step = "forget"
  /\ mapped' = mapped \ {cycle} /\ projection' = {}
  /\ GoTo("boot_create", "second")
  /\ UNCHANGED <<files, used, captured, backend, world, history, bounds>>

Forget ==
  /\ Running /\ step = "forget"
  /\ mapped' = mapped \ {cycle} /\ projection' = {}
  /\ GoTo("destroy", cycle)
  /\ UNCHANGED <<files, used, captured, backend, world, history, bounds>>

(* Whether a destroy insists on a KVM site.  Mutant: a requested one does.  *)
RequireKvmMutant(c) == c # "initial"

RequireKvm(c) == c = "first"

(* destroy_all up to its review: remember the Azure names in the outputs    *)
(* for the absence proof, save the destroy plan and decode it.  The name of *)
(* the resource group is an output of the resource itself.                  *)
DestroyPlan ==
  /\ Running /\ step = "destroy" /\ at = "plan"
  /\ captured' = (IF named THEN {Site(s) : s \in AzureSites} ELSE {})
                   \cup ({AzureHub} \cap Held(state))
  /\ LET p == DestroyPlanFor(StepConfig(step), state, cloud, reg)
     IN  CASE legacy /\ RequireKvm(cycle) -> Die("decode") /\ UNCHANGED files
           [] RequireKvm(cycle) /\ ~legacy /\ Site(KvmSite) \notin Deleted(p) ->
                Die("destroy") /\ UNCHANGED files
           [] OTHER -> SavePlan(p)
  /\ UNCHANGED <<used, projection, mapped, backend, world, history, bounds>>

(* verify_absence: F5 XC by name for AWS and KVM, by the captured names for *)
(* Azure; AWS by instances; Azure by the captured resource group.           *)
(* Mutant: the KVM site is not asked for.                                   *)
QueriedMutant == {Site(s) : s \in AwsSites} \cup captured

Queried == {Site(s) : s \in AwsSites \cup {KvmSite}} \cup captured

Absence ==
  /\ Running /\ step = "absence"
  /\ IF \E a \in Queried : cloud[a] # "absent"
       THEN Die("absence") /\ UNCHANGED absent
       ELSE /\ absent' = TRUE
            /\ CASE cycle = "initial" -> GoTo("boot_create", "first")
                 [] cycle = "first" -> GoTo("boot_create", "second")
                 [] OTHER -> Pass
  /\ UNCHANGED <<files, private, backend, world, done, bounds>>

------------------------------------------------------------------------------
(* Customer Edges register once they have booted and come ONLINE once they  *)
(* are approved.  F5 XC writes the labels of an Azure site when it admits   *)
(* it, which Terraform then reads back as a drift.                          *)
Labelled(s, r) ==
  IF s \in AzureSites /\ r = "ONLINE"
    THEN {cloud, [cloud EXCEPT ![Site(s)] = "drifted"]} ELSE {cloud}

Register(s) ==
  /\ cloud[Site(s)] # "absent" /\ reg[s] = "none"
  /\ \E r \in Admissions :
       /\ reg' = [reg EXCEPT ![s] = r]
       /\ cloud' \in Labelled(s, r)
  /\ UNCHANGED <<script, files, private, backend, real, history, bounds>>

Admit(s) ==
  /\ reg[s] = "APPROVED"
  /\ reg' = [reg EXCEPT ![s] = "ONLINE"]
  /\ cloud' \in Labelled(s, "ONLINE")
  /\ UNCHANGED <<script, files, private, backend, real, history, bounds>>

(* A status output reaches its final value.                                 *)
Settle(o) ==
  /\ o \notin real
  /\ CASE o = "kvm_runtime_status" ->
            cloud[KvmBgp] = "present" /\ reg[KvmSite] = "ONLINE"
       [] OTHER ->
            \A s \in AwsSites : cloud[Site(s)] = "final" /\ reg[s] = "ONLINE"
  /\ real' = real \cup {o}
  /\ UNCHANGED <<script, files, private, backend, cloud, reg, history, bounds>>

(* Another process writes a plan of its own over the saved plan file.       *)
Overwrite ==
  /\ Running /\ plan # NoPlan /\ overwrites < MaxOverwrites
  /\ overwrites' = overwrites + 1
  /\ plan' \in {Planned("final"),
                DestroyPlanFor(StepConfig("destroy"), state, cloud, reg)}
              \ {plan}
  /\ UNCHANGED <<script, receipt, scoped, private, backend, world, history,
                 runs, faults>>

(* The script is killed, or one of its external checks fails.               *)
Interrupt ==
  /\ Running /\ faults < MaxFaults
  /\ faults' = faults + 1
  /\ Die("fault")
  /\ UNCHANGED <<files, private, backend, world, history, runs, overwrites>>

(* The operator runs the script again, in the same private root or in an    *)
(* empty one.                                                               *)
Rerun ==
  /\ ~Running /\ runs < MaxRuns
  /\ runs' = runs + 1
  /\ mode' \in Modes
  /\ cycle' = "none" /\ step' = "start" /\ at' = "plan" /\ tries' = 0
  /\ exit' = "running"
  /\ NoFiles
  /\ \/ UNCHANGED private
     \/ used' = {} /\ projection' = {} /\ mapped' = {} /\ captured' = {}
  /\ UNCHANGED <<backend, world, history, faults, overwrites>>

------------------------------------------------------------------------------
(* A first run meets nothing at all, the deployment a passed full run left  *)
(* (in whose private root it may run), or one of an older provider.         *)
Converged == Wanted(StepConfig("final"), [s \in Sites |-> "ONLINE"])

Init ==
  /\ mode \in Modes /\ cycle = "none" /\ step = "start" /\ at = "plan"
  /\ tries = 0 /\ exit = "running"
  /\ plan = NoPlan /\ receipt = NoPlan /\ scoped = NoPlan
  /\ used = {} /\ projection = {} /\ captured = {}
  /\ absent = FALSE /\ runs = 1 /\ faults = 0 /\ overwrites = 0
  /\ \/ /\ state = NoEstate /\ reg = [s \in Sites |-> "none"]
        /\ shown = {} /\ mapped = {} /\ done = {}
        /\ named = FALSE /\ legacy = FALSE
     \/ /\ state = Converged /\ reg = [s \in Sites |-> "ONLINE"]
        /\ shown = Outputs /\ done = Steps
        /\ named = TRUE /\ legacy \in BOOLEAN
        /\ mapped \in {{}, {"second"}}
  /\ cloud = state /\ real = shown

Script ==
  \/ Start \/ PhasePlan \/ ScopePlan \/ DigestChanged \/ Apply
  \/ ApplyStops \/ Probe \/ PlanFails \/ Capture \/ VerifyPlan
  \/ InjectDrift \/ ObservePlan \/ DirectPlan \/ ApprovalPlan \/ AzureOnline
  \/ SettlePlan \/ ClientCheck \/ FinalPlan \/ Forget \/ DestroyPlan \/ Absence

Environment ==
  \/ \E s \in Sites : Register(s) \/ Admit(s)
  \/ \E o \in Outputs : Settle(o)

Failures == ApplyFails \/ Interrupt \/ Overwrite

Next == Script \/ Environment \/ Failures \/ Rerun

Spec == Init /\ [][Next]_vars

(* The script is one process that does not sleep forever: it takes its next *)
(* step.  Nothing is assumed of the Customer Edges or of the operator.      *)
FairSpec == Spec /\ WF_vars(Script)

------------------------------------------------------------------------------
(* Type invariant: what each variable of the script, its files, the backend *)
(* and the clouds may hold.                                                 *)
PlanFiles == Plans \cup {NoPlan}

TypeOK ==
  /\ mode \in Modes /\ cycle \in Cycles /\ step \in Steps
  /\ at \in {"plan", "scope", "apply"}
  /\ tries \in Nat /\ exit \in Exits
  /\ plan \in PlanFiles /\ receipt \in PlanFiles /\ scoped \in PlanFiles
  /\ used \subseteq Cycles /\ mapped \subseteq Cycles
  /\ projection \subseteq AwsSites /\ captured \subseteq AzureAddresses
  /\ state \in Estates /\ cloud \in Estates
  /\ shown \subseteq Outputs /\ real \subseteq Outputs
  /\ named \in BOOLEAN /\ legacy \in BOOLEAN /\ absent \in BOOLEAN
  /\ reg \in [Sites -> RegStates]
  /\ done \subseteq Steps
  /\ runs \in Nat /\ faults \in Nat /\ overwrites \in Nat

------------------------------------------------------------------------------
(* No Azure object is managed unless the AWS and KVM deployment it joins    *)
(* was found healthy, both managed drifts were repaired and the LAN client  *)
(* reached the inside VIP, for this very estate and not an earlier one.     *)
Gates == {"healthy", "eni_verify", "kvm_verify", "client"}

AzureAfterGates ==
  (\E a \in AzureAddresses : state[a] # "absent") => Gates \subseteq done

(* Why AzureAfterGates and Contained hold.  The plan under review describes *)
(* the objects in the state; what is about to be applied was reviewed for   *)
(* this step; a build starts from an empty state and its steps keep their   *)
(* order.                                                                   *)
PlanSteps == PhaseSteps \cup VerifySteps \cup ObserveSteps
               \cup (AzureSteps \ {"az_online"}) \cup {"lan", "destroy"}

PlanIsCurrent ==
  Running /\ at # "plan" =>
    /\ step \in PlanSteps
    /\ plan # NoPlan /\ Held(plan.before) = Held(state)

PhaseReviewed ==
  Running /\ at # "plan" /\ step \in PhaseSteps =>
    /\ receipt # NoPlan
    /\ Changes(receipt) \subseteq AwsAddresses \cup KvmAddresses

ScopeReviewed ==
  Running /\ at = "apply" /\ step \notin PhaseSteps =>
    scoped # NoPlan /\ ScopePermits(StepScope(step, scoped), scoped)

CloudCovers ==
  /\ Held(state) \subseteq Held(cloud)
  /\ \A s \in Sites : reg[s] # "none" => Site(s) \in Held(cloud)

StartsEmpty ==
  Running /\ step \in {"boot_create", "absence"} => state = NoEstate

StepsAfter(s) ==
  CASE s = "client" -> AzureSteps
    [] s = "kvm_verify" -> AzureSteps \cup {"lan", "client"}
    [] s = "eni_verify" -> AzureSteps \cup {"lan", "client", "kvm_drift",
                             "kvm_observe", "kvm_repair", "kvm_verify"}
    [] OTHER -> AzureSteps \cup {"lan", "client", "kvm_drift", "kvm_observe",
                  "kvm_repair", "kvm_verify", "eni_drift", "eni_observe",
                  "eni_repair", "eni_verify"}

GatesInOrder == \A g \in Gates : step \in StepsAfter(g) => g \in done

EstateInv ==
  /\ PlanIsCurrent /\ PhaseReviewed /\ ScopeReviewed
  /\ CloudCovers /\ StartsEmpty /\ GatesInOrder /\ AzureAfterGates

(* A build that passed left what the configuration wants, with every site   *)
(* ONLINE, both injected drifts gone and nothing outside the state.         *)
PassedMeansConverged ==
  exit = "passed" /\ mode # "destroy" =>
    /\ state = Converged /\ cloud = state
    /\ \A s \in Sites : reg[s] = "ONLINE"

(* The registration gate never lets the lifecycle on with a projection the  *)
(* device mapping cannot be made from.                                      *)
CaptureNeverIncomplete == exit # "capture"

(* The gate never refuses the lifecycle's own probe plan.                   *)
GateNeverRefuses == exit # "gate"

(* An undisturbed lifecycle writes plans its own scope review accepts: only *)
(* a status output that settles at the wrong moment, a destroy of nothing,  *)
(* an estate that no longer decodes and the verification of an estate that  *)
(* is not converged stop there.                                             *)
Undisturbed == faults = 0 /\ overwrites = 0

ScopeStopsExplained ==
  Undisturbed /\ exit = "scope" =>
    \/ Outs # {} \/ legacy \/ (step = "destroy" /\ state = NoEstate)
    \/ mode = "verify" /\ (state # Converged \/ cloud # state)

(* The preflight stops only an approval that some registration waits for:   *)
(* every plan of sites that are admitted on their own passes it.            *)
PreflightStopsExplained ==
  Undisturbed /\ exit = "preflight" =>
    \E s \in AwsSites \cup {KvmSite} : reg[s] = "NEW"

(* The approvals the registration gate asked for pass the preflight.        *)
ApprovalPhaseAccepted ==
  exit = "preflight" => step \notin {"boot_approve", "conf_approve"}

(* A status output that settles is refreshed, not refused.                  *)
StatusRefreshAccepted == exit = "scope" => step \notin VerifySteps

(* Whatever was interrupted before, a destroy that is not disturbed itself  *)
(* is never refused: only an empty state has nothing to destroy, only a     *)
(* plan written over its own is not applied, and only what an apply left    *)
(* outside the state keeps the absence from being proven.                   *)
DestroyNeverRefused ==
  mode = "destroy" =>
    \/ exit \in {"running", "passed", "fault", "apply"}
    \/ exit = "scope" /\ state = NoEstate
    \/ exit \in {"scope", "digest"} /\ overwrites > 0
    \/ exit = "absence" /\ Orphans

(* Behind an absence receipt no AWS or KVM Customer Edge is left, not even  *)
(* one that a failed apply created without recording it in the state.       *)
AbsenceHonest ==
  absent => \A s \in AwsSites \cup {KvmSite} : cloud[Site(s)] = "absent"

(* The absence receipt also says xc_sites_absent and                        *)
(* azure_resource_groups_absent; the Azure names, however, are asked of the *)
(* state that the destroy is about to empty.                                *)
AzureAbsenceHonest ==
  absent => /\ \A s \in AzureSites : cloud[Site(s)] = "absent"
            /\ cloud[AzureHub] = "absent"

(* The second build of a full run starts from proven absence.               *)
SecondBuildFromNothing ==
  step = "boot_create" /\ cycle = "second" /\ at = "plan" /\ Running =>
    absent /\ state = NoEstate /\ Held(cloud) = {}

(* Names taken outside the state are found before a phase apply, not by it. *)
CollisionFoundFirst ==
  CanApply /\ step \in PhaseSteps => Taken(plan) = {}

(* Whatever is written over a saved plan, every step creates and deletes    *)
(* only what belongs to it, in the state and in the clouds.                 *)
MayCreate(s) ==
  CASE s \in PhaseSteps -> AwsAddresses \cup KvmAddresses
    [] s = "lan" -> KvmAddresses
    [] s \in AzureSteps -> AzureAddresses
    [] OTHER -> {}

MayDelete(s) ==
  CASE s \in PhaseSteps -> AwsAddresses \cup KvmAddresses
    [] s = "lan" -> KvmAddresses
    [] s = "destroy" -> Addresses
    [] OTHER -> {}

StepContained ==
  \A estates \in {<<state, state'>>, <<cloud, cloud'>>} :
    /\ Held(estates[2]) \ Held(estates[1]) \subseteq MayCreate(step)
    /\ Held(estates[1]) \ Held(estates[2]) \subseteq MayDelete(step)

Contained == [][StepContained]_vars

(* Every invocation of the script ends, whatever the Customer Edges do.     *)
Terminates == (exit = "running") ~> (exit # "running")

(* When Customer Edges and status outputs are always faster than the script *)
(* and nothing fails, every mode does its work, or had nothing to do it on. *)
CoopNext == IF ENABLED Environment THEN Environment ELSE Script /\ ~PlanFails

CoopSpec == Init /\ [][CoopNext]_vars /\ WF_vars(CoopNext)

NothingToDo ==
  \/ exit \in {"not_empty", "no_mapping"}
  \/ exit = "scope" /\ (legacy \/ state = NoEstate)

CoopPasses == <>(exit = "passed" \/ NothingToDo)
=============================================================================
