---------------------------- MODULE ShowcaseBuild ----------------------------
(***************************************************************************)
(* What a build knows between two of its steps: the estate every step of   *)
(* scripts/showcase-lifecycle.sh finds, the registrations it may rely on   *)
(* and the plan it is about to apply.  BuildInv is the inductive invariant *)
(* behind the stops and the passes of ShowcaseLifecycle.                   *)
(***************************************************************************)
EXTENDS ShowcaseLifecycle

AwsKvmSites == AwsSites \cup {KvmSite}
AwsKvmAddresses == AwsAddresses \cup KvmAddresses
AzureSiteAddresses == {Site(s) : s \in AzureSites}

(* A build, as opposed to a destroy or to a verification of what exists.    *)
Building ==
  Running /\ cycle # "verify" /\ step \notin {"start", "destroy", "absence"}

------------------------------------------------------------------------------
(* The estate a step wants once every site is admitted, and the estate the  *)
(* steps before it have left.                                               *)
AllOnline == [s \in Sites |-> "ONLINE"]
Target(s) == Wanted(StepConfig(s), AllOnline)

AzureBegun == {"az_bind", "az_approve", "az_online", "settle", "final",
               "forget"}

Left(s) ==
  CASE s = "boot_create" -> NoEstate
    [] s \in {"boot_wait", "boot_approve", "capture", "retire"} ->
         Target("boot_create")
    [] s = "conf_create" -> Target("retire")
    [] s \in {"conf_wait", "conf_approve", "tgw"} -> Target("conf_create")
    [] s \in {"client", "az_build"} -> Target("lan")
    [] s = "az_bind" -> Target("az_build")
    [] s = "az_approve" -> Target("az_bind")
    [] s \in AzureBegun \ {"az_bind", "az_approve"} -> Converged
    [] OTHER -> Target("tgw")

(* Objects that live with a drift: the one a drift step has just injected,  *)
(* and Azure sites that F5 XC may have labelled.                            *)
Injected(s) ==
  CASE s \in {"eni_observe", "eni_repair"} -> {AwsNetwork}
    [] s \in {"kvm_observe", "kvm_repair"} -> {Site(KvmSite)}
    [] OTHER -> {}

Labelling == {"az_bind", "az_approve", "az_online", "settle"}
Labels(s) == IF s \in Labelling THEN AzureSiteAddresses ELSE {}

Live(s, a) == IF a \in Injected(s) THEN "drifted" ELSE Left(s)[a]

(* Sites the step may rely on.                                              *)
OnlineBy(s) ==
  CASE s \in {"boot_create", "boot_wait", "boot_approve"} -> {}
    [] s \in {"conf_create", "conf_wait", "conf_approve", "tgw"} -> {KvmSite}
    [] s \in {"settle", "final", "forget"} -> Sites
    [] OTHER -> AwsKvmSites

------------------------------------------------------------------------------
(* The estate, the registrations and the outputs.                           *)

(* AWS and KVM are what the earlier steps left, the approvals of the last   *)
(* gate aside, which stay in the state until the transit gateway is added.  *)
AwsKvmAsLeft ==
  Building =>
    \A a \in AwsKvmAddresses :
      /\ Left(step)[a] # "absent" =>
           cloud[a] = Live(step, a) /\ state[a] \in {Left(step)[a], cloud[a]}
      /\ Left(step)[a] = "absent" /\ ~(step = "tgw" /\ a \in Approvals) =>
           state[a] = "absent"

(* So is Azure, unless a plan was overwritten while it was being built.     *)
AzureAsLeft ==
  Building /\ (step \in AzureBegun => overwrites = 0) =>
    \A a \in AzureAddresses :
      \/ state[a] = Left(step)[a]
           /\ (Left(step)[a] # "absent" => cloud[a] = Left(step)[a])
      \/ a \in Labels(step) /\ {state[a], cloud[a]} \subseteq
                                 {Left(step)[a], "drifted"}

OnlineSoFar == Building => \A s \in OnlineBy(step) : reg[s] = "ONLINE"

(* An approval step begins with a registration that waits; the one of the   *)
(* bootstrap phase gets no further than its preflight.                      *)
ApprovalPending ==
  Running =>
    /\ step = "boot_approve" => at = "plan"
    /\ step \in {"boot_approve", "conf_approve"} /\ at = "plan" =>
         \E s \in AwsKvmSites : reg[s] = "NEW"

BeforeHealthy == {"boot_create", "boot_wait", "boot_approve", "capture",
                  "retire", "conf_create", "conf_wait", "conf_approve", "tgw",
                  "healthy"}

(* While it is built, the estate has passed exactly the tests before the    *)
(* step, each of them in its turn.                                          *)
GatesBefore(s) ==
  CASE s \in BeforeHealthy -> {}
    [] s \in {"eni_drift", "eni_observe", "eni_repair", "eni_verify"} ->
         {"healthy"}
    [] s \in {"kvm_drift", "kvm_observe", "kvm_repair", "kvm_verify"} ->
         {"healthy", "eni_verify"}
    [] s \in {"lan", "client"} -> Gates \ {"client"}
    [] OTHER -> Gates

GatesPassed ==
  Building /\ (step = "boot_create" => at # "plan") =>
    done \cap Gates = GatesBefore(step)

(* The AWS and KVM sites of an estate that was found healthy stay ONLINE.   *)
HealthyMeansOnline ==
  "healthy" \in done =>
    \A s \in AwsKvmSites : state[Site(s)] # "absent" => reg[s] = "ONLINE"

(* The clouds hold what the state says, or a drifted version of it; outside *)
(* of it only what a failed apply left, never an approval.                  *)
StateFollows == \A a \in Held(state) : cloud[a] \in {state[a], "drifted"}

StraysKnown ==
  /\ Held(cloud) \cap Approvals \subseteq Held(state)
  /\ ~Orphans \/ faults = 0 => Held(cloud) = Held(state)

(* A build stores outputs that have settled.                                *)
OutputsFollow ==
  /\ Building /\ step # "boot_create" => shown \subseteq real
  /\ faults = 0 => shown \subseteq real \/ state # Converged

------------------------------------------------------------------------------
(* The plan under review.                                                   *)
Reviewed == IF step \in PhaseSteps THEN receipt ELSE plan

(* It describes the objects as they still are, labels aside.                *)
PlanFollows ==
  Running /\ at # "plan" =>
    \A p \in {plan, Reviewed} : \A a \in Held(state) :
      \/ cloud[a] = p.before[a]
      \/ a \in AzureSiteAddresses /\ cloud[a] = "drifted"

(* It leads to the target of its step and approves registrations that wait. *)
(* A plan written over the one of an Azure step is not known to.            *)
OwnPlan ==
  \/ step \in PhaseSteps \/ overwrites = 0
  \/ step = "lan" /\ ~plan.cfg.azure

Aimed ==
  Building /\ at # "plan" /\ OwnPlan
      /\ step \in PhaseSteps \cup AzureSteps \cup {"lan"} =>
    \A a \in Addresses :
      \/ Reviewed.after[a] = Target(step)[a]
      \/ \E s \in AwsKvmSites : a = Approval(s) /\ reg[s] = "NEW"

(* No name it creates is taken.                                             *)
NamesFree ==
  Running /\ at # "plan" /\ step \in PhaseSteps => Colliding(receipt, cloud) = {}

(* Nobody replaced it, and the scope will permit it.                        *)
PlanKept ==
  Running /\ at # "plan" /\ overwrites = 0
    /\ (at = "apply" \/ step \in PhaseSteps) => plan = Digest

Acceptable ==
  Running /\ at = "scope" /\ overwrites = 0 =>
    \/ ScopePermits(StepScope(step, plan), plan)
    \/ step # "destroy" /\ plan.outs # {} /\ plan.outs \subseteq real \ shown
    \/ step = "destroy" /\ state = NoEstate

------------------------------------------------------------------------------
(* The modes and the way through a destroy.                                 *)
CyclesKnown ==
  Running =>
    /\ cycle = "verify" => step = "final" /\ mode = "verify"
    /\ cycle = "requested" => mode = "destroy"
    /\ step = "forget" => cycle = "first"
    /\ step \in {"destroy", "absence"} =>
         cycle \in {"requested", "initial", "first"}
    /\ mode = "destroy" =>
         \/ step = "start"
         \/ step \in {"destroy", "absence"} /\ cycle = "requested"

(* A build that passed is destroyed as a whole before the second one.       *)
FirstDestroyed ==
  Running /\ cycle = "first" =>
    /\ step \in {"forget", "destroy"} => Held(cloud) = Held(state)
    /\ step = "absence" => Held(cloud) = {}

(* Reasons of a scope stop that stay true while the sites go on.            *)
ScopeStopsKept ==
  Undisturbed /\ exit = "scope" =>
    \/ real \ shown # {} \/ legacy \/ (step = "destroy" /\ state = NoEstate)
    \/ mode = "verify" /\ (state # Converged \/ cloud # state)

------------------------------------------------------------------------------
(* The estate is what the steps left, the plan under review leads from it   *)
(* to the target of its step, and every stop and every pass has its reason. *)
BuildInv ==
  /\ EstateInv /\ GatesPassed
  /\ AwsKvmAsLeft /\ AzureAsLeft /\ OnlineSoFar /\ ApprovalPending
  /\ HealthyMeansOnline /\ StateFollows /\ StraysKnown /\ OutputsFollow
  /\ PlanFollows /\ Aimed /\ NamesFree /\ PlanKept /\ Acceptable
  /\ CyclesKnown /\ FirstDestroyed /\ SecondBuildFromNothing
  /\ PassedMeansConverged /\ GateNeverRefuses /\ DestroyNeverRefused
  /\ PreflightStopsExplained /\ ScopeStopsKept

------------------------------------------------------------------------------
(* The estate as ShowcaseEstate sees it.                                    *)
HeldObjects == Held(state)
LiveObjects == Held(cloud)
OnlineEdges == {Site(s) : s \in {t \in Sites : reg[t] = "ONLINE"}}
PassedGates == IF state = NoEstate THEN {} ELSE done \cap Gates

Phase ==
  CASE ~Running \/ step = "start" \/ cycle = "verify" -> "idle"
    [] Running /\ step \in {"destroy", "absence"} -> "tearing"
    [] OTHER -> "building"

Certified ==
  \/ exit = "passed" /\ mode # "destroy"
  \/ Running /\ step = "forget"

Estate == INSTANCE ShowcaseEstate WITH
  Objects <- Addresses, Azure <- AzureAddresses, Lan <- {KvmLan},
  Edges <- {Site(s) : s \in Sites}, Complete <- Held(Converged),
  held <- HeldObjects, exist <- LiveObjects, online <- OnlineEdges,
  passed <- PassedGates, phase <- Phase, certified <- Certified

(* Every run of the script, its faults, replaced plans and reruns included, *)
(* is a behaviour of that estate: objects come and go only in the order and *)
(* under the conditions it allows (build_cycle, destroy_all and             *)
(* verify_absence of scripts/showcase-lifecycle.sh).                        *)
EstateKept == Estate!Spec
=============================================================================
