--------------------------------- MODULE KvmLan ---------------------------------
(***************************************************************************)
(* The staged KVM LAN rollout and its acceptance.  The operator saves a     *)
(* plan, has it reviewed (scripts/showcase-lifecycle.sh --mode             *)
(* kvm-lan-preflight) and applies it, stage by stage; then                 *)
(* scripts/kvm-lan-live-acceptance.py observes source, plan, F5 XC, host,   *)
(* domain, FRR and the LAN client one after the other and reports what it  *)
(* found, while all of these may change.                                   *)
(***************************************************************************)
EXTENDS KvmLanPlan, FiniteSets

CONSTANTS
  Proposals,     \* what an operator may ask for: interfaces, approval, option
  Fragile,       \* checks whose facts may change
  MaxDrifts, MaxPlans, MaxApplies   \* bounds

HostChecks == {"host_bridge", "host_uplink", "uplink_addresses", "management_route"}
VmChecks == {"vm_state", "vm_resources", "vm_nics", "vm_dhcp"}
XcChecks == {"xc_site", "xc_interfaces", "xc_bgp"}
FrrChecks == {"frr_peer", "frr_routes"}
ClientChecks == {"client_dns_vip", "client_http"}
Checks == HostChecks \cup {"host_isolation"} \cup VmChecks \cup XcChecks
            \cup FrrChecks \cup ClientChecks

(* What an acceptance looks at: its checks, the commit checked out, the saved *)
(* plan and the provenance in the state.                                   *)
LiveFacts == Checks \cup {"source", "saved_plan", "provenance"}

(* terraform/kvm.tf gives an enabled LAN its bridge as the second interface; *)
(* the first is the root's own network, or, in a root that was changed, one   *)
(* of somebody else's resources.                                            *)
LanNics == {<<Slo, Sli>>, <<Nic("unknown", "owned", "slo"), Sli>>,
            <<Nic("unknown", "foreign", "slo"), Sli>>}

ASSUME KvmLanAssumption ==
  /\ Proposals \subseteq [nics : Seq(Nics), approved : BOOLEAN,
                          change : {"replace", "update"}]
  /\ \A p \in Proposals : p.approved => p.nics \in LanNics
  /\ Fragile \subseteq Checks
  /\ MaxDrifts \in Nat /\ MaxPlans \in Nat /\ MaxApplies \in Nat

VARIABLES
  head,        \* git: the commit checked out
  domain, lan, \* Terraform state: interfaces of the CE domain, LAN objects
  provenance,  \* Terraform state: commit in the deployment_provenance output
  sound,       \* the world: checks whose facts are as reviewed
  planFile,    \* the saved plan, or NoPlan
  preflight,   \* the preflight receipt, or NoReview
  review,      \* the running preflight: what it took the digest of, or NoReview
  at,          \* the next step of the acceptance
  config,      \* plan digest and commit in its configuration
  good,        \* no check has failed so far
  status,      \* of its receipt, or "none"
  drifts, plans, applies,  \* bounds only
  swap,        \* history: what became of a plan replaced during its preflight
  moved        \* history: facts that changed after the acceptance looked at them

rollout == <<head, domain, lan, provenance, sound, planFile, preflight, review>>
bounds == <<drifts, plans, applies>>
acceptance == <<at, config, good, status>>
kvmVars == <<rollout, acceptance, bounds, swap, moved>>

NoPlan == [stage |-> "none"]
NoReview == [digest |-> NoPlan, stage |-> "none", commit |-> 0]

KvmTypeOK ==
  /\ head \in {1, 2} /\ provenance \in {1, 2} /\ sound \subseteq Checks
  /\ domain \in Seq(Nics) /\ lan \subseteq LanObjects
  /\ planFile \in KvmPlans \cup {NoPlan}
  /\ {preflight, review, config} \subseteq
       [digest : KvmPlans \cup {NoPlan}, stage : Stages \cup {"none"}, commit : 0..2]
  /\ at \in {"idle", "source", "plan", "terraform", "host", "vm", "frr", "client",
             "evaluate", "done"}
  /\ good \in BOOLEAN /\ status \in {"none", "passed", "failed"}
  /\ drifts \in 0..MaxDrifts /\ plans \in 0..MaxPlans /\ applies \in 0..MaxApplies
  /\ swap \in {"none", "swapped", "restored"} /\ moved \subseteq LiveFacts

KvmInit ==
  /\ head = 1 /\ domain = <<Slo>> /\ lan = {} /\ provenance = 1 /\ sound = Checks
  /\ planFile = NoPlan /\ preflight = NoReview /\ review = NoReview
  /\ at = "idle" /\ config = NoReview /\ good = TRUE /\ status = "none"
  /\ drifts = 0 /\ plans = 0 /\ applies = 0 /\ swap = "none" /\ moved = {}

(* The facts whose look is over, and the history of what changed afterwards. *)
Past(points) == at \in points \cup {"evaluate", "done"}
Looked ==
  {f \in LiveFacts : \/ f = "source" /\ at \notin {"idle", "source"}
                     \/ f = "saved_plan" /\ at \notin {"idle", "source", "plan"}
                     \/ f \in XcChecks \cup {"provenance"} /\ Past({"host", "vm", "frr", "client"})
                     \/ f \in HostChecks /\ Past({"vm", "frr", "client"})
                     \/ f \in VmChecks /\ Past({"frr", "client"})
                     \/ f \in FrrChecks /\ Past({"client"})
                     \/ f \in ClientChecks /\ Past({})}
Moves(facts) == moved' = moved \cup (facts \cap Looked)

------------------------------------------------------------------------------
(* The rollout *)

(* A network that was unknown in the plan is the one it is bound to once      *)
(* applied.                                                                *)
Realized(nics) ==
  [i \in DOMAIN nics |->
     IF nics[i].backing = "unknown" THEN Nic("network", nics[i].bound, nics[i].mac)
     ELSE nics[i]]

(* What terraform plan shows: only objects the stage wants exist after it,   *)
(* a domain with other interfaces is created or replaced, or - this libvirt *)
(* provider - updated in place.                                            *)
PlanFor(stage, p) ==
  [stage |-> stage, approved |-> p.approved, commit |-> head, nics |-> p.nics,
   domain |-> IF domain = Realized(p.nics) THEN "none"
              ELSE IF domain = <<>> THEN "create" ELSE p.change,
   lan |-> [o \in LanObjects |->
              IF stage = "configured" /\ o \notin lan THEN "create"
              ELSE IF stage = "hardware" /\ o \in lan THEN "delete" ELSE "none"],
   unrelated |-> FALSE, adopts |-> "owned"]

(* The operator saves a plan, also over one that is being reviewed; it may   *)
(* lack an approval or the -replace option.                                *)
SavePlan ==
  /\ plans < MaxPlans /\ plans' = plans + 1
  /\ \E stage \in Stages, p \in Proposals : planFile' = PlanFor(stage, p)
  /\ swap' =
       IF swap = "none" /\ review # NoReview /\ planFile' # review.digest THEN "swapped"
       ELSE IF swap = "swapped" /\ planFile' \in {review.digest, preflight.digest}
            THEN "restored" ELSE swap
  /\ Moves({"saved_plan"})
  /\ UNCHANGED <<head, domain, lan, provenance, sound, preflight, review, acceptance,
                 drifts, applies>>

(* The preflight: its receipt must not exist, commit and digest must match;  *)
(* only then does terraform show read the file.                            *)
PreflightDigest ==
  /\ review = NoReview /\ preflight = NoReview /\ planFile # NoPlan
  /\ \E stage \in Stages : review' = [digest |-> planFile, stage |-> stage, commit |-> head]
  /\ UNCHANGED <<head, domain, lan, provenance, sound, planFile, preflight, acceptance,
                 bounds, swap, moved>>

HostNetworkMatches == {"host_bridge", "host_uplink"} \subseteq sound

(* Mutant: the approval of the acceptance contract is taken for granted.    *)
PreflightVerdictMutant ==
  /\ review # NoReview
  /\ preflight' =
       IF /\ planFile # NoPlan
          /\ ValidPlan([planFile EXCEPT !.approved = TRUE], review.stage)
          /\ BoundPlan(planFile, review.commit)
          /\ HostNetworkMatches
       THEN review ELSE preflight
  /\ review' = NoReview
  /\ UNCHANGED <<head, domain, lan, provenance, sound, planFile, acceptance, bounds, swap,
                 moved>>

(* A refused review leaves no receipt, an accepted one moves it in place.   *)
PreflightVerdict ==
  /\ review # NoReview
  /\ preflight' =
       IF /\ planFile # NoPlan
          /\ ValidPlan(planFile, review.stage)
          /\ BoundPlan(planFile, review.commit)
          /\ HostNetworkMatches
       THEN review ELSE preflight
  /\ review' = NoReview
  /\ UNCHANGED <<head, domain, lan, provenance, sound, planFile, acceptance, bounds, swap,
                 moved>>

(* The operator applies the plan the receipt names.  An apply may stop after *)
(* some of its changes, also between the two halves of a replaced domain;   *)
(* the load balancer depends on everything else.                           *)
(* The next stage has a plan and a receipt of its own.                      *)
ApplyReviewed ==
  /\ preflight # NoReview /\ planFile = preflight.digest
  /\ applies < MaxApplies /\ applies' = applies + 1
  /\ LET creates == {o \in LanObjects : planFile.lan[o] = "create"}
         replaced == Realized(planFile.nics)
     IN \E made \in SUBSET creates, to \in {domain, <<>>, replaced} :
          /\ "load_balancer" \in made => made = creates
          /\ planFile.domain = "none" => to = domain
          /\ domain' = to
          /\ lan' = (lan \ {o \in LanObjects : planFile.lan[o] = "delete"}) \cup made
          /\ provenance' =
               IF made = creates /\ (planFile.domain # "none" => to = replaced)
               THEN planFile.commit ELSE provenance
  /\ \/ planFile.stage = "hardware" /\ planFile' = NoPlan /\ preflight' = NoReview
     \/ planFile.stage = "configured" /\ UNCHANGED <<planFile, preflight>>
  /\ Moves({"saved_plan", "provenance", "vm_nics", "xc_site", "xc_interfaces"} \cup ClientChecks)
  /\ UNCHANGED <<head, review, swap, sound, acceptance, drifts, plans>>

(* The reviewed worktree moves on; a fact of the world changes.             *)
HeadMoves ==
  /\ head = 1 /\ head' = 2
  /\ drifts < MaxDrifts /\ drifts' = drifts + 1
  /\ Moves({"source"})
  /\ UNCHANGED <<domain, lan, provenance, sound, planFile, preflight, review, acceptance,
                 plans, applies, swap>>

FactMoves ==
  /\ drifts < MaxDrifts /\ drifts' = drifts + 1
  /\ \E c \in Fragile :
       /\ sound' = IF c \in sound THEN sound \ {c} ELSE sound \cup {c}
       /\ Moves({c})
  /\ UNCHANGED <<head, domain, lan, provenance, planFile, preflight, review, acceptance,
                 plans, applies, swap>>

------------------------------------------------------------------------------
(* The acceptance *)

LanComplete == lan = LanObjects /\ domain = <<Slo, Sli>>

(* The checks of evaluate() that hold for what is observed now.  Two network *)
(* interfaces in this order are vm_nics; F5 XC and the client need the LAN  *)
(* objects.                                                                *)
Holding ==
  {c \in sound : /\ c = "vm_nics" => domain = <<Slo, Sli>>
                 /\ c \in {"xc_site", "xc_interfaces"} \cup ClientChecks => LanComplete}

Observes(here, there, holds) ==
  /\ at = here /\ at' = there
  /\ good' = (good /\ holds)
  /\ UNCHANGED <<rollout, bounds, swap, moved, config, status>>

(* The configuration names a plan and a commit: those of the preflight        *)
(* receipt, or those that lie there now.  Without a receipt it only fails.   *)
AcceptanceStarts ==
  /\ at = "idle" /\ at' = "source"
  /\ preflight # NoReview
  /\ \E plan \in {planFile, preflight.digest}, commit \in {head, preflight.commit} :
       config' = [digest |-> plan, stage |-> "configured", commit |-> commit]
  /\ UNCHANGED <<rollout, bounds, swap, moved, good, status>>

SourceIdentity == Observes("source", "plan", head = config.commit)

SavedPlan ==
  /\ planFile # NoPlan /\ preflight # NoReview
  /\ Observes("plan", "terraform",
              /\ planFile = config.digest
              /\ preflight.digest = config.digest
              /\ preflight.commit = config.commit
              /\ preflight.stage = "configured")

(* The refresh-enabled plan of the full root, which also tells what F5 XC    *)
(* reports; another identity in the state replaces the observed source.     *)
TerraformObservation ==
  Observes("terraform", "host",
           LanComplete /\ XcChecks \subseteq Holding /\ provenance = config.commit)

(* A failed virsh or ps yields no bridge and no DHCP interface, so that the  *)
(* isolation of the bridge holds unseen.                                   *)
NetworkInventory ==
  \E unseen \in {{}, {"host_isolation"}} :
    Observes("host", "vm",
             (HostChecks \cup {"host_isolation"}) \ unseen \subseteq Holding)

VmObservation == Observes("vm", "frr", VmChecks \subseteq Holding)

(* Mutant: the routes are not checked.                                     *)
FrrObservationMutant == Observes("frr", "client", TRUE)

FrrObservation == Observes("frr", "client", FrrChecks \subseteq Holding)

ClientObservation == Observes("client", "evaluate", ClientChecks \subseteq Holding)

Evaluate ==
  /\ at = "evaluate" /\ at' = "done"
  /\ status' = IF good THEN "passed" ELSE "failed"
  /\ UNCHANGED <<rollout, bounds, swap, moved, config, good>>

(* Anything raised while collecting, a missing file included, means a        *)
(* failure receipt.                                                        *)
CollectionFails ==
  /\ at \notin {"idle", "done"} /\ at' = "done"
  /\ status' = "failed"
  /\ UNCHANGED <<rollout, bounds, swap, moved, config, good>>

CollectVerification ==
  \/ AcceptanceStarts \/ SourceIdentity \/ SavedPlan \/ TerraformObservation
  \/ NetworkInventory \/ VmObservation \/ FrrObservation \/ ClientObservation
  \/ Evaluate \/ CollectionFails

KvmNext ==
  \/ SavePlan \/ PreflightDigest \/ PreflightVerdict \/ ApplyReviewed \/ HeadMoves
  \/ FactMoves \/ CollectVerification

KvmSpec == KvmInit /\ [][KvmNext]_kvmVars

------------------------------------------------------------------------------
(* Properties *)

(* A passed receipt names a plan the reviewer accepted for the configured    *)
(* stage and the very commit that was planned.  Replacing the plan between   *)
(* the preflight's digest and its terraform show does not help: the receipt  *)
(* then binds a plan that is no longer there.  Only putting that plan back   *)
(* afterwards does.                                                        *)
PassedReviewed ==
  status = "passed" /\ swap # "restored" =>
    ValidPlan(config.digest, "configured") /\ config.digest.commit = config.commit

(* Whatever moves before, between and after the looks of an acceptance: what  *)
(* its passed receipt says holds, but for facts that changed after their own *)
(* look and the isolation of the bridge, which a failed virsh or ps leaves   *)
(* unseen.                                                                 *)
Standing ==
  {f \in LiveFacts : /\ f \in Checks => f \in Holding
                     /\ f = "source" => head = config.commit
                     /\ f = "saved_plan" => planFile = config.digest
                     /\ f = "provenance" => provenance = config.commit}
PassedObserved ==
  status = "passed" => LiveFacts \ ({"host_isolation"} \cup moved) \subseteq Standing

(* LAN objects exist only beside a domain whose first interface is the SLO   *)
(* and whose second the bridged SLI, whatever half-done applies left: the   *)
(* configured stage never touches the domain, the hardware stage nothing    *)
(* else.                                                                   *)
LanBehindHardware == lan # {} /\ swap # "restored" => domain = <<Slo, Sli>>
=============================================================================
