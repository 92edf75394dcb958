------------------------------- MODULE KvmLanPlan -------------------------------
(***************************************************************************)
(* scripts/kvm-lan-plan-scope.py: the verdict on one full-root saved plan   *)
(* of the staged KVM LAN rollout.  A plan is what terraform show -json      *)
(* tells of it: the reviewed variables, the actions, and the network        *)
(* interfaces the CE domain will have.                                     *)
(***************************************************************************)
EXTENDS Naturals, Sequences

Interface == "interface"           \* the adopted SLI runtime interface
Application == {"virtual_site", "origin_pool", "load_balancer"}
LanObjects == Application \cup {Interface}

(* A network interface: its backing, "unknown" if only the apply will tell   *)
(* the network; the network an unknown one is bound to; its MAC address.    *)
Nic(backing, bound, mac) == [backing |-> backing, bound |-> bound, mac |-> mac]
Nics ==
  [backing : {"network", "unknown", "bridge"}, bound : {"owned", "foreign", "none"},
   mac : {"slo", "sli"}]
Slo == Nic("network", "owned", "slo")
Sli == Nic("bridge", "none", "sli")

Stages == {"hardware", "configured"}
Actions == {"none", "create", "update", "replace", "delete"}
KvmPlans ==
  [stage : Stages, approved : BOOLEAN, commit : Nat, domain : Actions,
   lan : [LanObjects -> Actions], unrelated : BOOLEAN, nics : Seq(Nics),
   adopts : {"owned", "foreign"}]

(* kvm_lan is enabled, in the reviewed stage, complete and approved.        *)
LanContract(p, stage) == p.stage = stage /\ p.approved

(* The addresses with an action other than no-op and read.                  *)
ActiveChanges(p) ==
  {o \in LanObjects : p.lan[o] # "none"}
    \cup (IF p.domain = "none" THEN {} ELSE {"domain"})
    \cup (IF p.unrelated THEN {"unrelated"} ELSE {})

(* An unknown first network is the owned one if the configuration refers to  *)
(* nothing else.                                                           *)
OwnedUnknownSlo(p) ==
  p.nics[1].backing = "unknown" /\ p.nics[1].bound = "owned"

HardwarePlan(p) ==
  /\ ActiveChanges(p) = {"domain"}
  /\ p.domain \in {"create", "replace"}
  /\ Len(p.nics) = 2
  /\ p.nics[1].backing = "network" \/ OwnedUnknownSlo(p)
  /\ p.nics[2].backing = "bridge"
  /\ p.nics[2].mac # p.nics[1].mac

(* Mutant: other changes are allowed beside the LAN objects.               *)
ConfiguredPlanMutant(p) ==
  /\ LanObjects \subseteq ActiveChanges(p)
  /\ p.lan[Interface] = "create"
  /\ p.adopts = "owned"
  /\ \A o \in Application : p.lan[o] = "create"

ConfiguredPlan(p) ==
  /\ ActiveChanges(p) = LanObjects
  /\ p.lan[Interface] = "create"
  /\ p.adopts = "owned"
  /\ \A o \in Application : p.lan[o] = "create"

ValidPlan(p, stage) ==
  /\ LanContract(p, stage)
  /\ stage = "hardware" => HardwarePlan(p)
  /\ stage = "configured" => ConfiguredPlan(p)

(* What the saved plan must say of its source, against the arguments.       *)
BoundPlan(p, commit) == p.commit = commit
=============================================================================
