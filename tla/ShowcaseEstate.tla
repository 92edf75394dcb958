---------------------------- MODULE ShowcaseEstate ----------------------------
(***************************************************************************)
(* What the lifecycle of the showcase promises about the estate, whatever  *)
(* happens to its plans, its sites and itself: how the objects of the      *)
(* three providers may appear and disappear, which tests they must have    *)
(* passed before, and what a passed build and an absence receipt stand     *)
(* for.  It knows no plan, no scope, no digest and no step.                *)
(***************************************************************************)

CONSTANTS
  Objects,    \* everything the deployment may consist of
  Azure,      \* the objects of Azure
  Lan,        \* the objects of the inside VIP on the KVM LAN
  Edges,      \* the Customer Edges
  Complete    \* the objects of a complete deployment

VARIABLES
  held,       \* objects in the Terraform state
  exist,      \* objects in the clouds
  online,     \* Customer Edges admitted to F5 Distributed Cloud
  passed,     \* tests this estate has passed
  phase,      \* what an invocation is doing with it
  certified,  \* a build was completed and verified, and not touched since
  absent      \* an absence receipt holds

vars == <<held, exist, online, passed, phase, certified, absent>>

Hub == Objects \ (Azure \cup Lan)      \* the AWS and KVM deployment
HubEdges == Edges \ Azure

(* The tests, in their order: health, the two repaired drifts, the client.  *)
Gates == {"healthy", "eni_verify", "kvm_verify", "client"}

Earlier(g) ==
  CASE g = "healthy" -> {}
    [] g = "eni_verify" -> {"healthy"}
    [] g = "kvm_verify" -> {"healthy", "eni_verify"}
    [] OTHER -> Gates \ {"client"}

(* What a test is made on.                                                  *)
Tested(g) ==
  IF g = "client" THEN Complete \ Azure ELSE Complete \cap Hub

Certifiable ==
  /\ held = Complete /\ exist = Complete
  /\ passed = Gates /\ Edges \cap Complete \subseteq online

------------------------------------------------------------------------------
Init ==
  /\ held \in {{}, Complete} /\ exist = held /\ online = held \cap Edges
  /\ passed = (IF held = {} THEN {} ELSE Gates)
  /\ phase = "idle" /\ certified = FALSE /\ absent = FALSE

(* An invocation ends early, or the next one begins.                        *)
Stop ==
  /\ phase' = "idle" /\ certified' = FALSE
  /\ UNCHANGED <<held, exist, online, passed, absent>>

(* Only an empty state is built on; an estate is torn down by an invocation *)
(* that begins with it, or once it is certified.                            *)
BeginBuild ==
  /\ phase = "idle" /\ held = {}
  /\ phase' = "building"
  /\ UNCHANGED <<held, exist, online, passed, certified, absent>>

BeginTeardown ==
  /\ phase = "idle" \/ certified
  /\ phase' = "tearing" /\ certified' = FALSE
  /\ UNCHANGED <<held, exist, online, passed, absent>>

(* One apply of a build, complete or not: nothing outside of its lane       *)
(* changes, what the state does not hold is not removed, no site comes      *)
(* ONLINE by it, and no absence outlives what it creates.                   *)
Change(lane) ==
  /\ phase = "building" /\ ~certified
  /\ held' \ lane = held \ lane /\ exist' \ lane = exist \ lane
  /\ exist \ held \subseteq exist'
  /\ online' \subseteq online /\ online \ lane \subseteq online'
  /\ absent' \in {absent, FALSE} /\ (absent' => exist' \subseteq exist)
  /\ phase' \in {"building", "idle"}
  /\ UNCHANGED <<passed, certified>>

(* Untested, the AWS and KVM deployment is put together, with names that    *)
(* are free; tested, it is only added to, the LAN first and Azure last.     *)
Assemble ==
  /\ passed = {} /\ Change(Hub) /\ held' \cap (exist \ held) = {}

Extend ==
  /\ passed = Earlier("client") /\ Change(Lan) /\ held \subseteq held'

Join ==
  /\ passed = Gates /\ Change(Azure) /\ held \subseteq held'

PassGate(g) ==
  /\ phase = "building" /\ passed = Earlier(g)
  /\ held = Tested(g) /\ HubEdges \cap held \subseteq online
  /\ passed' = passed \cup {g}
  /\ UNCHANGED <<held, exist, online, phase, certified, absent>>

Certify ==
  /\ phase \in {"building", "idle"} /\ Certifiable
  /\ certified' = TRUE /\ phase' \in {phase, "idle"}
  /\ UNCHANGED <<held, exist, online, passed, absent>>

(* One apply of a teardown, complete or not.                                *)
Teardown ==
  /\ phase = "tearing"
  /\ held' \subseteq held /\ exist' \subseteq exist
  /\ exist \ held \subseteq exist' /\ online' = online \cap exist'
  /\ passed' = (IF held' = {} THEN {} ELSE passed)
  /\ phase' \in {"tearing", "idle"}
  /\ UNCHANGED <<certified, absent>>

ProveAbsence ==
  /\ phase = "tearing" /\ held = {} /\ exist \cap HubEdges = {}
  /\ absent' = TRUE /\ phase' \in {"building", "idle"}
  /\ UNCHANGED <<held, exist, online, passed, certified>>

(* Customer Edges that exist are admitted.                                  *)
Admit ==
  /\ online \subseteq online' /\ online' \subseteq online \cup (exist \cap Edges)
  /\ UNCHANGED <<held, exist, passed, phase, certified, absent>>

Next ==
  \/ Stop \/ BeginBuild \/ BeginTeardown \/ Assemble \/ Extend \/ Join
  \/ Certify \/ Teardown \/ ProveAbsence \/ Admit
  \/ \E g \in Gates : PassGate(g)

Spec == Init /\ [][Next]_vars

------------------------------------------------------------------------------
(* What follows: the LAN behind the tests of the hub and Azure behind all   *)
(* of them; while it is built, a LAN on nothing less than the whole hub and *)
(* Azure beside nothing less than the whole rest; a certificate for nothing *)
(* but a complete estate as it still is; no Customer Edge of the hub behind *)
(* an absence receipt.  (Those of Azure may be: it proves nothing of them.) *)
Founded ==
  phase = "building" =>
    /\ held \cap Lan # {} => held \cap Hub = Complete \cap Hub
    /\ held \cap Azure # {} => held \ Azure = Complete \ Azure

Promise ==
  /\ held \cap Lan # {} => Earlier("client") \subseteq passed
  /\ held \cap Azure # {} => passed = Gates
  /\ Founded
  /\ certified => Certifiable
  /\ absent => exist \cap HubEdges = {}
=============================================================================
