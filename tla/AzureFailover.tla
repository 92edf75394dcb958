------------------------------ MODULE AzureFailover ------------------------------
(***************************************************************************)
(* scripts/verify-azure-failover.sh beside the estate it drills: it stops   *)
(* one Customer Edge, then one router, waits until routing has noticed,     *)
(* sends traffic, starts the machine again and waits until it is back.  An  *)
(* EXIT trap starts the machine of the present stage.                      *)
(***************************************************************************)
EXTENDS Naturals, FiniteSets

CONSTANTS
  Ces,        \* Customer Edges, numbered in the order of their names
  MaxDrills   \* bound: invocations, one after the other

ASSUME FailoverAssumption ==
  Ces \subseteq Nat \ {0} /\ IsFiniteSet(Ces) /\ Ces # {} /\ MaxDrills \in Nat

VARIABLES
  running,    \* Azure: virtual machines that run
  sessions,   \* router -> edges it has a session with and the address from
  heardOf,    \* router -> edges its relay last heard of
  serving,    \* router -> edge its relay sends traffic to
  nextHops,   \* Azure: routers in the client's effective routes
  stage, point, \* how far run_region is
  counted,    \* wait_state: the session count of this poll was the expected one
  recoverVm,  \* recover_vm
  drillReceipts, \* evidence files of this invocation
  drills,     \* bound
  killed, startFailed  \* history: a drill was killed; an az vm start failed

routing == <<sessions, heardOf, serving, nextHops>>
script == <<stage, point, counted, recoverVm, drillReceipts, drills, killed, startFailed>>
failoverVars == <<running, routing, script>>

Edge(e) == [kind |-> "edge", id |-> e]
FrrVm == [kind |-> "router", id |-> 1]
SurvivorVm == [kind |-> "router", id |-> 2]
Routers == {FrrVm, SurvivorVm}
NoVm == [kind |-> "none", id |-> 0]
Vms == {Edge(e) : e \in Ces} \cup Routers

CeVm == Edge(CHOOSE e \in Ces : \A f \in Ces : e <= f)
StageVm == IF stage = "ce" THEN CeVm ELSE FrrVm

FailoverTypeOK ==
  /\ running \subseteq Vms /\ nextHops \subseteq Routers
  /\ sessions \in [Routers -> SUBSET Ces] /\ heardOf \in [Routers -> SUBSET Ces]
  /\ serving \in [Routers -> Ces \cup {0}]
  /\ stage \in {"ce", "frr"} /\ drillReceipts \subseteq {"ce", "frr"}
  /\ point \in {"idle", "stop", "degraded", "traffic", "start", "recovered", "receipt",
                "recover"}
  /\ recoverVm \in Vms \cup {NoVm} /\ drills \in 0..MaxDrills
  /\ counted \in BOOLEAN /\ killed \in BOOLEAN /\ startFailed \in BOOLEAN

FailoverInit ==
  /\ running = Vms
  /\ sessions = [r \in Routers |-> Ces]
  /\ heardOf = [r \in Routers |-> Ces]
  /\ serving = [r \in Routers |-> CeVm.id]
  /\ nextHops = Routers
  /\ stage = "ce" /\ point = "idle" /\ counted = FALSE /\ recoverVm = NoVm
  /\ drillReceipts = {} /\ drills = 0 /\ killed = FALSE /\ startFailed = FALSE

------------------------------------------------------------------------------
(* The drill *)

DrillBegins ==
  /\ point = "idle" /\ drills < MaxDrills
  /\ drills' = drills + 1
  /\ stage' = "ce" /\ point' = "stop" /\ counted' = FALSE /\ recoverVm' = NoVm
  /\ drillReceipts' = {}
  /\ UNCHANGED <<running, routing, killed, startFailed>>

(* Mutant: recover_vm is set after az has succeeded.                        *)
StopVmMutant ==
  /\ point = "stop"
  /\ \/ point' = "degraded" /\ running' = running \ {StageVm}
     \/ point' = "recover" /\ running' \in {running, running \ {StageVm}}
  /\ recoverVm' = IF point' = "degraded" THEN StageVm ELSE NoVm
  /\ sessions' = [r \in Routers |-> IF r \in running' THEN sessions[r] ELSE {}]
  /\ serving' = [r \in Routers |-> IF r \in running' THEN serving[r] ELSE 0]
  /\ UNCHANGED <<heardOf, nextHops, stage, counted, drillReceipts, drills, killed,
                 startFailed>>

(* recover_vm is set before az is called: a call that fails may have        *)
(* stopped the machine.  A router that stops loses its sessions and its     *)
(* translation.                                                            *)
StopVm ==
  /\ point = "stop"
  /\ recoverVm' = StageVm
  /\ \/ point' = "degraded" /\ running' = running \ {StageVm}
     \/ point' = "recover" /\ running' \in {running, running \ {StageVm}}
  /\ sessions' = [r \in Routers |-> IF r \in running' THEN sessions[r] ELSE {}]
  /\ serving' = [r \in Routers |-> IF r \in running' THEN serving[r] ELSE 0]
  /\ UNCHANGED <<heardOf, nextHops, stage, counted, drillReceipts, drills, killed,
                 startFailed>>

WatchedFrr == IF stage = "frr" /\ point = "recovered" THEN FrrVm ELSE SurvivorVm
ExpectedCe ==
  IF stage = "ce" /\ point = "degraded" THEN Cardinality(Ces) - 1 ELSE Cardinality(Ces)
ExpectedHops == IF stage = "frr" /\ point = "degraded" THEN {SurvivorVm} ELSE Routers

(* One poll of wait_state reads the sessions of one router and whether it    *)
(* learned the address, then the client's routes.  A poll that cannot reach  *)
(* the router, or finds one of its two Route Server sessions down, counts    *)
(* nothing and changes nothing.                                            *)
PollSessions ==
  /\ point \in {"degraded", "recovered"} /\ ~counted
  /\ Cardinality(sessions[WatchedFrr]) = ExpectedCe /\ sessions[WatchedFrr] # {}
  /\ counted' = TRUE
  /\ UNCHANGED <<running, routing, stage, point, recoverVm, drillReceipts, drills,
                 killed, startFailed>>

PollHops ==
  /\ point \in {"degraded", "recovered"} /\ counted
  /\ counted' = FALSE
  /\ point' = IF nextHops # ExpectedHops THEN point
              ELSE IF point = "degraded" THEN "traffic" ELSE "receipt"
  /\ UNCHANGED <<running, routing, stage, recoverVm, drillReceipts, drills, killed,
                 startFailed>>

WaitExpires ==
  /\ point \in {"degraded", "recovered"}
  /\ point' = "recover" /\ counted' = FALSE
  /\ UNCHANGED <<running, routing, stage, recoverVm, drillReceipts, drills, killed,
                 startFailed>>

(* Twenty requests pass only if each router in use serves a running edge.   *)
Served == nextHops # {} /\ \A r \in nextHops : Edge(serving[r]) \in running

Traffic ==
  /\ point = "traffic"
  /\ point' \in (IF Served THEN {"start", "recover"} ELSE {"recover"})
  /\ UNCHANGED <<running, routing, stage, counted, recoverVm, drillReceipts, drills,
                 killed, startFailed>>

(* An az that fails may have started the machine.                           *)
StartVm ==
  /\ point = "start"
  /\ \/ point' = "recovered" /\ running' = running \cup {StageVm}
     \/ point' = "recover" /\ running' \in {running, running \cup {StageVm}}
  /\ UNCHANGED <<routing, stage, counted, recoverVm, drillReceipts, drills, killed,
                 startFailed>>

DrillReceipt ==
  /\ point = "receipt"
  /\ recoverVm' = NoVm
  /\ drillReceipts' = drillReceipts \cup {stage}
  /\ stage' = "frr" /\ point' = IF stage = "ce" THEN "stop" ELSE "idle"
  /\ UNCHANGED <<running, routing, counted, drills, killed, startFailed>>

(* The trap starts the machine without asking whether that worked.          *)
Recover ==
  /\ point = "recover" /\ point' = "idle"
  /\ \/ running' = running \cup ({recoverVm} \ {NoVm}) /\ UNCHANGED startFailed
     \/ startFailed' = TRUE /\ UNCHANGED running
  /\ UNCHANGED <<routing, stage, counted, recoverVm, drillReceipts, drills, killed>>

DrillKilled ==
  /\ point # "idle" /\ point' = "idle"
  /\ killed' = TRUE
  /\ UNCHANGED <<running, routing, stage, counted, recoverVm, drillReceipts, drills,
                 startFailed>>

Drill ==
  \/ DrillBegins \/ StopVm \/ PollSessions \/ PollHops \/ WaitExpires \/ Traffic
  \/ StartVm \/ DrillReceipt \/ Recover \/ DrillKilled

------------------------------------------------------------------------------
(* Routing.  A session ends some time after its edge, one comes back some   *)
(* time after both ends run; each router's relay is the abstract one.       *)

SessionMoves(r, e) ==
  /\ \/ /\ e \in sessions[r] /\ Edge(e) \notin running
        /\ sessions' = [sessions EXCEPT ![r] = @ \ {e}]
     \/ /\ e \notin sessions[r] /\ {r, Edge(e)} \subseteq running
        /\ sessions' = [sessions EXCEPT ![r] = @ \cup {e}]
  /\ UNCHANGED <<running, heardOf, serving, nextHops, script>>

RelayHears(r) ==
  /\ r \in running /\ heardOf[r] # sessions[r]
  /\ heardOf' = [heardOf EXCEPT ![r] = sessions[r]]
  /\ UNCHANGED <<running, sessions, serving, nextHops, script>>

RelayTurns(r) ==
  LET first == IF heardOf[r] = {} THEN 0
               ELSE CHOOSE e \in heardOf[r] : \A f \in heardOf[r] : e <= f
  IN /\ r \in running /\ serving[r] # first
     /\ serving' = [serving EXCEPT ![r] = IF @ # 0 THEN 0 ELSE first]
     /\ UNCHANGED <<running, sessions, heardOf, nextHops, script>>

RoutesMove ==
  /\ nextHops' = {r \in Routers : sessions[r] # {}} /\ nextHops' # nextHops
  /\ UNCHANGED <<running, sessions, heardOf, serving, script>>

FailoverNext ==
  \/ Drill \/ RoutesMove
  \/ \E r \in Routers : RelayHears(r) \/ RelayTurns(r) \/ \E e \in Ces : SessionMoves(r, e)

FailoverSpec == FailoverInit /\ [][FailoverNext]_failoverVars

------------------------------------------------------------------------------
(* Properties *)

(* Whatever fails - az, a wait, the traffic - a drill never has a machine     *)
(* down but the one of its stage, and none when it is over, unless a drill    *)
(* was killed or az failed to start one.                                    *)
DrillRestores ==
  ~killed /\ ~startFailed =>
    /\ Vms \ running \subseteq {StageVm}
    /\ point = "idle" => running = Vms

(* When the receipt of the router stage is written every machine runs, also  *)
(* if an earlier drill was killed with a machine down.  (The receipt of the  *)
(* edge stage says less: the client's routes may still show a router that    *)
(* is gone.)                                                               *)
ReceiptMeansBack ==
  [][drillReceipts' = drillReceipts \cup {"frr"} /\ drillReceipts' # drillReceipts
     => running = Vms]_failoverVars
=============================================================================
