----------------------------- MODULE AzureProofs -----------------------------
(***************************************************************************)
(* The translation agent of one router keeps its NAT table in order and      *)
(* implements the abstract relay; the failover drill restores what it stops, *)
(* and the receipt of its router stage means that every machine runs: for    *)
(* any set of Customer Edges.                                               *)
(***************************************************************************)
EXTENDS AzureFrr, AzureFailover, FiniteSetTheorems, WellFoundedInduction, TLAPS

------------------------------------------------------------------------------
(* Numbers and rules.                                                       *)

(* A set of numbers that is not empty has a least one.                       *)
LEMMA LeastOfNumbers ==
  ASSUME NEW S, S \subseteq Nat, S # {}
  PROVE  \E e \in S : \A f \in S : e <= f
<1>1. PICK e \in S : \A f \in S : ~ (<<f, e>> \in OpToRel(<, Nat))
  BY NatLessThanWellFounded, WFMin
<1>2. ASSUME NEW f \in S, f < e PROVE FALSE
  <2>1. <<f, e>> \in OpToRel(<, Nat)
    BY <1>2 DEF OpToRel
  <2> QED BY <1>1, <2>1
<1> QED BY <1>2

(* The first of some edges is one of them.                                   *)
LEMMA FirstOfMember ==
  ASSUME NEW S, S \subseteq Backends, S # {}
  PROVE  FirstOf(S) \in S
<1>1. \E e \in S : \A f \in S : e <= f
  BY LeastOfNumbers, FrrAssumption
<1> QED BY <1>1 DEF FirstOf

(* A run has a target iff it found an eligible edge, and the target is one.  *)
LEMMA TargetFound ==
  ASSUME eligible \subseteq Backends
  PROVE  /\ eligible = {} => Target = NoBackend
         /\ eligible # {} => Target \in Backends /\ Target # NoBackend
BY FirstOfMember, FrrAssumption DEF Target, NoBackend

------------------------------------------------------------------------------
(* The agent's invariant.                                                   *)

FrrInv == FrrTypeOK /\ TableInv

LEMMA EmptyChain == <<>> \in Seq(Backends) /\ Len(<<>>) = 0
OBVIOUS

LEMMA FrrInitInv == FrrInit => FrrInv
<1> SUFFICES ASSUME FrrInit PROVE FrrInv
  OBVIOUS
<1>1. FrrTypeOK
  <2>1. chainMade \in BOOLEAN /\ jump \in BOOLEAN
    BY Zenon DEF FrrInit
  <2>2. paths \subseteq Backends /\ eligible \subseteq Backends /\ snat \subseteq Backends
    BY DEF FrrInit
  <2>3. chain \in Seq(Backends)
    BY EmptyChain DEF FrrInit
  <2> QED BY <2>1, <2>2, <2>3, FrrAssumption DEF FrrInit, FrrTypeOK
<1>2. TableInv
  BY EmptyChain DEF FrrInit, TableInv
<1> QED BY <1>1, <1>2 DEF FrrInv

(* The actions that leave the NAT table as it is.                            *)
LEMMA QuietCalls ==
  ASSUME FrrInv, natTable' = natTable,
         ObservePaths \/ JumpRefused \/ RunDies \/ PathsMove \/ PublishBackend
  PROVE  FrrInv'
<1> USE FrrAssumption DEF FrrInv, FrrTypeOK, TableInv, natTable, CallAt
<1>1. CASE ObservePaths
  <2>1. frrAt' = "chain" /\ frrDeaths' \in 0..MaxFrrDeaths
    BY <1>1 DEF ObservePaths
  <2>2. eligible' = paths \/ eligible' = {}
    BY <1>1 DEF ObservePaths
  <2>3. eligible' \subseteq Backends
    BY <2>2
  <2> QED BY <1>1, <2>1, <2>3 DEF ObservePaths
<1>2. CASE JumpRefused BY <1>2 DEF JumpRefused
<1>3. CASE RunDies BY <1>3 DEF RunDies
<1>4. CASE PathsMove
  BY <1>4 DEF PathsMove, ExpectedRules, Target
<1>5. CASE PublishBackend
  BY <1>5, TargetFound DEF PublishBackend
<1> QED BY <1>1, <1>2, <1>3, <1>4, <1>5

(* The calls that prepare the chain and the jump.                            *)
LEMMA PrepareCalls ==
  ASSUME FrrInv, MakeChain \/ EnsureJump \/ EnsureSnat
  PROVE  FrrInv'
<1> USE FrrAssumption DEF FrrInv, FrrTypeOK, TableInv, CallAt
<1>1. CASE MakeChain
  <2>1. frrAt' = "jump" /\ frrDeaths' \in 0..MaxFrrDeaths
    BY <1>1 DEF MakeChain
  <2>2. chainMade' \in BOOLEAN /\ (chainMade => chainMade')
    BY <1>1 DEF MakeChain
  <2> QED BY <1>1, <2>1, <2>2 DEF MakeChain
<1>2. CASE EnsureJump BY <1>2 DEF EnsureJump
<1>3. CASE EnsureSnat
  BY <1>3 DEF EnsureSnat, ExpectedRules, Target
<1> QED BY <1>1, <1>2, <1>3

(* The comparison flushes what is not expected.                              *)
LEMMA CompareInv == FrrInv /\ CompareRules => FrrInv'
<1> SUFFICES ASSUME FrrInv, CompareRules PROVE FrrInv'
  OBVIOUS
<1>1. eligible' = eligible /\ Target' = Target /\ ExpectedRules' = ExpectedRules
  BY DEF CompareRules, Target, ExpectedRules
<1>2. FrrTypeOK'
  <2>1. chain' \in Seq(Backends)
    BY EmptyChain DEF FrrInv, FrrTypeOK, CompareRules
  <2>2. frrAt' \in {"snat", "append"}
    BY DEF CompareRules
  <2> QED BY <2>1, <2>2 DEF FrrInv, FrrTypeOK, CompareRules
<1>3. jump' /\ chainMade' /\ Len(chain') <= 1
  BY EmptyChain DEF FrrInv, TableInv, CompareRules
<1>4. frrAt' = "snat" => chain' = ExpectedRules'
  BY <1>1 DEF CompareRules, ExpectedRules
<1>5. frrAt' = "append" => chain' = <<>> /\ eligible' # {}
  BY <1>1, TargetFound DEF CompareRules, FrrInv, FrrTypeOK
<1>6. frrAt' # "compare"
  BY DEF CompareRules
<1> QED BY <1>2, <1>3, <1>4, <1>5, <1>6 DEF FrrInv, TableInv

(* A rule is added to an empty chain behind the jump.                        *)
LEMMA AppendInv == FrrInv /\ AppendRule => FrrInv'
<1> SUFFICES ASSUME FrrInv, AppendRule PROVE FrrInv'
  OBVIOUS
<1>1. chain = <<>> /\ jump /\ chainMade /\ Target \in Backends /\ Target # NoBackend
  BY TargetFound DEF FrrInv, FrrTypeOK, TableInv, AppendRule, CallAt
<1>2. chain' = <<Target>>
  BY <1>1 DEF AppendRule
<1>3. ExpectedRules' = <<Target>>
  BY <1>1 DEF AppendRule, ExpectedRules, Target
<1>4. frrAt' = "snat" /\ jump' /\ chainMade'
  BY <1>1 DEF AppendRule, CallAt
<1>5. chain' \in Seq(Backends) /\ Len(chain') = 1
  BY <1>1, <1>2
<1>6. FrrTypeOK'
  BY <1>5 DEF FrrInv, FrrTypeOK, AppendRule, CallAt
<1> QED BY <1>2, <1>3, <1>4, <1>5, <1>6 DEF FrrInv, TableInv

LEMMA RestartInv == FrrInv /\ RouterRestarts => FrrInv'
<1> SUFFICES ASSUME FrrInv, RouterRestarts PROVE FrrInv'
  OBVIOUS
<1>1. FrrTypeOK'
  <2>1. chainMade' \in BOOLEAN /\ jump' \in BOOLEAN
    BY Zenon DEF RouterRestarts
  <2>2. chain' \in Seq(Backends)
    BY EmptyChain DEF RouterRestarts
  <2>3. frrMoves' \in 0..MaxFrrMoves
    BY FrrAssumption DEF FrrInv, FrrTypeOK, RouterRestarts
  <2> QED BY <2>1, <2>2, <2>3 DEF FrrInv, FrrTypeOK, RouterRestarts
<1>2. TableInv'
  BY EmptyChain DEF TableInv, RouterRestarts
<1> QED BY <1>1, <1>2 DEF FrrInv

LEMMA FrrNextInv == FrrInv /\ [FrrNext]_frrVars => FrrInv'
<1> SUFFICES ASSUME FrrInv, [FrrNext]_frrVars PROVE FrrInv'
  OBVIOUS
<1>1. CASE ObservePaths BY <1>1, QuietCalls DEF ObservePaths
<1>2. CASE MakeChain \/ EnsureJump \/ EnsureSnat BY <1>2, PrepareCalls
<1>3. CASE CompareRules BY <1>3, CompareInv
<1>4. CASE AppendRule BY <1>4, AppendInv
<1>5. CASE PublishBackend BY <1>5, QuietCalls DEF PublishBackend
<1>6. CASE JumpRefused BY <1>6, QuietCalls DEF JumpRefused
<1>7. CASE RunDies BY <1>7, QuietCalls DEF RunDies
<1>8. CASE PathsMove BY <1>8, QuietCalls DEF PathsMove
<1>9. CASE RouterRestarts BY <1>9, RestartInv
<1>10. CASE UNCHANGED frrVars
  BY <1>10
  DEF frrVars, natTable, FrrInv, FrrTypeOK, TableInv, ExpectedRules, Target
<1> QED
  BY <1>1, <1>2, <1>3, <1>4, <1>5, <1>6, <1>7, <1>8, <1>9, <1>10 DEF FrrNext, Converge

(* How the one rule gets there.                                             *)
LEMMA RuleStepHolds == FrrInv /\ [FrrNext]_frrVars => RuleStep
<1> SUFFICES ASSUME FrrInv, [FrrNext]_frrVars PROVE RuleStep
  OBVIOUS
<1>1. CASE CompareRules BY <1>1 DEF CompareRules, RuleStep
<1>2. CASE AppendRule
  <2>1. chain = <<>> /\ jump /\ eligible # {}
    BY <1>2 DEF FrrInv, TableInv, AppendRule, CallAt
  <2>2. chain' = <<Target>> /\ jump' = jump
    BY <1>2, <2>1 DEF AppendRule
  <2>3. Target = FirstOf(eligible)
    BY <2>1 DEF Target
  <2> QED BY <2>1, <2>2, <2>3 DEF RuleStep
<1>3. CASE RouterRestarts BY <1>3 DEF RouterRestarts, RuleStep
<1>4. CASE \/ ObservePaths \/ MakeChain \/ EnsureJump \/ EnsureSnat \/ PublishBackend
           \/ JumpRefused \/ RunDies \/ PathsMove
  BY <1>4
  DEF ObservePaths, MakeChain, EnsureJump, EnsureSnat, PublishBackend, JumpRefused,
      RunDies, PathsMove, natTable, RuleStep
<1>5. CASE UNCHANGED frrVars BY <1>5 DEF frrVars, natTable, RuleStep
<1> QED BY <1>1, <1>2, <1>3, <1>4, <1>5 DEF FrrNext, Converge

(* Whichever call of whichever run fails, the NAT table holds at most one     *)
(* rule, which traffic reaches; it appears only in the empty chain, and then *)
(* names the first edge that this run found eligible (TableInv, RuleStep).   *)
THEOREM FrrAlwaysInv == FrrSpec => [](FrrTypeOK /\ TableInv) /\ [][RuleStep]_frrVars
<1>1. FrrInv /\ [FrrNext]_frrVars => [RuleStep]_frrVars
  BY RuleStepHolds
<1> QED BY <1>1, FrrInitInv, FrrNextInv, PTL DEF FrrSpec, FrrInv

------------------------------------------------------------------------------
(* The refinement.                                                          *)

USE DEF Relay!Nobody, Relay!First

LEMMA RelayStarts == FrrInit => Relay!Init
BY DEF FrrInit, Relay!Init, Forward, NoBackend

(* The calls that the relay does not see.                                    *)
LEMMA UnseenCalls ==
  ASSUME FrrInv,
         \/ MakeChain \/ EnsureJump \/ EnsureSnat \/ PublishBackend \/ JumpRefused
         \/ RunDies
  PROVE  UNCHANGED <<paths, eligible, Forward>>
<1>1. CASE MakeChain BY <1>1 DEF MakeChain, Forward
<1>2. CASE EnsureJump BY <1>2 DEF EnsureJump, Forward, FrrInv, TableInv
<1>3. CASE EnsureSnat BY <1>3 DEF EnsureSnat, Forward
<1>4. CASE PublishBackend BY <1>4 DEF PublishBackend, Forward, natTable
<1>5. CASE JumpRefused BY <1>5 DEF JumpRefused, Forward, natTable
<1>6. CASE RunDies BY <1>6 DEF RunDies, Forward, natTable
<1> QED BY <1>1, <1>2, <1>3, <1>4, <1>5, <1>6

LEMMA RelaySteps ==
  FrrInv /\ [FrrNext]_frrVars => [Relay!Next]_<<paths, eligible, Forward>>
<1> SUFFICES ASSUME FrrInv, [FrrNext]_frrVars
             PROVE  [Relay!Next]_<<paths, eligible, Forward>>
  OBVIOUS
<1>1. CASE ObservePaths
  <2>1. Relay!Hear
    BY <1>1 DEF ObservePaths, Relay!Hear, Forward, natTable
  <2> QED BY <2>1 DEF Relay!Next
<1>2. CASE CompareRules
  <2>1. UNCHANGED <<paths, eligible, jump>>
    BY <1>2 DEF CompareRules
  <2>2. UNCHANGED chain \/ chain' = <<>>
    BY <1>2 DEF CompareRules
  <2>3. CASE UNCHANGED chain BY <2>1, <2>3 DEF Forward
  <2>4. CASE chain' = <<>>
    BY <2>1, <2>4 DEF Forward, NoBackend, Relay!Stop, Relay!Next
  <2> QED BY <2>2, <2>3, <2>4
<1>3. CASE AppendRule
  <2>1. chain = <<>> /\ jump /\ eligible # {}
    BY <1>3 DEF FrrInv, TableInv, AppendRule, CallAt
  <2>2. Forward = 0
    BY <2>1 DEF Forward, NoBackend
  <2>3. UNCHANGED <<paths, eligible, jump>> /\ chain' = <<Target>>
    BY <1>3, <2>1 DEF AppendRule
  <2>4. Forward' = FirstOf(eligible)
    BY <2>1, <2>3 DEF Forward, Target
  <2>5. Relay!Serve
    BY <2>1, <2>2, <2>3, <2>4 DEF Relay!Serve, FirstOf
  <2> QED BY <2>5 DEF Relay!Next
<1>4. CASE \/ MakeChain \/ EnsureJump \/ EnsureSnat \/ PublishBackend \/ JumpRefused
           \/ RunDies
  BY <1>4, UnseenCalls
<1>5. CASE PathsMove
  <2>1. Relay!Learn
    BY <1>5 DEF PathsMove, Relay!Learn, Forward, natTable
  <2> QED BY <2>1 DEF Relay!Next
<1>6. CASE RouterRestarts
  <2>1. Relay!Restart
    BY <1>6 DEF RouterRestarts, Relay!Restart, Forward, NoBackend
  <2> QED BY <2>1 DEF Relay!Next
<1>7. CASE UNCHANGED frrVars
  BY <1>7 DEF frrVars, natTable, Forward
<1> QED
  BY <1>1, <1>2, <1>3, <1>4, <1>5, <1>6, <1>7 DEF FrrNext, Converge

(* That needs no fairness.                                                  *)
LEMMA RelayAlone == FrrInit /\ [][FrrNext]_frrVars => RelayRefines
<1>1. FrrInit => FrrInv BY FrrInitInv
<1>2. FrrInv /\ [FrrNext]_frrVars => FrrInv' BY FrrNextInv
<1> QED BY <1>1, <1>2, RelayStarts, RelaySteps, PTL DEF RelayRefines, Relay!Spec

(* The agent implements the relay of VipRelay: traffic goes to the first      *)
(* edge its last observation found or nowhere, and never straight from one   *)
(* edge to another, whichever iptables call of a run fails.                  *)
THEOREM FrrImplementsRelay == FrrSpec => RelayRefines
BY RelayAlone, PTL DEF FrrSpec

------------------------------------------------------------------------------
(* Machines.                                                                *)

LEMMA CeVmId == CeVm.id \in Ces /\ \A f \in Ces : CeVm.id <= f
<1>1. \E e \in Ces : \A f \in Ces : e <= f
  BY LeastOfNumbers, FailoverAssumption
<1>2. CeVm.id = CHOOSE e \in Ces : \A f \in Ces : e <= f
  BY DEF CeVm, Edge
<1> QED BY <1>1, <1>2

(* The machine of a stage is one of the estate's.                            *)
LEMMA StageVmType == StageVm \in Vms /\ StageVm # NoVm
<1>1. \E e \in Ces : \A f \in Ces : e <= f
  BY LeastOfNumbers, FailoverAssumption
<1>2. CeVm \in {Edge(e) : e \in Ces}
  BY <1>1 DEF CeVm
<1>3. CeVm # NoVm /\ FrrVm # NoVm
  BY DEF CeVm, Edge, FrrVm, NoVm
<1> QED BY <1>2, <1>3 DEF StageVm, Vms, Routers

LEMMA RoutersApart ==
  /\ SurvivorVm # FrrVm /\ CeVm # FrrVm /\ CeVm # SurvivorVm
  /\ \A e : Edge(e) \notin Routers
BY DEF SurvivorVm, FrrVm, CeVm, Edge, Routers

------------------------------------------------------------------------------
(* Which machines may be down.                                              *)

DownInv ==
  ~killed /\ ~startFailed =>
    /\ point \in {"idle", "stop", "recovered", "receipt"} => running = Vms
    /\ Vms \ running \subseteq {StageVm}
    /\ point \in {"degraded", "traffic", "start", "recovered", "recover"} =>
         recoverVm = StageVm

RestoreInv == FailoverTypeOK /\ DownInv

LEMMA RestoreInit == FailoverInit => RestoreInv
<1> SUFFICES ASSUME FailoverInit PROVE RestoreInv
  OBVIOUS
<1>1. counted \in BOOLEAN /\ killed \in BOOLEAN /\ startFailed \in BOOLEAN
  BY Zenon DEF FailoverInit
<1>2. serving \in [Routers -> Ces \cup {0}]
  BY CeVmId DEF FailoverInit
<1>3. FailoverTypeOK
  BY <1>1, <1>2, FailoverAssumption DEF FailoverInit, FailoverTypeOK, Vms
<1>4. DownInv
  BY DEF FailoverInit, DownInv
<1> QED BY <1>3, <1>4 DEF RestoreInv

(* The drill's own steps keep the types.                                     *)
LEMMA DrillType == FailoverTypeOK /\ Drill => FailoverTypeOK'
<1> SUFFICES ASSUME FailoverTypeOK, Drill PROVE FailoverTypeOK'
  OBVIOUS
<1> USE DEF FailoverTypeOK, routing
<1>1. CASE DrillBegins
  <2>1. counted' \in BOOLEAN
    BY <1>1, Zenon DEF DrillBegins
  <2> QED BY <1>1, <2>1, FailoverAssumption DEF DrillBegins
<1>2. CASE StopVm
  <2>1. running' \subseteq Vms
    BY <1>2 DEF StopVm
  <2>2. sessions' \in [Routers -> SUBSET Ces] /\ serving' \in [Routers -> Ces \cup {0}]
    BY <1>2 DEF StopVm
  <2>3. recoverVm' \in Vms /\ point' \in {"degraded", "recover"}
    BY <1>2, StageVmType DEF StopVm
  <2> QED BY <1>2, <2>1, <2>2, <2>3 DEF StopVm
<1>3. CASE PollSessions
  <2>1. counted' \in BOOLEAN
    BY <1>3, Zenon DEF PollSessions
  <2> QED BY <1>3, <2>1 DEF PollSessions
<1>4. CASE PollHops
  <2>1. counted' \in BOOLEAN
    BY <1>4, Zenon DEF PollHops
  <2>2. point' \in {point, "traffic", "receipt"}
    BY <1>4 DEF PollHops
  <2> QED BY <1>4, <2>1, <2>2 DEF PollHops
<1>5. CASE WaitExpires
  <2>1. counted' \in BOOLEAN
    BY <1>5, Zenon DEF WaitExpires
  <2> QED BY <1>5, <2>1 DEF WaitExpires
<1>6. CASE Traffic
  <2>1. point' \in {"start", "recover"}
    BY <1>6 DEF Traffic
  <2> QED BY <1>6, <2>1 DEF Traffic
<1>7. CASE StartVm
  <2>1. running' \subseteq Vms /\ point' \in {"recovered", "recover"}
    BY <1>7, StageVmType DEF StartVm
  <2> QED BY <1>7, <2>1 DEF StartVm
<1>8. CASE DrillReceipt
  <2>1. point' \in {"stop", "idle"}
    BY <1>8 DEF DrillReceipt
  <2> QED BY <1>8, <2>1 DEF DrillReceipt
<1>9. CASE Recover
  <2>1. running' \subseteq Vms
    BY <1>9 DEF Recover
  <2>2. startFailed' \in BOOLEAN
    BY <1>9 DEF Recover
  <2> QED BY <1>9, <2>1, <2>2 DEF Recover
<1>10. CASE DrillKilled
  <2>1. killed' \in BOOLEAN
    BY <1>10, Zenon DEF DrillKilled
  <2> QED BY <1>10, <2>1 DEF DrillKilled
<1> QED
  BY <1>1, <1>2, <1>3, <1>4, <1>5, <1>6, <1>7, <1>8, <1>9, <1>10 DEF Drill

(* So do the steps of the routing.                                           *)
LEMMA RoutingType ==
  ASSUME FailoverTypeOK, NEW r \in Routers,
         RelayHears(r) \/ RelayTurns(r) \/ RoutesMove \/ \E e \in Ces : SessionMoves(r, e)
  PROVE  FailoverTypeOK'
<1> USE DEF FailoverTypeOK, script
<1>1. CASE RelayHears(r)
  BY <1>1 DEF RelayHears
<1>2. CASE RelayTurns(r)
  <2> DEFINE first == IF heardOf[r] = {} THEN 0
                      ELSE CHOOSE e \in heardOf[r] : \A f \in heardOf[r] : e <= f
  <2>1. first \in Ces \cup {0}
    <3>1. CASE heardOf[r] # {}
      <4>1. \E e \in heardOf[r] : \A f \in heardOf[r] : e <= f
        BY <3>1, LeastOfNumbers, FailoverAssumption
      <4> QED BY <3>1, <4>1
    <3> QED BY <3>1
  <2>2. serving' = [serving EXCEPT ![r] = IF @ # 0 THEN 0 ELSE first]
    BY <1>2 DEF RelayTurns
  <2> HIDE DEF first
  <2>3. serving' \in [Routers -> Ces \cup {0}]
    BY <2>1, <2>2
  <2> QED BY <1>2, <2>3 DEF RelayTurns
<1>3. CASE RoutesMove
  BY <1>3 DEF RoutesMove
<1>4. ASSUME NEW e \in Ces, SessionMoves(r, e) PROVE FailoverTypeOK'
  <2>1. sessions' \in [Routers -> SUBSET Ces]
    BY <1>4 DEF SessionMoves
  <2> QED BY <1>4, <2>1 DEF SessionMoves
<1> QED BY <1>1, <1>2, <1>3, <1>4

LEMMA FailoverType == FailoverTypeOK /\ [FailoverNext]_failoverVars => FailoverTypeOK'
<1> SUFFICES ASSUME FailoverTypeOK, [FailoverNext]_failoverVars PROVE FailoverTypeOK'
  OBVIOUS
<1>1. CASE UNCHANGED failoverVars
  BY <1>1 DEF failoverVars, routing, script, FailoverTypeOK
<1>2. FrrVm \in Routers
  BY DEF Routers
<1> QED BY <1>1, <1>2, DrillType, RoutingType DEF FailoverNext

(* A step of the drill keeps what is known of the machines that are down.     *)
LEMMA DownStep == RestoreInv /\ [FailoverNext]_failoverVars => DownInv'
<1> SUFFICES ASSUME RestoreInv, [FailoverNext]_failoverVars,
                    ~killed', ~startFailed'
             PROVE  DownInv'
  BY DEF DownInv
<1> USE DEF RestoreInv, DownInv, StageVm
<1> running \subseteq Vms
  BY DEF FailoverTypeOK
<1>1. CASE DrillBegins BY <1>1 DEF DrillBegins
<1>2. CASE StopVm BY <1>2, StageVmType DEF StopVm
<1>3. CASE PollSessions BY <1>3 DEF PollSessions
<1>4. CASE PollHops BY <1>4 DEF PollHops
<1>5. CASE WaitExpires BY <1>5 DEF WaitExpires
<1>6. CASE Traffic BY <1>6 DEF Traffic
<1>7. CASE StartVm BY <1>7, StageVmType DEF StartVm
<1>8. CASE DrillReceipt BY <1>8 DEF DrillReceipt
<1>9. CASE Recover BY <1>9, StageVmType DEF Recover
<1>10. CASE DrillKilled BY <1>10 DEF DrillKilled
<1>11. CASE UNCHANGED <<running, script>>
  BY <1>11 DEF script
<1>12. ASSUME NEW r \in Routers,
              RelayHears(r) \/ RelayTurns(r) \/ RoutesMove \/ \E e \in Ces : SessionMoves(r, e)
       PROVE  UNCHANGED <<running, script>>
  BY <1>12 DEF RelayHears, RelayTurns, RoutesMove, SessionMoves
<1>13. FrrVm \in Routers
  BY DEF Routers
<1>14. CASE UNCHANGED failoverVars BY <1>11, <1>14 DEF failoverVars
<1> QED
  BY <1>1, <1>2, <1>3, <1>4, <1>5, <1>6, <1>7, <1>8, <1>9, <1>10, <1>11, <1>12, <1>13,
     <1>14
  DEF FailoverNext, Drill

(* A drill never has a machine down but the one of its stage, and none when   *)
(* it is over, unless it was killed or az failed to start a machine.         *)
THEOREM DrillAlwaysRestores == FailoverSpec => []DrillRestores
<1>1. RestoreInv /\ [FailoverNext]_failoverVars => RestoreInv'
  BY FailoverType, DownStep DEF RestoreInv
<1>2. RestoreInv => DrillRestores
  BY DEF RestoreInv, DownInv, DrillRestores
<1> QED BY <1>1, <1>2, RestoreInit, PTL DEF FailoverSpec

------------------------------------------------------------------------------
(* What the receipt of the router stage means.                               *)

(* In the router stage only the first router is down, since it lost its       *)
(* sessions, and every session it has is one with a running edge.            *)
BackInv ==
  /\ SurvivorVm \in running
  /\ point \notin {"idle", "degraded", "recovered"} => ~counted
  /\ stage = "frr" /\ point \in {"degraded", "traffic", "start", "recovered", "receipt"} =>
       \A e \in sessions[FrrVm] : Edge(e) \in running
  /\ stage = "frr" /\ point \in {"recovered", "receipt"} => FrrVm \in running
  /\ stage = "frr" /\ ((point = "recovered" /\ counted) \/ point = "receipt") =>
       \A e \in Ces : Edge(e) \in running

LEMMA BackStep == FailoverTypeOK /\ BackInv /\ [FailoverNext]_failoverVars => BackInv'
<1> SUFFICES ASSUME FailoverTypeOK, BackInv, [FailoverNext]_failoverVars PROVE BackInv'
  OBVIOUS
<1> USE DEF BackInv
<1>1. CASE DrillBegins BY <1>1 DEF DrillBegins
<1>2. CASE StopVm
  <2>1. SurvivorVm \in running'
    BY <1>2, RoutersApart DEF StopVm, StageVm
  <2>2. stage = "frr" /\ point' = "degraded" => FrrVm \notin running'
    BY <1>2 DEF StopVm, StageVm
  <2>3. FrrVm \notin running' => sessions'[FrrVm] = {}
    BY <1>2 DEF StopVm, Routers
  <2>4. point' \in {"degraded", "recover"} /\ stage' = stage /\ ~counted'
    BY <1>2 DEF StopVm
  <2> QED BY <2>1, <2>2, <2>3, <2>4
<1>3. CASE PollSessions
  <2>1. ASSUME stage = "frr", point = "recovered", NEW e \in Ces
        PROVE  Edge(e) \in running
    <3>1. sessions[FrrVm] \subseteq Ces
      BY DEF FailoverTypeOK, Routers
    <3>2. Cardinality(sessions[FrrVm]) = Cardinality(Ces)
      BY <1>3, <2>1 DEF PollSessions, WatchedFrr, ExpectedCe
    <3>3. sessions[FrrVm] = Ces
      BY <3>1, <3>2, FS_Subset, FailoverAssumption
    <3> QED BY <2>1, <3>3
  <2>2. UNCHANGED <<running, sessions, stage, point>> /\ point \in {"degraded", "recovered"}
    BY <1>3 DEF PollSessions, routing
  <2> QED BY <2>1, <2>2
<1>4. CASE PollHops
  <2>1. stage = "frr" /\ point' = "receipt" => point = "recovered" /\ counted
    BY <1>4 DEF PollHops
  <2>2. point' \in {point, "traffic", "receipt"} /\ ~counted'
    BY <1>4 DEF PollHops
  <2>3. point' = "traffic" => point = "degraded"
    BY <1>4 DEF PollHops
  <2>4. UNCHANGED <<running, sessions, stage>>
    BY <1>4 DEF PollHops, routing
  <2>5. stage = "frr" /\ point' = "receipt" => \A e \in Ces : Edge(e) \in running
    BY <2>1
  <2>6. stage = "frr" /\ point' \in {"recovered", "receipt"} => FrrVm \in running
    BY <2>1, <2>2
  <2>7. stage = "frr" /\ point' \in {"degraded", "traffic", "start", "recovered", "receipt"}
          => \A e \in sessions[FrrVm] : Edge(e) \in running
    BY <2>1, <2>2, <2>3
  <2> HIDE DEF BackInv
  <2> QED BY <2>2, <2>4, <2>5, <2>6, <2>7 DEF BackInv
<1>5. CASE WaitExpires BY <1>5 DEF WaitExpires, routing
<1>6. CASE Traffic BY <1>6 DEF Traffic, routing
<1>7. CASE StartVm
  <2>1. running \subseteq running' /\ (point' = "recovered" => StageVm \in running')
    BY <1>7 DEF StartVm
  <2>2. point' \in {"recovered", "recover"} /\ ~counted'
    BY <1>7 DEF StartVm
  <2>3. \A e \in sessions'[FrrVm] : stage = "frr" => Edge(e) \in running'
    BY <1>7, <2>1 DEF StartVm, routing
  <2> QED BY <1>7, <2>1, <2>2, <2>3 DEF StartVm, StageVm
<1>8. CASE DrillReceipt BY <1>8 DEF DrillReceipt, routing
<1>9. CASE Recover BY <1>9 DEF Recover, routing
<1>10. CASE DrillKilled BY <1>10 DEF DrillKilled, routing
<1>11. ASSUME NEW r \in Routers, NEW e \in Ces, SessionMoves(r, e) PROVE BackInv'
  <2>1. UNCHANGED <<running, script>>
    BY <1>11 DEF SessionMoves
  <2>2. \A f \in sessions'[FrrVm] : f \in sessions[FrrVm] \/ Edge(f) \in running
    BY <1>11 DEF SessionMoves, FailoverTypeOK, Routers
  <2> QED BY <2>1, <2>2 DEF script
<1>12. CASE UNCHANGED <<running, sessions, script>>
  BY <1>12 DEF script
<1>13. CASE RoutesMove \/ \E r \in Routers : RelayHears(r) \/ RelayTurns(r)
  BY <1>12, <1>13 DEF RoutesMove, RelayHears, RelayTurns
<1>14. CASE UNCHANGED failoverVars
  BY <1>12, <1>14 DEF failoverVars, routing
<1> QED
  BY <1>1, <1>2, <1>3, <1>4, <1>5, <1>6, <1>7, <1>8, <1>9, <1>10, <1>11, <1>13, <1>14
  DEF FailoverNext, Drill

(* When the receipt of the router stage is written every machine runs, also   *)
(* if an earlier drill was killed with a machine down.                       *)
THEOREM RouterReceiptMeansBack == FailoverSpec => ReceiptMeansBack
<1>1. FailoverInit => FailoverTypeOK /\ BackInv
  BY RestoreInit DEF RestoreInv, FailoverInit, BackInv, Vms, Routers
<1>2. FailoverTypeOK /\ BackInv /\ [FailoverNext]_failoverVars
        => (FailoverTypeOK /\ BackInv)'
  BY FailoverType, BackStep
<1>3. FailoverTypeOK /\ BackInv /\ [FailoverNext]_failoverVars =>
        (drillReceipts' = drillReceipts \cup {"frr"} /\ drillReceipts' # drillReceipts
           => running = Vms)
  <2> SUFFICES ASSUME FailoverTypeOK, BackInv, [FailoverNext]_failoverVars,
                      drillReceipts' = drillReceipts \cup {"frr"},
                      drillReceipts' # drillReceipts
               PROVE  running = Vms
    OBVIOUS
  <2>1. "frr" \in drillReceipts' /\ "frr" \notin drillReceipts
    OBVIOUS
  <2>2. DrillReceipt
    BY <2>1
    DEF FailoverNext, Drill, failoverVars, script, DrillBegins, StopVm, PollSessions,
        PollHops, WaitExpires, Traffic, StartVm, Recover, DrillKilled, RoutesMove,
        RelayHears, RelayTurns, SessionMoves
  <2>3. stage = "frr" /\ point = "receipt"
    BY <2>1, <2>2 DEF DrillReceipt
  <2> QED BY <2>3 DEF BackInv, FailoverTypeOK, Vms, Routers
<1>4. FailoverTypeOK /\ BackInv /\ [FailoverNext]_failoverVars =>
        [drillReceipts' = drillReceipts \cup {"frr"} /\ drillReceipts' # drillReceipts
           => running = Vms]_failoverVars
  BY <1>3
<1> QED BY <1>1, <1>2, <1>4, PTL DEF FailoverSpec, ReceiptMeansBack

=============================================================================
