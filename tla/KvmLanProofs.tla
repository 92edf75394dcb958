------------------------------ MODULE KvmLanProofs ------------------------------
(***************************************************************************)
(* The staged rollout never builds the LAN beside a domain without its LAN   *)
(* interface, and a passed acceptance names a reviewed plan, for any set of  *)
(* plans the operator may ask for.                                           *)
(***************************************************************************)
EXTENDS KvmLan, TLAPS

------------------------------------------------------------------------------
(* Interfaces.                                                              *)

Domains == {<<>>, <<Slo>>, <<Slo, Sli>>}

(* What becomes of the interfaces an enabled LAN asks for.                    *)
LEMMA RealizedLan ==
  ASSUME NEW nics \in LanNics
  PROVE  \/ Realized(nics) = <<Slo, Sli>>
         \/ nics[1].backing = "unknown" /\ nics[1].bound = "foreign"
            /\ Realized(nics) # <<Slo>> /\ Realized(nics) # <<>>
            /\ Realized(nics) # <<Slo, Sli>>
BY DEF LanNics, Realized, Slo, Sli, Nic

(* A plan that passes leaves a reviewed domain, and a hardware plan no LAN.    *)
LEMMA ValidHardware ==
  ASSUME NEW p, ValidPlan(p, "hardware"), p.nics \in LanNics
  PROVE  Realized(p.nics) = <<Slo, Sli>> /\ \A o \in LanObjects : p.lan[o] = "none"
<1>1. HardwarePlan(p)
  BY DEF ValidPlan
<1>2. p.nics[1].backing = "network" \/ p.nics[1].bound = "owned"
  BY <1>1 DEF HardwarePlan, OwnedUnknownSlo
<1>3. Realized(p.nics) = <<Slo, Sli>>
  BY <1>2, RealizedLan
<1>4. ASSUME NEW o \in LanObjects, p.lan[o] # "none" PROVE FALSE
  <2>1. o \in ActiveChanges(p)
    BY <1>4 DEF ActiveChanges
  <2>2. o = "domain"
    BY <1>1, <2>1 DEF HardwarePlan
  <2> QED BY <2>2 DEF LanObjects, Application, Interface
<1> QED BY <1>3, <1>4

LEMMA ValidConfigured ==
  ASSUME NEW p, ValidPlan(p, "configured")
  PROVE  p.domain = "none" /\ \A o \in LanObjects : p.lan[o] = "create"
<1>1. ConfiguredPlan(p)
  BY DEF ValidPlan
<1>2. "domain" \notin LanObjects
  BY DEF LanObjects, Application, Interface
<1>3. "domain" \notin ActiveChanges(p)
  BY <1>1, <1>2 DEF ConfiguredPlan
<1> QED BY <1>1, <1>3 DEF ActiveChanges, ConfiguredPlan, LanObjects

------------------------------------------------------------------------------
(* The invariant: what a saved plan knows of the state it was made from; what  *)
(* a review and its receipt say of the plan; and what follows for the state    *)
(* and for the acceptance.                                                   *)

PlanInv ==
  /\ lan \subseteq LanObjects
  /\ planFile.stage = "hardware" => \A o \in lan : planFile.lan[o] = "delete"
  /\ planFile.stage = "configured" /\ planFile.domain = "none" =>
       domain = Realized(planFile.nics)
  /\ planFile.stage \in Stages /\ planFile.approved => planFile.nics \in LanNics

Reviewed(r, stage) == ValidPlan(r.digest, stage) /\ r.digest.commit = r.commit

ReviewInv ==
  /\ review # NoReview =>
       preflight = NoReview /\ (swap = "none" => planFile = review.digest)
  /\ preflight # NoReview /\ swap = "none" => Reviewed(preflight, preflight.stage)
  /\ preflight # NoReview /\ swap = "swapped" /\ planFile = preflight.digest =>
       Reviewed(preflight, preflight.stage)

StateInv ==
  swap # "restored" => domain \in Domains /\ (lan # {} => domain = <<Slo, Sli>>)

ConfigInv ==
  /\ \/ status = "none" /\ at # "done"
     \/ status \in {"passed", "failed"} /\ at = "done"
  /\ at \in {"terraform", "host", "vm", "frr", "client", "evaluate"} /\ good /\ swap # "restored" =>
       Reviewed(config, "configured")
  /\ status = "passed" /\ swap # "restored" => Reviewed(config, "configured")

SwapInv == swap \in {"none", "swapped", "restored"}

RolloutInv == SwapInv /\ PlanInv /\ ReviewInv /\ StateInv /\ ConfigInv

LEMMA RolloutInit == KvmInit => RolloutInv
BY DEF KvmInit, RolloutInv, SwapInv, PlanInv, ReviewInv, StateInv, ConfigInv, NoPlan,
       NoReview, Domains, Stages

(* A plan is made from the state as it is.                                   *)
LEMMA SaveStep == RolloutInv /\ SavePlan => RolloutInv'
<1> SUFFICES ASSUME RolloutInv, SavePlan PROVE RolloutInv'
  OBVIOUS
<1> UNCHANGED <<domain, lan, preflight, review, acceptance>>
  BY DEF SavePlan
<1>1. PICK stage \in Stages, p \in Proposals : planFile' = PlanFor(stage, p)
  BY DEF SavePlan
<1>2. p.approved => p.nics \in LanNics
  BY KvmLanAssumption
<1>3. PlanInv'
  <2>1. planFile'.stage = stage /\ planFile'.approved = p.approved
        /\ planFile'.nics = p.nics
    BY <1>1 DEF PlanFor
  <2>2. stage = "hardware" => \A o \in lan \cap LanObjects : planFile'.lan[o] = "delete"
    BY <1>1 DEF PlanFor
  <2>3. planFile'.domain = "none" => domain = Realized(p.nics)
    <3>1. p.change # "none"
      BY KvmLanAssumption
    <3> QED BY <1>1, <3>1 DEF PlanFor
  <2> QED BY <1>2, <2>1, <2>2, <2>3 DEF PlanInv, RolloutInv
<1>s. /\ swap' \in {"none", "swapped", "restored"}
      /\ swap' = "none" => swap = "none" /\ (review # NoReview => planFile' = review.digest)
      /\ swap' = "swapped" /\ swap = "none" => review # NoReview
      /\ swap' = "swapped" /\ swap = "swapped" => planFile' # preflight.digest
      /\ swap = "restored" => swap' = "restored"
  BY DEF SavePlan, RolloutInv, SwapInv
<1>7. SwapInv'
  BY <1>s DEF SwapInv
<1>4. ReviewInv'
  <2>1. swap' = "none" => swap = "none" /\ (review # NoReview => planFile' = review.digest)
    BY <1>s
  <2>2. ASSUME preflight # NoReview, swap' = "swapped", planFile' = preflight.digest
        PROVE  FALSE
    BY <1>s, <2>2 DEF RolloutInv, ReviewInv, SwapInv
  <2> QED BY <2>1, <2>2 DEF RolloutInv, ReviewInv, Reviewed
<1>5. StateInv'
  BY <1>s DEF RolloutInv, StateInv
<1>6. ConfigInv'
  <2>2. swap' # "restored" => swap # "restored"
    BY <1>s
  <2>1. at' = at /\ good' = good /\ config' = config /\ status' = status
    BY DEF acceptance
  <2> QED BY <2>1, <2>2 DEF RolloutInv, ConfigInv, Reviewed
<1> QED BY <1>3, <1>4, <1>5, <1>6, <1>7 DEF RolloutInv

(* A receipt is moved in place for the plan that was read, or, if somebody     *)
(* replaced it, for one that is not there any more.                          *)
LEMMA PreflightStep ==
  RolloutInv /\ (PreflightDigest \/ PreflightVerdict) => RolloutInv'
<1> SUFFICES ASSUME RolloutInv, PreflightDigest \/ PreflightVerdict PROVE RolloutInv'
  OBVIOUS
<1>1. UNCHANGED <<domain, lan, planFile, at, good, config, status, swap>>
  BY DEF PreflightDigest, PreflightVerdict, acceptance
<1>2. SwapInv' /\ PlanInv' /\ StateInv' /\ ConfigInv'
  BY <1>1 DEF RolloutInv, SwapInv, PlanInv, StateInv, ConfigInv, Reviewed
<1>3. CASE PreflightDigest
  <2>1. review'.digest = planFile /\ preflight' = preflight /\ preflight = NoReview
    BY <1>3 DEF PreflightDigest
  <2>2. ReviewInv'
    BY <1>1, <2>1 DEF ReviewInv
  <2> QED BY <1>2, <2>2 DEF RolloutInv
<1>4. CASE PreflightVerdict
  <2>1. review # NoReview /\ preflight = NoReview /\ review' = NoReview
    BY <1>4 DEF PreflightVerdict, RolloutInv, ReviewInv
  <2>2. preflight' # NoReview =>
          preflight' = review /\ ValidPlan(planFile, review.stage)
          /\ planFile.commit = review.commit
    BY <1>4, <2>1 DEF PreflightVerdict, BoundPlan
  <2>3. swap = "none" => planFile = review.digest
    BY <2>1 DEF RolloutInv, ReviewInv
  <2>4. preflight' # NoReview /\ (swap = "none" \/ planFile = preflight'.digest) =>
          Reviewed(preflight', preflight'.stage)
    BY <2>2, <2>3 DEF Reviewed
  <2>5. ReviewInv'
    BY <1>1, <2>1, <2>4 DEF ReviewInv, Reviewed
  <2> QED BY <1>2, <2>5 DEF RolloutInv
<1> QED BY <1>3, <1>4

(* An apply of a reviewed plan, perhaps of a part of it.                      *)
LEMMA ApplyStep == RolloutInv /\ ApplyReviewed => RolloutInv'
<1> SUFFICES ASSUME RolloutInv, ApplyReviewed PROVE RolloutInv'
  OBVIOUS
<1> DEFINE creates == {o \in LanObjects : planFile.lan[o] = "create"}
           deletes == {o \in LanObjects : planFile.lan[o] = "delete"}
<1>1. PICK made \in SUBSET creates, to \in {domain, <<>>, Realized(planFile.nics)} :
        /\ planFile.domain = "none" => to = domain
        /\ domain' = to
        /\ lan' = (lan \ deletes) \cup made
  BY DEF ApplyReviewed
<1>2. UNCHANGED <<at, good, config, status, swap, review>>
  BY DEF ApplyReviewed, acceptance
<1>3. preflight # NoReview /\ planFile = preflight.digest /\ review = NoReview
  BY DEF ApplyReviewed, RolloutInv, ReviewInv
<1>4. \/ planFile.stage = "hardware" /\ planFile' = NoPlan /\ preflight' = NoReview
      \/ planFile.stage = "configured" /\ UNCHANGED <<planFile, preflight>>
  BY DEF ApplyReviewed
<1>5. lan' \subseteq LanObjects
  BY <1>1 DEF RolloutInv, PlanInv
<1>6. PlanInv'
  <2>1. CASE planFile' = NoPlan
    BY <1>5, <2>1 DEF PlanInv, NoPlan, Stages
  <2>2. CASE planFile.stage = "configured" /\ planFile' = planFile
    BY <1>1, <1>5, <2>2 DEF RolloutInv, PlanInv
  <2> QED BY <1>4, <2>1, <2>2
<1>7. ReviewInv'
  BY <1>2, <1>3, <1>4 DEF RolloutInv, ReviewInv, Reviewed
<1>8. ConfigInv' /\ SwapInv'
  BY <1>2 DEF RolloutInv, ConfigInv, SwapInv, Reviewed
<1>9. StateInv'
  <2> SUFFICES ASSUME swap # "restored"
               PROVE  domain' \in Domains /\ (lan' # {} => domain' = <<Slo, Sli>>)
    BY <1>2 DEF StateInv
  <2>1. ValidPlan(planFile, preflight.stage)
    BY <1>3 DEF RolloutInv, ReviewInv, SwapInv, Reviewed
  <2>2. planFile.stage = preflight.stage /\ planFile.approved
    BY <2>1 DEF ValidPlan, LanContract
  <2>3. planFile.nics \in LanNics
    BY <1>4, <2>2 DEF RolloutInv, PlanInv, Stages
  <2>4. domain \in Domains /\ (lan # {} => domain = <<Slo, Sli>>)
    BY DEF RolloutInv, StateInv
  <2>5. CASE planFile.stage = "hardware"
    <3>1. /\ Realized(planFile.nics) = <<Slo, Sli>>
          /\ \A o \in LanObjects : planFile.lan[o] = "none"
      BY <2>1, <2>2, <2>3, <2>5, ValidHardware
    <3>2. lan = {}
      BY <2>5, <3>1 DEF RolloutInv, PlanInv
    <3>3. creates = {}
      BY <3>1
    <3>4. lan' = {}
      BY <1>1, <3>2, <3>3
    <3> QED BY <1>1, <2>4, <3>1, <3>4 DEF Domains
  <2>6. CASE planFile.stage = "configured"
    <3>1. planFile.domain = "none"
      BY <2>1, <2>2, <2>6, ValidConfigured
    <3>2. domain = Realized(planFile.nics)
      BY <2>6, <3>1 DEF RolloutInv, PlanInv
    <3>3. domain = <<Slo, Sli>>
      BY <2>3, <2>4, <3>2, RealizedLan DEF Domains
    <3> QED BY <1>1, <3>1, <3>3 DEF Domains
  <2> QED BY <1>4, <2>5, <2>6
<1> QED BY <1>6, <1>7, <1>8, <1>9 DEF RolloutInv

(* An acceptance believes a receipt only for the plan that lies there and for  *)
(* the configured stage.                                                     *)
LEMMA AcceptanceStep == RolloutInv /\ CollectVerification => RolloutInv'
<1> SUFFICES ASSUME RolloutInv, CollectVerification PROVE RolloutInv'
  OBVIOUS
<1> USE DEF Observes
<1>1. UNCHANGED <<domain, lan, planFile, preflight, review, swap>>
  BY DEF CollectVerification, AcceptanceStarts, SourceIdentity, SavedPlan,
         TerraformObservation, NetworkInventory, VmObservation, FrrObservation,
         ClientObservation, Evaluate, CollectionFails, rollout
<1>2. SwapInv' /\ PlanInv' /\ ReviewInv' /\ StateInv'
  BY <1>1 DEF RolloutInv, SwapInv, PlanInv, ReviewInv, StateInv, Reviewed
<1>3. ConfigInv
  BY DEF RolloutInv
<1>4. CASE AcceptanceStarts
  <2>1. ConfigInv'
    BY <1>3, <1>4 DEF AcceptanceStarts, ConfigInv
  <2> QED BY <1>2, <2>1 DEF RolloutInv
<1>5. CASE SourceIdentity
  <2>1. ConfigInv'
    BY <1>3, <1>5 DEF SourceIdentity, ConfigInv
  <2> QED BY <1>2, <2>1 DEF RolloutInv
<1>6. CASE SavedPlan
  <2>1. at = "plan" /\ at' = "terraform" /\ status' = status /\ config' = config
    BY <1>6 DEF SavedPlan
  <2>2. good' => /\ planFile = config.digest /\ preflight.digest = config.digest
                 /\ preflight.commit = config.commit /\ preflight.stage = "configured"
    BY <1>6 DEF SavedPlan
  <2>3. /\ swap = "none" => Reviewed(preflight, preflight.stage)
        /\ swap = "swapped" /\ planFile = preflight.digest =>
             Reviewed(preflight, preflight.stage)
        /\ swap \in {"none", "swapped", "restored"}
    BY <1>6 DEF SavedPlan, RolloutInv, ReviewInv, SwapInv
  <2>4. good' /\ swap # "restored" => Reviewed(config, "configured")
    BY <2>2, <2>3 DEF Reviewed
  <2>5. ConfigInv'
    BY <1>1, <1>3, <2>1, <2>4 DEF ConfigInv, Reviewed
  <2> QED BY <1>2, <2>5 DEF RolloutInv
<1>7. CASE TerraformObservation \/ NetworkInventory \/ VmObservation \/ FrrObservation
           \/ ClientObservation
  <2>1. /\ at \in {"terraform", "host", "vm", "frr", "client"}
        /\ at' \in {"host", "vm", "frr", "client", "evaluate"}
        /\ (good' => good) /\ status' = status /\ config' = config
    BY <1>7 DEF TerraformObservation, NetworkInventory, VmObservation, FrrObservation,
                ClientObservation
  <2>2. ConfigInv'
    BY <1>1, <1>3, <2>1 DEF ConfigInv, Reviewed
  <2> QED BY <1>2, <2>2 DEF RolloutInv
<1>8. CASE Evaluate
  <2>1. /\ at = "evaluate" /\ at' = "done" /\ config' = config
        /\ status' \in {"passed", "failed"} /\ (status' = "passed" => good)
    BY <1>8 DEF Evaluate
  <2>2. ConfigInv'
    BY <1>1, <1>3, <2>1 DEF ConfigInv, Reviewed
  <2> QED BY <1>2, <2>2 DEF RolloutInv
<1>9. CASE CollectionFails
  <2>1. ConfigInv'
    BY <1>3, <1>9 DEF CollectionFails, ConfigInv
  <2> QED BY <1>2, <2>1 DEF RolloutInv
<1> QED
  BY <1>2, <1>4, <1>5, <1>6, <1>7, <1>8, <1>9 DEF CollectVerification, RolloutInv

(* The other steps leave all of this alone.                                   *)
LEMMA RolloutNext == RolloutInv /\ [KvmNext]_kvmVars => RolloutInv'
<1> SUFFICES ASSUME RolloutInv, [KvmNext]_kvmVars PROVE RolloutInv'
  OBVIOUS
<1>1. CASE UNCHANGED <<domain, lan, planFile, preflight, review, at, good, config, status,
                      swap>>
  BY <1>1
  DEF RolloutInv, SwapInv, PlanInv, ReviewInv, StateInv, ConfigInv, Reviewed
<1>2. CASE HeadMoves \/ FactMoves
  BY <1>1, <1>2 DEF HeadMoves, FactMoves, acceptance
<1>3. CASE UNCHANGED kvmVars
  BY <1>1, <1>3 DEF kvmVars, rollout, acceptance
<1> QED
  BY <1>2, <1>3, SaveStep, PreflightStep, ApplyStep, AcceptanceStep DEF KvmNext

(* LAN objects exist only beside a domain with the SLO first and the bridged   *)
(* SLI second, whatever half-done applies left.                              *)
THEOREM LanAlwaysBehindHardware == KvmSpec => []LanBehindHardware
<1>1. RolloutInv => LanBehindHardware
  BY DEF RolloutInv, StateInv, LanBehindHardware
<1> QED BY <1>1, RolloutInit, RolloutNext, PTL DEF KvmSpec

(* A passed acceptance names a plan that was reviewed for the configured stage *)
(* and the commit it was made from.                                          *)
THEOREM AcceptanceReviewed == KvmSpec => []PassedReviewed
<1>1. RolloutInv => PassedReviewed
  BY DEF RolloutInv, ConfigInv, Reviewed, PassedReviewed
<1> QED BY <1>1, RolloutInit, RolloutNext, PTL DEF KvmSpec

------------------------------------------------------------------------------
(* What the acceptance has looked at still holds unless it moved afterwards.   *)
SeenInv ==
  /\ at = "done" <=> status # "none"
  /\ status = "passed" => good
  /\ good /\ (at # "done" \/ status = "passed") =>
       Looked \ ({"host_isolation"} \cup moved) \subseteq Standing

LEMMA SeenInit == KvmInit => SeenInv
<1> SUFFICES ASSUME KvmInit PROVE SeenInv
  OBVIOUS
<1>1. at = "idle" /\ status = "none"
  BY DEF KvmInit
<1>2. Looked = {}
  BY <1>1 DEF Looked, Past
<1> QED BY <1>1, <1>2 DEF SeenInv

(* A look that finds its facts as they should be adds them.                   *)
LEMMA LookStep ==
  ASSUME SeenInv, NEW here, NEW there, NEW holds, Observes(here, there, holds),
         NEW facts, here # "done", there # "done",
         Looked' \subseteq Looked \cup facts, holds => facts \subseteq Standing
  PROVE  SeenInv'
<1>1. (good' => good) /\ (good' => holds)
  <2>1. good' = (good /\ holds)
    BY DEF Observes
  <2> QED BY <2>1, Zenon
<1>2. UNCHANGED <<status, config, head, provenance, planFile, domain, lan, sound, moved>>
  BY DEF Observes, rollout
<1>3. Standing' = Standing
  BY <1>2 DEF Standing, Holding, LanComplete
<1>4. at = here /\ at' = there
  BY DEF Observes
<1> QED BY <1>1, <1>2, <1>3, <1>4 DEF SeenInv

LEMMA SeenAcceptance == SeenInv /\ CollectVerification => SeenInv'
<1> SUFFICES ASSUME SeenInv, CollectVerification PROVE SeenInv'
  OBVIOUS
<1>1. CASE AcceptanceStarts
  <2>1. at = "idle" /\ at' = "source" /\ status' = status
    BY <1>1 DEF AcceptanceStarts
  <2>2. Looked' = {}
    BY <2>1 DEF Looked, Past
  <2> QED BY <2>1, <2>2 DEF SeenInv
<1>2. CASE SourceIdentity
  <2> DEFINE named == head = config.commit
  <2>1. Observes("source", "plan", named)
    BY <1>2 DEF SourceIdentity
  <2>2. Looked' \subseteq Looked \cup {"source"}
    BY <2>1 DEF Observes, Looked, Past
  <2>3. named => {"source"} \subseteq Standing
    BY DEF Standing, LiveFacts, Checks, HostChecks, VmChecks, XcChecks, FrrChecks, ClientChecks
  <2> HIDE DEF named
  <2> QED BY <2>1, <2>2, <2>3, LookStep
<1>3. CASE SavedPlan
  <2> DEFINE bound == /\ planFile = config.digest
                      /\ preflight.digest = config.digest
                      /\ preflight.commit = config.commit
                      /\ preflight.stage = "configured"
  <2>1. Observes("plan", "terraform", bound)
    BY <1>3 DEF SavedPlan
  <2>2. Looked' \subseteq Looked \cup {"saved_plan"}
    BY <2>1 DEF Observes, Looked, Past
  <2>3. bound => {"saved_plan"} \subseteq Standing
    BY DEF Standing, LiveFacts, Checks, HostChecks, VmChecks, XcChecks, FrrChecks, ClientChecks
  <2> HIDE DEF bound
  <2> QED BY <2>1, <2>2, <2>3, LookStep
<1>4. CASE TerraformObservation
  <2> DEFINE planned == /\ LanComplete /\ XcChecks \subseteq Holding
                        /\ provenance = config.commit
  <2>1. Observes("terraform", "host", planned)
    BY <1>4 DEF TerraformObservation
  <2>2. Looked' \subseteq Looked \cup XcChecks \cup {"provenance"}
    BY <2>1 DEF Observes, Looked, Past
  <2>3. planned => XcChecks \cup {"provenance"} \subseteq Standing
    BY DEF Standing, LiveFacts, Checks, HostChecks, VmChecks, XcChecks, FrrChecks, ClientChecks
  <2> HIDE DEF planned
  <2> QED BY <2>1, <2>2, <2>3, LookStep
<1>5. CASE NetworkInventory
  <2>1. PICK unseen \in {{}, {"host_isolation"}} :
          Observes("host", "vm", (HostChecks \cup {"host_isolation"}) \ unseen \subseteq Holding)
    BY <1>5 DEF NetworkInventory
  <2> DEFINE seen == (HostChecks \cup {"host_isolation"}) \ unseen \subseteq Holding
  <2>2. Looked' \subseteq Looked \cup HostChecks
    BY <2>1 DEF Observes, Looked, Past
  <2>3. seen => HostChecks \subseteq Standing
    BY <2>1 DEF Standing, LiveFacts, Checks, HostChecks
  <2>4. Observes("host", "vm", seen)
    BY <2>1
  <2> HIDE DEF seen
  <2> QED BY <2>2, <2>3, <2>4, LookStep
<1>6. CASE VmObservation
  <2> DEFINE seen == VmChecks \subseteq Holding
  <2>1. Observes("vm", "frr", seen)
    BY <1>6 DEF VmObservation
  <2>2. Looked' \subseteq Looked \cup VmChecks
    BY <2>1 DEF Observes, Looked, Past
  <2>3. seen => VmChecks \subseteq Standing
    BY DEF Standing, LiveFacts, Checks, VmChecks
  <2> HIDE DEF seen
  <2> QED BY <2>1, <2>2, <2>3, LookStep
<1>7. CASE FrrObservation
  <2> DEFINE seen == FrrChecks \subseteq Holding
  <2>1. Observes("frr", "client", seen)
    BY <1>7 DEF FrrObservation
  <2>2. Looked' \subseteq Looked \cup FrrChecks
    BY <2>1 DEF Observes, Looked, Past
  <2>3. seen => FrrChecks \subseteq Standing
    BY DEF Standing, LiveFacts, Checks, FrrChecks
  <2> HIDE DEF seen
  <2> QED BY <2>1, <2>2, <2>3, LookStep
<1>8. CASE ClientObservation
  <2> DEFINE seen == ClientChecks \subseteq Holding
  <2>1. Observes("client", "evaluate", seen)
    BY <1>8 DEF ClientObservation
  <2>2. Looked' \subseteq Looked \cup ClientChecks
    BY <2>1 DEF Observes, Looked, Past
  <2>3. seen => ClientChecks \subseteq Standing
    BY DEF Standing, LiveFacts, Checks, ClientChecks
  <2> HIDE DEF seen
  <2> QED BY <2>1, <2>2, <2>3, LookStep
<1>9. CASE Evaluate
  <2>1. UNCHANGED <<good, config, head, provenance, planFile, domain, lan, sound, moved>>
    BY <1>9 DEF Evaluate, rollout
  <2>2. Standing' = Standing
    BY <2>1 DEF Standing, Holding, LanComplete
  <2>3. at = "evaluate" /\ at' = "done" /\ status' \in {"passed", "failed"}
        /\ (status' = "passed" => good)
    BY <1>9 DEF Evaluate
  <2>4. Looked' = Looked
    BY <2>3 DEF Looked, Past
  <2> QED BY <2>1, <2>2, <2>3, <2>4 DEF SeenInv
<1>10. CASE CollectionFails
  BY <1>10 DEF CollectionFails, SeenInv
<1> QED
  BY <1>1, <1>2, <1>3, <1>4, <1>5, <1>6, <1>7, <1>8, <1>9, <1>10 DEF CollectVerification

(* What moves before its look is looked at as it then is, what moves after it  *)
(* is noted; nothing else changes.                                           *)
LEMMA MovesStep ==
  ASSUME SeenInv, NEW facts, Moves(facts), UNCHANGED <<at, config, good, status>>,
         Standing \ (facts \cup {"host_isolation"}) \subseteq Standing'
  PROVE  SeenInv'
<1>1. Looked' = Looked
  BY DEF Looked, Past
<1>2. \A f \in Looked : f \notin moved' => f \notin facts /\ f \notin moved
  BY DEF Moves
<1> QED BY <1>1, <1>2 DEF SeenInv

LEMMA SeenNext == SeenInv /\ [KvmNext]_kvmVars => SeenInv'
<1> SUFFICES ASSUME SeenInv, [KvmNext]_kvmVars PROVE SeenInv'
  OBVIOUS
<1> USE DEF acceptance
<1>1. CASE SavePlan
  <2>1. Standing \ {"saved_plan"} \subseteq Standing'
    BY <1>1 DEF SavePlan, Standing, Holding, LanComplete
  <2> QED BY <1>1, <2>1, MovesStep DEF SavePlan
<1>2. CASE ApplyReviewed
  <2> DEFINE facts == {"saved_plan", "provenance", "vm_nics", "xc_site", "xc_interfaces"}
                        \cup ClientChecks
  <2>1. Standing \ facts \subseteq Standing'
    BY <1>2 DEF ApplyReviewed, Standing, Holding
  <2>2. Moves(facts) /\ UNCHANGED <<at, config, good, status>>
    BY <1>2 DEF ApplyReviewed
  <2> HIDE DEF facts
  <2> QED BY <2>1, <2>2, MovesStep
<1>3. CASE HeadMoves
  <2>1. Standing \ {"source"} \subseteq Standing'
    BY <1>3 DEF HeadMoves, Standing, Holding, LanComplete
  <2> QED BY <1>3, <2>1, MovesStep DEF HeadMoves
<1>4. CASE FactMoves
  <2>1. PICK c \in Fragile :
          /\ sound' = IF c \in sound THEN sound \ {c} ELSE sound \cup {c}
          /\ Moves({c})
    BY <1>4 DEF FactMoves
  <2>2. \A f : f \in sound /\ f # c => f \in sound'
    BY <2>1
  <2>3. Standing \ {c} \subseteq Standing'
    BY <1>4, <2>2 DEF FactMoves, Standing, Holding, LanComplete
  <2> QED BY <1>4, <2>1, <2>3, MovesStep DEF FactMoves
<1>5. CASE PreflightDigest \/ PreflightVerdict \/ UNCHANGED kvmVars
  <2>1. UNCHANGED <<at, config, good, status, moved, head, provenance, planFile, domain, lan,
                    sound>>
    BY <1>5 DEF PreflightDigest, PreflightVerdict, kvmVars, rollout
  <2>2. Standing' = Standing /\ Looked' = Looked
    BY <2>1 DEF Standing, Holding, LanComplete, Looked, Past
  <2> QED BY <2>1, <2>2 DEF SeenInv
<1> QED BY <1>1, <1>2, <1>3, <1>4, <1>5, SeenAcceptance DEF KvmNext

(* Whatever moves while kvm-lan-live-acceptance.py looks: every check it       *)
(* passed holds, but what moved after its own look and the isolation of the  *)
(* bridge, for any plans, proposals and facts that may move.                 *)
THEOREM AcceptanceObserved == KvmSpec => []PassedObserved
<1>1. SeenInv => PassedObserved
  <2> SUFFICES ASSUME SeenInv, status = "passed"
               PROVE  LiveFacts \ ({"host_isolation"} \cup moved) \subseteq Standing
    BY DEF PassedObserved
  <2>1. at = "done" /\ good
    BY DEF SeenInv
  <2>2. LiveFacts \ {"host_isolation"} \subseteq Looked
    BY <2>1 DEF Looked, Past, LiveFacts, Checks
  <2> QED BY <2>1, <2>2 DEF SeenInv
<1> QED BY <1>1, SeenInit, SeenNext, PTL DEF KvmSpec

------------------------------------------------------------------------------
(* Types.  A plan is made from one of the two commits, and whatever has been   *)
(* reviewed is a plan.                                                       *)
KvmTypeInv ==
  /\ KvmTypeOK
  /\ planFile # NoPlan => planFile.commit \in {1, 2}
  /\ review # NoReview => review.digest # NoPlan
  /\ preflight # NoReview => preflight.digest # NoPlan

LEMMA RealizedType ==
  ASSUME NEW nics \in Seq(Nics)
  PROVE  Realized(nics) \in Seq(Nics)
<1>1. /\ \A i \in DOMAIN nics : nics[i] \in Nics
      /\ DOMAIN nics = 1..Len(nics) /\ Len(nics) \in Nat
  OBVIOUS
<1>2. \A i \in DOMAIN nics :
        (IF nics[i].backing = "unknown" THEN Nic("network", nics[i].bound, nics[i].mac)
         ELSE nics[i]) \in Nics
  BY <1>1 DEF Nics, Nic
<1>3. Realized(nics) \in [1..Len(nics) -> Nics]
  BY <1>1, <1>2 DEF Realized
<1> QED BY <1>1, <1>3

LEMMA PlanForType ==
  ASSUME KvmTypeOK, NEW stage \in Stages, NEW p \in Proposals
  PROVE  PlanFor(stage, p) \in KvmPlans /\ PlanFor(stage, p).commit \in {1, 2}
<1> DEFINE dom == IF domain = Realized(p.nics) THEN "none"
                  ELSE IF domain = <<>> THEN "create" ELSE p.change
           objects == [o \in LanObjects |->
                         IF stage = "configured" /\ o \notin lan THEN "create"
                         ELSE IF stage = "hardware" /\ o \in lan THEN "delete" ELSE "none"]
<1>1. p.approved \in BOOLEAN /\ p.nics \in Seq(Nics) /\ p.change \in {"replace", "update"}
  BY KvmLanAssumption
<1>2. dom \in Actions
  BY <1>1 DEF Actions
<1>3. objects \in [LanObjects -> Actions]
  BY DEF Actions
<1>4. head \in Nat /\ head \in {1, 2}
  BY DEF KvmTypeOK
<1>5. PlanFor(stage, p) =
        [stage |-> stage, approved |-> p.approved, commit |-> head, nics |-> p.nics,
         domain |-> dom, lan |-> objects, unrelated |-> FALSE, adopts |-> "owned"]
  BY DEF PlanFor
<1>6. "owned" \in {"owned", "foreign"} /\ FALSE \in BOOLEAN
  OBVIOUS
<1> HIDE DEF dom, objects
<1> QED BY <1>1, <1>2, <1>3, <1>4, <1>5, <1>6 DEF KvmPlans

LEMMA KvmTypeInit == KvmInit => KvmTypeInv
<1> SUFFICES ASSUME KvmInit PROVE KvmTypeInv
  OBVIOUS
<1>1. <<Slo>> \in Seq(Nics)
  BY DEF Slo, Nic, Nics
<1>2. NoReview \in [digest : KvmPlans \cup {NoPlan}, stage : Stages \cup {"none"},
                    commit : 0..2]
  BY DEF NoReview
<1>3. planFile = NoPlan /\ review = NoReview /\ preflight = NoReview
  BY DEF KvmInit
<1>4. /\ domain \in Seq(Nics) /\ lan \subseteq LanObjects /\ planFile \in KvmPlans \cup {NoPlan}
      /\ head \in {1, 2} /\ provenance \in {1, 2} /\ sound \subseteq Checks
  BY <1>1, <1>3 DEF KvmInit
<1>5. {preflight, review, config} \subseteq
        [digest : KvmPlans \cup {NoPlan}, stage : Stages \cup {"none"}, commit : 0..2]
  <2>1. config = NoReview
    BY DEF KvmInit
  <2> QED BY <1>2, <1>3, <2>1
<1>6. /\ drifts \in 0..MaxDrifts /\ plans \in 0..MaxPlans /\ applies \in 0..MaxApplies
      /\ at = "idle" /\ status = "none" /\ swap = "none" /\ moved = {} /\ good = TRUE
  BY KvmLanAssumption DEF KvmInit
<1> QED BY <1>3, <1>4, <1>5, <1>6 DEF KvmTypeInv, KvmTypeOK

LEMMA ApplyType == KvmTypeInv /\ ApplyReviewed => KvmTypeInv'
<1> SUFFICES ASSUME KvmTypeInv, ApplyReviewed PROVE KvmTypeInv'
  OBVIOUS
<1>1. planFile \in KvmPlans /\ planFile.commit \in {1, 2}
  BY DEF KvmTypeInv, KvmTypeOK, ApplyReviewed
<1>2. Realized(planFile.nics) \in Seq(Nics) /\ <<>> \in Seq(Nics)
  BY <1>1, RealizedType DEF KvmPlans
<1>3. domain' \in Seq(Nics) /\ lan' \subseteq LanObjects /\ provenance' \in {1, 2}
  <2>1. /\ domain' \in {domain, <<>>, Realized(planFile.nics)}
        /\ lan' \subseteq lan \cup LanObjects
        /\ provenance' \in {planFile.commit, provenance}
    BY DEF ApplyReviewed
  <2> QED BY <1>1, <1>2, <2>1 DEF KvmTypeInv, KvmTypeOK
<1>4. /\ planFile' \in {planFile, NoPlan} /\ preflight' \in {preflight, NoReview}
      /\ applies' \in 0..MaxApplies /\ moved' \subseteq LiveFacts
      /\ UNCHANGED <<head, review, swap, sound, acceptance, drifts, plans>>
  BY KvmLanAssumption DEF ApplyReviewed, KvmTypeInv, KvmTypeOK, Moves, Looked
<1>5. NoReview \in [digest : KvmPlans \cup {NoPlan}, stage : Stages \cup {"none"},
                    commit : 0..2]
  BY DEF NoReview
<1>6. KvmTypeOK'
  BY <1>3, <1>4, <1>5 DEF KvmTypeInv, KvmTypeOK, acceptance
<1>7. /\ planFile' # NoPlan => planFile'.commit \in {1, 2}
      /\ review' # NoReview => review'.digest # NoPlan
      /\ preflight' # NoReview => preflight'.digest # NoPlan
  BY <1>1, <1>4 DEF KvmTypeInv
<1> QED BY <1>6, <1>7 DEF KvmTypeInv

LEMMA AcceptanceType == KvmTypeInv /\ CollectVerification => KvmTypeInv'
<1> SUFFICES ASSUME KvmTypeInv, CollectVerification PROVE KvmTypeInv'
  OBVIOUS
<1>1. UNCHANGED <<rollout, bounds, swap, moved>>
  BY DEF CollectVerification, AcceptanceStarts, SourceIdentity, SavedPlan,
         TerraformObservation, NetworkInventory, VmObservation, FrrObservation,
         ClientObservation, Evaluate, CollectionFails, Observes
<1>2. /\ at' \in {"source", "plan", "terraform", "host", "vm", "frr", "client",
                  "evaluate", "done"}
      /\ status' \in {status, "passed", "failed"}
  BY DEF CollectVerification, AcceptanceStarts, SourceIdentity, SavedPlan,
         TerraformObservation, NetworkInventory, VmObservation, FrrObservation,
         ClientObservation, Evaluate, CollectionFails, Observes
<1>3. good' \in BOOLEAN
  BY DEF CollectVerification, AcceptanceStarts, SourceIdentity, SavedPlan,
         TerraformObservation, NetworkInventory, VmObservation, FrrObservation,
         ClientObservation, Evaluate, CollectionFails, Observes, KvmTypeInv, KvmTypeOK
<1>4. config' \in [digest : KvmPlans \cup {NoPlan}, stage : Stages \cup {"none"}, commit : 0..2]
  <2>1. CASE AcceptanceStarts
    <3>1. PICK plan \in {planFile, preflight.digest}, commit \in {head, preflight.commit} :
            config' = [digest |-> plan, stage |-> "configured", commit |-> commit]
      BY <2>1 DEF AcceptanceStarts
    <3>2. preflight \in [digest : KvmPlans \cup {NoPlan}, stage : Stages \cup {"none"},
                         commit : 0..2]
      BY DEF KvmTypeInv, KvmTypeOK
    <3>3. plan \in KvmPlans \cup {NoPlan} /\ commit \in 0..2 /\ "configured" \in Stages
      BY <3>1, <3>2 DEF KvmTypeInv, KvmTypeOK, Stages
    <3> QED BY <3>1, <3>3
  <2>2. CASE ~AcceptanceStarts
    <3>1. config' = config
      BY <2>2 DEF CollectVerification, SourceIdentity, SavedPlan, TerraformObservation,
         NetworkInventory, VmObservation, FrrObservation, ClientObservation, Evaluate,
         CollectionFails, Observes
    <3> QED BY <3>1 DEF KvmTypeInv, KvmTypeOK
  <2> QED BY <2>1, <2>2
<1> QED BY <1>1, <1>2, <1>3, <1>4 DEF KvmTypeInv, KvmTypeOK, rollout, bounds

LEMMA KvmTypeStep == KvmTypeInv /\ [KvmNext]_kvmVars => KvmTypeInv'
<1> SUFFICES ASSUME KvmTypeInv, [KvmNext]_kvmVars PROVE KvmTypeInv'
  OBVIOUS
<1>1. CASE SavePlan
  <2>1. planFile' \in KvmPlans /\ planFile'.commit \in {1, 2}
    BY <1>1, PlanForType DEF SavePlan, KvmTypeInv
  <2>2. plans' \in 0..MaxPlans /\ moved' \subseteq LiveFacts
    BY <1>1, KvmLanAssumption DEF SavePlan, Moves, Looked, KvmTypeInv, KvmTypeOK
  <2>3. swap' \in {"none", "swapped", "restored"}
    BY <1>1 DEF SavePlan, KvmTypeInv, KvmTypeOK
  <2> QED BY <1>1, <2>1, <2>2, <2>3 DEF SavePlan, KvmTypeInv, KvmTypeOK, acceptance
<1>2. CASE PreflightDigest
  <2>1. PICK stage \in Stages :
          review' = [digest |-> planFile, stage |-> stage, commit |-> head]
    BY <1>2 DEF PreflightDigest
  <2>2. /\ review' \in [digest : KvmPlans \cup {NoPlan}, stage : Stages \cup {"none"},
                        commit : 0..2]
        /\ review'.digest # NoPlan
    BY <1>2, <2>1 DEF PreflightDigest, KvmTypeInv, KvmTypeOK
  <2>3. UNCHANGED <<head, domain, lan, provenance, sound, planFile, preflight, at, config,
                    good, status, drifts, plans, applies, swap, moved>>
    BY <1>2 DEF PreflightDigest, acceptance, bounds
  <2>4. KvmTypeOK'
    BY <2>2, <2>3 DEF KvmTypeInv, KvmTypeOK
  <2> QED BY <2>2, <2>3, <2>4 DEF KvmTypeInv
<1>3. CASE PreflightVerdict
  <2>1. preflight' \in {review, preflight} /\ review' = NoReview /\ review # NoReview
    BY <1>3 DEF PreflightVerdict
  <2>2. NoReview \in [digest : KvmPlans \cup {NoPlan}, stage : Stages \cup {"none"},
                      commit : 0..2]
    BY DEF NoReview
  <2>3. UNCHANGED <<swap, moved>>
    BY <1>3 DEF PreflightVerdict
  <2> QED
    BY <1>3, <2>1, <2>2, <2>3 DEF PreflightVerdict, KvmTypeInv, KvmTypeOK, acceptance, bounds
<1>4. CASE ApplyReviewed
  BY <1>4, ApplyType
<1>5. CASE HeadMoves \/ FactMoves
  <2>1. drifts' \in 0..MaxDrifts /\ moved' \subseteq LiveFacts /\ head' \in {1, 2}
    <3>1. drifts' \in 0..MaxDrifts
      BY <1>5, KvmLanAssumption DEF HeadMoves, FactMoves, KvmTypeInv, KvmTypeOK
    <3>2. moved' \subseteq LiveFacts
      BY <1>5 DEF HeadMoves, FactMoves, Moves, Looked, KvmTypeInv, KvmTypeOK
    <3>3. head' \in {1, 2}
      BY <1>5 DEF HeadMoves, FactMoves, KvmTypeInv, KvmTypeOK
    <3> QED BY <3>1, <3>2, <3>3
  <2>3. sound' \subseteq Checks
    <3>1. sound' = sound \/ \E c \in Fragile : sound' = sound \ {c} \/ sound' = sound \cup {c}
      BY <1>5 DEF HeadMoves, FactMoves
    <3>2. sound \subseteq Checks /\ Fragile \subseteq Checks
      BY KvmLanAssumption DEF KvmTypeInv, KvmTypeOK
    <3> QED BY <3>1, <3>2
  <2>2. UNCHANGED <<domain, lan, provenance, planFile, preflight, review, acceptance,
                    plans, applies, swap>>
    BY <1>5 DEF HeadMoves, FactMoves
  <2> QED BY <2>1, <2>2, <2>3 DEF KvmTypeInv, KvmTypeOK, acceptance
<1>6. CASE CollectVerification
  BY <1>6, AcceptanceType
<1>7. CASE UNCHANGED kvmVars
  BY <1>7 DEF kvmVars, rollout, bounds, acceptance, KvmTypeInv, KvmTypeOK
<1> QED BY <1>1, <1>2, <1>3, <1>4, <1>5, <1>6, <1>7 DEF KvmNext
=============================================================================
