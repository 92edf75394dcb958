--------------------------- MODULE OperatorToolsProofs ---------------------------
(***************************************************************************)
(* Theorems about the smaller programs of an operator, one program after     *)
(* the other: for any number of invocations, attempts, samples and nodes;    *)
(* and that all of them, beside each other, behave as each does alone.      *)
(***************************************************************************)
EXTENDS MCOperatorTools, AzureProofs, KvmLanProofs

------------------------------------------------------------------------------
(* The image cache: what a fetcher knows.  From its lock on until its curl    *)
(* has ended it is the only one that holds the lock.                         *)
HasLock(f) == f \in curls \/ fetching[f] \in {"check", "curl", "verify", "move"}

FetcherKnows(f) ==
  /\ HasLock(f) => locks = {f}
  /\ f \in curls => fetching[f] \in {"curl", "end"}
  /\ f \in curls \/ fetching[f] \in {"curl", "verify", "move"} => cached # "good"
  /\ fetching[f] = "move" => partial[f] = "good"

CacheIInv ==
  /\ CacheTypeOK
  /\ ensured # {} => cached = "good"
  /\ \A f \in Fetchers : FetcherKnows(f)

LEMMA CacheInitInv == CacheInit => CacheIInv
BY DEF CacheInit, CacheIInv, CacheTypeOK, FetcherKnows, HasLock

LEMMA CacheStepType == CacheIInv /\ [CacheNext]_cacheVars => CacheTypeOK'
<1> SUFFICES ASSUME CacheIInv, [CacheNext]_cacheVars PROVE CacheTypeOK'
  OBVIOUS
<1> USE DEF CacheTypeOK, ScriptAt
<1> CacheTypeOK BY DEF CacheIInv
<1>1. ASSUME NEW f \in Fetchers, TakeLock(f) PROVE CacheTypeOK'
  BY <1>1 DEF TakeLock
<1>2. ASSUME NEW f \in Fetchers, CacheHit(f) PROVE CacheTypeOK'
  BY <1>2 DEF CacheHit
<1>3. ASSUME NEW f \in Fetchers, StartCurl(f) PROVE CacheTypeOK'
  BY <1>3 DEF StartCurl
<1>4. ASSUME NEW f \in Fetchers, CurlEnds(f) PROVE CacheTypeOK'
  BY <1>4 DEF CurlEnds
<1>5. ASSUME NEW f \in Fetchers, VerifyPartial(f) PROVE CacheTypeOK'
  BY <1>5 DEF VerifyPartial
<1>6. ASSUME NEW f \in Fetchers, MovePartial(f) PROVE CacheTypeOK'
  BY <1>6 DEF MovePartial, CacheIInv, FetcherKnows
<1>7. ASSUME NEW f \in Fetchers, FetcherKilled(f) PROVE CacheTypeOK'
  BY <1>7 DEF FetcherKilled
<1>8. CASE UNCHANGED cacheVars
  BY <1>8 DEF cacheVars
<1> QED BY <1>1, <1>2, <1>3, <1>4, <1>5, <1>6, <1>7, <1>8 DEF CacheNext

LEMMA CacheStepInv == CacheIInv /\ [CacheNext]_cacheVars => CacheIInv'
<1> SUFFICES ASSUME CacheIInv, [CacheNext]_cacheVars PROVE CacheIInv'
  OBVIOUS
<1>0. CacheTypeOK'
  BY CacheStepType
<1> USE <1>0 DEF CacheIInv, CacheTypeOK, FetcherKnows, HasLock, ScriptAt
<1>1. ASSUME NEW f \in Fetchers, TakeLock(f) PROVE CacheIInv'
  BY <1>1 DEF TakeLock
<1>2. ASSUME NEW f \in Fetchers, CacheHit(f) PROVE CacheIInv'
  BY <1>2 DEF CacheHit
<1>3. ASSUME NEW f \in Fetchers, StartCurl(f) PROVE CacheIInv'
  BY <1>3 DEF StartCurl
<1>4. ASSUME NEW f \in Fetchers, CurlEnds(f) PROVE CacheIInv'
  BY <1>4 DEF CurlEnds
<1>5. ASSUME NEW f \in Fetchers, VerifyPartial(f) PROVE CacheIInv'
  BY <1>5 DEF VerifyPartial
<1>6. ASSUME NEW f \in Fetchers, MovePartial(f) PROVE CacheIInv'
  BY <1>6 DEF MovePartial
<1>7. ASSUME NEW f \in Fetchers, FetcherKilled(f) PROVE CacheIInv'
  BY <1>7 DEF FetcherKilled
<1>8. CASE UNCHANGED cacheVars
  BY <1>8 DEF cacheVars
<1> QED BY <1>1, <1>2, <1>3, <1>4, <1>5, <1>6, <1>7, <1>8 DEF CacheNext

LEMMA CacheImplied == CacheIInv => CacheInv
<1> SUFFICES ASSUME CacheIInv PROVE CacheInv
  OBVIOUS
<1> USE DEF CacheIInv, CacheTypeOK, FetcherKnows, HasLock
<1>1. Cardinality(curls) <= 1
  <2>1. CASE curls = {}
    BY <2>1, FS_EmptySet
  <2>2. ASSUME NEW f \in curls PROVE Cardinality(curls) = 1
    <3>1. curls = {f}
      BY <2>2
    <3> QED BY <3>1, FS_Singleton
  <2> QED BY <2>1, <2>2
<1>2. \A f \in Fetchers : f \in curls \/ fetching[f] \in {"curl", "verify", "move"} =>
        cached # "good" /\ locks = {f}
  OBVIOUS
<1> QED BY <1>1, <1>2 DEF CacheInv

(* An invocation of ensure-verified-kvm-image.sh that exits with 0 leaves the *)
(* verified image, and no image is downloaded twice at once or once more     *)
(* when it is there: for any number of fetchers, some of them killed.        *)
THEOREM CacheAlwaysVerified == CacheSpec => []CacheInv
<1>1. CacheSpec => []CacheIInv
  BY CacheInitInv, CacheStepInv, PTL DEF CacheSpec
<1> QED BY <1>1, CacheImplied, PTL

------------------------------------------------------------------------------
(* The verification of the LAN client: what it has seen, it still holds unless *)
(* it changed afterwards.                                                    *)
VerificationKnows(v) ==
  /\ checking[v] \notin {"begin", "failed"} => evidenceDir = v
  /\ v \in summaryFile => checking[v] = "passed"
  /\ v \in partSummary => checking[v] = "failed" /\ evidenceDir = v
  /\ checking[v] \in {"begin", "outputs", "contract", "host", "route", "client", "dns",
                      "origin"} => samples[v] = 0
  /\ checking[v] = "vip" => samples[v] < Samples
  /\ checking[v] \in {"after", "summary", "passed"} => samples[v] = Samples
  /\ \A fact \in LanFacts :
       checking[v] \in Behind(fact) /\ fact \notin movedAfter[v] => fact \in lanFacts
  /\ checking[v] \in Behind("route") /\ "route" \notin movedAfter[v] =>
       defaultRoute = routeBefore[v]

LanClientInv == LanClientTypeOK /\ \A v \in Verifications : VerificationKnows(v)

LEMMA LanClientInitInv == LanClientInit => LanClientInv
BY LanClientAssumption
   DEF LanClientInit, LanClientInv, LanClientTypeOK, VerificationKnows, LanFacts, Behind

LEMMA LanClientStepInv == LanClientInv /\ [LanClientNext]_lanClientVars => LanClientInv'
<1> SUFFICES ASSUME LanClientInv, [LanClientNext]_lanClientVars PROVE LanClientInv'
  OBVIOUS
<1> USE LanClientAssumption
    DEF LanClientInv, LanClientTypeOK, VerificationKnows, LanFacts, Behind, LanStep
<1>1. ASSUME NEW v \in Verifications, MakeDirectory(v) PROVE LanClientInv'
  BY <1>1 DEF MakeDirectory
<1>2. ASSUME NEW v \in Verifications, CheckFact(v) PROVE LanClientInv'
  BY <1>2 DEF CheckFact
<1>3. ASSUME NEW v \in Verifications, RouteBefore(v) PROVE LanClientInv'
  BY <1>3 DEF RouteBefore
<1>4. ASSUME NEW v \in Verifications, SampleVip(v) PROVE LanClientInv'
  BY <1>4 DEF SampleVip
<1>5. ASSUME NEW v \in Verifications, RouteAfter(v) PROVE LanClientInv'
  BY <1>5 DEF RouteAfter
<1>6. ASSUME NEW v \in Verifications, WriteSummary(v) PROVE LanClientInv'
  BY <1>6 DEF WriteSummary
<1>7. ASSUME NEW v \in Verifications, SummaryFails(v) PROVE LanClientInv'
  BY <1>7 DEF SummaryFails
<1>8. ASSUME NEW v \in Verifications, VerificationFails(v) PROVE LanClientInv'
  BY <1>8 DEF VerificationFails
<1>9. CASE LanMoves
  BY <1>9 DEF LanMoves, MovedAfter
<1>10. CASE UNCHANGED lanClientVars
  BY <1>10 DEF lanClientVars
<1> QED
  BY <1>1, <1>2, <1>3, <1>4, <1>5, <1>6, <1>7, <1>8, <1>9, <1>10 DEF LanClientNext

LEMMA LanClientImplied == LanClientInv => SummaryTrue
BY DEF LanClientInv, LanClientTypeOK, VerificationKnows, SummaryTrue, LanFacts, Behind

(* A whole summary of verify-kvm-lan-client.py is the only one of its         *)
(* directory, by the verification that created it and passed, and true but   *)
(* for what changed after that one's last look at it: for any number of      *)
(* verifications and samples.                                               *)
THEOREM SummaryAlwaysTrue == LanClientSpec => []SummaryTrue
<1>1. LanClientSpec => []LanClientInv
  BY LanClientInitInv, LanClientStepInv, PTL DEF LanClientSpec
<1> QED BY <1>1, LanClientImplied, PTL

------------------------------------------------------------------------------
(* The provider release: what a verifier has compared is as pinned while no   *)
(* other verifier downloads.                                                *)
ZipCompared == {"registry", "gpg", "sums", "tag", "run", "receipt", "passed"}
SumsCompared == {"sums", "tag", "run", "receipt", "passed"}

VerifierKnows(v) ==
  /\ v \in releasePassed => verifying[v] = "passed"
  /\ verifying[v] \in ZipCompared /\ ~crossed[v] => files["zip"] = "pinned"
  /\ verifying[v] \in SumsCompared /\ ~crossed[v] =>
       files["SHA256SUMS"] = "pinned" /\ files["SHA256SUMS.sig"] = "pinned"

ReleaseInv == ProviderTypeOK /\ \A v \in Verifiers : VerifierKnows(v)

LEMMA ProviderInitInv == ProviderInit => ReleaseInv
<1> SUFFICES ASSUME ProviderInit PROVE ReleaseInv
  OBVIOUS
<1>1. crossed \in [Verifiers -> BOOLEAN]
  BY Zenon DEF ProviderInit
<1>2. ProviderTypeOK
  BY <1>1 DEF ProviderInit, ProviderTypeOK, Assets, Facts
<1>3. ASSUME NEW v \in Verifiers PROVE VerifierKnows(v)
  BY DEF ProviderInit, VerifierKnows, ZipCompared, SumsCompared
<1> QED BY <1>2, <1>3 DEF ReleaseInv

LEMMA ProviderStepInv == ReleaseInv /\ [ProviderNext]_providerVars => ReleaseInv'
<1> SUFFICES ASSUME ReleaseInv, [ProviderNext]_providerVars PROVE ReleaseInv'
  OBVIOUS
<1> USE DEF ReleaseInv, ProviderTypeOK, VerifierKnows, Assets, Facts, ZipCompared,
            SumsCompared, Passes
<1>0. ASSUME NEW v \in Verifiers, ReadRecord(v) PROVE ReleaseInv'
  BY <1>0 DEF ReadRecord
<1>1. ASSUME NEW v \in Verifiers, ReadFact(v) PROVE ReleaseInv'
  BY <1>1 DEF ReadFact
<1>2. ASSUME NEW v \in Verifiers, Download(v) PROVE ReleaseInv'
  <2>1. crossed' = [w \in Verifiers |-> crossed[w] \/ w # v]
    BY <1>2 DEF Download
  <2>2. crossed' \in [Verifiers -> BOOLEAN]
    BY <2>1, Zenon
  <2>3. crossed'[v] = crossed[v] /\ \A w \in Verifiers \ {v} : crossed'[w]
    BY <2>1
  <2>4. verifying'[v] \in Assets \cup {"spec"}
    BY <1>2 DEF Download
  <2>5. \A w \in Verifiers \ {v} : verifying'[w] = verifying[w]
    BY <1>2 DEF Download
  <2>6. ProviderTypeOK'
    BY <1>2, <2>2 DEF Download
  <2>7. releasePassed' = releasePassed /\ verifying[v] \in Assets
    BY <1>2 DEF Download
  <2> QED BY <2>3, <2>4, <2>5, <2>6, <2>7
<1>3. ASSUME NEW v \in Verifiers, ValidateIdentity(v) PROVE ReleaseInv'
  BY <1>3 DEF ValidateIdentity
<1>4. ASSUME NEW v \in Verifiers, VerifySignature(v) PROVE ReleaseInv'
  BY <1>4 DEF VerifySignature
<1>5. ASSUME NEW v \in Verifiers, WriteRelease(v) PROVE ReleaseInv'
  BY <1>5 DEF WriteRelease
<1>6. ASSUME NEW v \in Verifiers, VerifierFails(v) PROVE ReleaseInv'
  BY <1>6 DEF VerifierFails
<1>7. CASE PublicationMoves
  BY <1>7 DEF PublicationMoves
<1>8. CASE UNCHANGED providerVars
  BY <1>8 DEF providerVars
<1> QED BY <1>0, <1>1, <1>2, <1>3, <1>4, <1>5, <1>6, <1>7, <1>8 DEF ProviderNext

LEMMA ProviderImplied == ReleaseInv => ProviderPinned
BY DEF ReleaseInv, ProviderTypeOK, VerifierKnows, ProviderPinned, Assets, ZipCompared,
       SumsCompared

(* What verify-showcase-provider.py passed stays the pinned release in the    *)
(* private root, unless another verifier downloaded there since: for any     *)
(* number of verifiers, and a publication that may change at any time.       *)
THEOREM ProviderAlwaysPinned == ProviderSpec => []ProviderPinned
<1>1. ProviderSpec => []ReleaseInv
  BY ProviderInitInv, ProviderStepInv, PTL DEF ProviderSpec
<1> QED BY <1>1, ProviderImplied, PTL

------------------------------------------------------------------------------
(* The progress runner: what runs is known, but for the line that keeps it    *)
(* and for a signal before that line.                                       *)
Ended == IF command = "ok" THEN 0 ELSE 1

RunnerInv ==
  /\ RunnerTypeOK
  /\ gap # "none" => signalled
  /\ line \in {"command", "pid"} \/ gap = "pid" => heartbeat # "running"
  /\ gap = "pid" => line \in {"trapBeat", "trapCommand", "gone"}
  /\ command = "running" => gap = "pid" \/ "command" \in known \/ line = "pid"
  /\ heartbeat = "running" => gap = "beatPid" \/ "heartbeat" \in known \/ line = "beatPid"
  /\ line \in {"trapCommand", "gone"} /\ heartbeat = "running" => gap = "beatPid"
  /\ line = "gone" /\ command = "running" => gap = "pid"
  /\ line \in {"clear", "stopBeat", "exit"} => command \in {"ok", "failed"}
  /\ line \in {"clear", "stopBeat", "exit", "trapBeat", "trapCommand", "gone"} =>
       signalled \/ (command \in {"ok", "failed"} /\ exitCode = Ended)

LEMMA RunnerInitInv == RunnerInit => RunnerInv
<1> SUFFICES ASSUME RunnerInit PROVE RunnerInv
  OBVIOUS
<1>1. signalled \in BOOLEAN
  BY Zenon DEF RunnerInit
<1> QED BY <1>1 DEF RunnerInit, RunnerInv, RunnerTypeOK, NoCode, Ended

LEMMA RunnerStepInv == RunnerInv /\ [RunnerNext]_runnerVars => RunnerInv'
<1> SUFFICES ASSUME RunnerInv, [RunnerNext]_runnerVars PROVE RunnerInv'
  OBVIOUS
<1> USE DEF RunnerInv, RunnerTypeOK, Ended, NoCode, Interrupted, Line
<1>1. CASE StartCommand BY <1>1 DEF StartCommand
<1>2. CASE KeepCommandPid BY <1>2 DEF KeepCommandPid
<1>3. CASE StartHeartbeat BY <1>3 DEF StartHeartbeat
<1>4. CASE KeepHeartbeatPid BY <1>4 DEF KeepHeartbeatPid
<1>5. CASE WaitForCommand BY <1>5 DEF WaitForCommand
<1>6. CASE ForgetCommand BY <1>6 DEF ForgetCommand
<1>7. CASE StopHeartbeat BY <1>7 DEF StopHeartbeat
<1>8. CASE RunnerExits BY <1>8 DEF RunnerExits
<1>9. CASE CleanHeartbeat BY <1>9 DEF CleanHeartbeat
<1>10. CASE CleanCommand BY <1>10 DEF CleanCommand
<1>11. CASE HandleSignal
  <2>1. signalled' /\ signalled' \in BOOLEAN
    BY <1>11, Zenon DEF HandleSignal
  <2> QED BY <1>11, <2>1 DEF HandleSignal
<1>12. CASE CommandEnds BY <1>12 DEF CommandEnds
<1>13. CASE HeartbeatEnds BY <1>13 DEF HeartbeatEnds
<1>14. CASE UNCHANGED runnerVars BY <1>14 DEF runnerVars
<1> QED
  BY <1>1, <1>2, <1>3, <1>4, <1>5, <1>6, <1>7, <1>8, <1>9, <1>10, <1>11, <1>12, <1>13, <1>14
     DEF RunnerNext, Runner

LEMMA RunnerImplied == RunnerInv => CommandOutlived
BY DEF RunnerInv, RunnerTypeOK, CommandOutlived, Ended

(* run-with-progress.sh leaves no process behind, whenever a signal comes but *)
(* for the two lines that keep a process number, and without a signal ends   *)
(* with the status of its command.                                          *)
THEOREM CommandAlwaysOutlived == RunnerSpec => []CommandOutlived
<1>1. RunnerSpec => []RunnerInv
  BY RunnerInitInv, RunnerStepInv, PTL DEF RunnerSpec
<1> QED BY <1>1, RunnerImplied, PTL

------------------------------------------------------------------------------
(* The traffic receipt: which logs are this attempt's already, and what an    *)
(* opened receipt says.  No attempt follows one that opened its receipt.     *)
Logged(s) == IF s = "http" THEN {"https", "remove", "fetch", "open", "fill"}
             ELSE {"remove", "fetch", "open", "fill"}

AttemptKnows ==
  /\ doing # "end" => attempt > 0
  /\ \A s \in Schemes : doing \in Logged(s) => clientLogs[s] = attempt
  /\ doing \in {"open", "fill"} => originLog.by = attempt
  /\ receipt # NoReceipt => doing \in {"fill", "end"}
  /\ doing = "fill" => receipt # NoReceipt

TrafficInv == TrafficTypeOK /\ AttemptKnows /\ EvidenceMatches

LEMMA TrafficInitInv == TrafficInit => TrafficInv
<1> SUFFICES ASSUME TrafficInit PROVE TrafficInv
  OBVIOUS
<1>1. TrafficTypeOK
  <2>1. routeOk \in BOOLEAN
    BY Zenon DEF TrafficInit
  <2>2. receipt \in [by : 0..MaxAttempts, whole : BOOLEAN, accepted : BOOLEAN]
    BY AttemptsAssumption DEF TrafficInit, NoReceipt
  <2> QED BY <2>1, <2>2, AttemptsAssumption DEF TrafficInit, TrafficTypeOK, Schemes
<1>2. AttemptKnows
  BY DEF TrafficInit, AttemptKnows, Logged
<1>3. EvidenceMatches
  BY DEF TrafficInit, EvidenceMatches
<1> QED BY <1>1, <1>2, <1>3 DEF TrafficInv

LEMMA TrafficStepInv == TrafficInv /\ [TrafficNext]_trafficVars => TrafficInv'
<1> SUFFICES ASSUME TrafficInv, [TrafficNext]_trafficVars PROVE TrafficInv'
  OBVIOUS
<1> USE AttemptsAssumption
    DEF TrafficInv, TrafficTypeOK, AttemptKnows, EvidenceMatches, Logged, Does, Schemes
<1>1. CASE BeginAttempt BY <1>1 DEF BeginAttempt
<1>2. CASE RouteToCe BY <1>2 DEF RouteToCe
<1>3. CASE PutCertificate BY <1>3 DEF PutCertificate
<1>4. ASSUME NEW s \in Schemes, ClientRequest(s) PROVE TrafficInv'
  BY <1>4 DEF ClientRequest
<1>5. CASE RemoveCertificate BY <1>5 DEF RemoveCertificate
<1>6. CASE FetchOriginLog BY <1>6 DEF FetchOriginLog
<1>7. CASE OpenReceipt BY <1>7 DEF OpenReceipt, Accepted, NoReceipt
<1>8. CASE FillReceipt BY <1>8 DEF FillReceipt, NoReceipt
<1>9. CASE AttemptDies BY <1>9 DEF AttemptDies
<1>10. CASE UNCHANGED trafficVars BY <1>10 DEF trafficVars
<1> QED
  BY <1>1, <1>2, <1>3, <1>4, <1>5, <1>6, <1>7, <1>8, <1>9, <1>10 DEF TrafficNext

(* The logs beside a receipt of smsv2_traffic_receipt.py are those it was     *)
(* made from, and an accepted one has exactly the allowed requests in them:  *)
(* for any number of attempts under its label.                              *)
THEOREM EvidenceAlwaysMatches == TrafficSpec => []EvidenceMatches
<1>1. TrafficSpec => []TrafficInv
  BY TrafficInitInv, TrafficStepInv, PTL DEF TrafficSpec
<1>2. TrafficInv => EvidenceMatches
  BY DEF TrafficInv
<1> QED BY <1>1, <1>2, PTL

------------------------------------------------------------------------------
(* The legacy destroy: what ties the plan that is applied to the pulled       *)
(* state, unless another plan was saved over it and goes unnoticed.          *)
ScopeHolds ==
  /\ events.deletes = DOMAIN pulled /\ events.deletes \cap HostNetwork = {}
  /\ \A a \in DOMAIN pulled : OwnerVerified(a)

DestroyKnows ==
  /\ destroying \notin {"list", "dead", "done"} => gone = {}
  /\ destroying \in {"pull", "plan", "scope"} => planSwapped = "none"
  /\ destroying = "scope" => destroyPlan.deletes = events.deletes
  /\ destroying = "digest" => scopeReceipt.deletes = events.deletes
  /\ destroying = "apply" => destroyPlan.deletes = events.deletes
  /\ destroying \in {"digest", "apply"} => ScopeHolds
  /\ destroying \in {"list", "done"} => {g[1] : g \in gone} = DOMAIN pulled
  /\ \A g \in gone : /\ g[1] \in DOMAIN pulled \ HostNetwork
                     /\ g[1] \in Core => pulled[g[1]] # "foreign"

DestroyInv == planSwapped \in {"none", "digest"} => DestroyKnows

LEMMA DestroyInitInv == LegacyInit => DestroyInv
BY DEF LegacyInit, DestroyInv, DestroyKnows

LEMMA ApplyKeepsDestroyInv == DestroyInv /\ ApplyDestroy => DestroyInv'
<1> SUFFICES ASSUME DestroyKnows, ApplyDestroy PROVE DestroyKnows'
  BY DEF DestroyInv, ApplyDestroy
<1> PICK deleted \in SUBSET (destroyPlan.deletes \cap DOMAIN marks) :
       /\ gone' = gone \cup {<<a, marks[a]>> : a \in deleted}
       /\ DestroyAt("apply", IF deleted = destroyPlan.deletes THEN "list" ELSE "dead")
  BY DEF ApplyDestroy
<1>0. gone = {} /\ ScopeHolds /\ destroyPlan.deletes = events.deletes
  BY DEF DestroyKnows, DestroyAt
<1>1. gone' = {<<a, marks[a]>> : a \in deleted}
  BY <1>0
<1>2. destroyPlan.deletes = DOMAIN pulled /\ pulled' = pulled /\ deleted \subseteq DOMAIN pulled
  BY <1>0 DEF ScopeHolds, ApplyDestroy
<1>3. {g[1] : g \in gone'} = deleted
  <2>1. \A a \in deleted : <<a, marks[a]>> \in gone' /\ <<a, marks[a]>>[1] = a
    BY <1>1
  <2>2. \A g \in gone' : g[1] \in deleted
    BY <1>1
  <2> QED BY <2>1, <2>2
<1>4. ASSUME NEW g \in gone'
      PROVE  /\ g[1] \in DOMAIN pulled \ HostNetwork
             /\ g[1] \in Core => pulled[g[1]] # "foreign"
  <2>1. g[1] \in DOMAIN pulled
    BY <1>1, <1>2
  <2> QED BY <1>0, <2>1 DEF ScopeHolds, OwnerVerified
<1>5. destroying' \in {"list", "dead"} /\ (destroying' = "list" => deleted = DOMAIN pulled)
  BY <1>2 DEF DestroyAt
<1> QED BY <1>2, <1>3, <1>4, <1>5 DEF DestroyKnows

LEMMA DestroyStepInv == DestroyInv /\ [LegacyNext]_destroyVars => DestroyInv'
<1> SUFFICES ASSUME DestroyInv, [LegacyNext]_destroyVars PROVE DestroyInv'
  OBVIOUS
<1> USE DEF DestroyInv, DestroyKnows, ScopeHolds, OwnerVerified, DestroyAt
<1>1. CASE PullState BY <1>1 DEF PullState
<1>2. CASE PlanDestroy BY <1>2 DEF PlanDestroy
<1>3. CASE ScopeDestroy BY <1>3 DEF ScopeDestroy, LegacyScope
<1>4. CASE CompareDigest
  <2>1. destroyPlan.deletes = scopeReceipt.deletes /\ planSwapped' = planSwapped
    BY <1>4 DEF CompareDigest
  <2> QED BY <1>4, <2>1 DEF CompareDigest
<1>5. CASE ApplyDestroy BY <1>5, ApplyKeepsDestroyInv
<1>6. CASE ListState BY <1>6 DEF ListState
<1>7. CASE DestroyDies BY <1>7 DEF DestroyDies
<1>8. CASE StateMoves BY <1>8 DEF StateMoves
<1>9. CASE PlanSwapped BY <1>9 DEF PlanSwapped
<1>10. CASE UNCHANGED destroyVars BY <1>10 DEF destroyVars
<1> QED
  BY <1>1, <1>2, <1>3, <1>4, <1>5, <1>6, <1>7, <1>8, <1>9, <1>10 DEF LegacyNext

(* A legacy destroy deletes what was pulled, under this owner's marks, and no *)
(* host networking, and when it is done all of it: for any state, whoever    *)
(* writes it meanwhile, unless another plan was saved over the reviewed one  *)
(* before its first digest or after the second.                             *)
THEOREM AlwaysDestroysPulled == LegacySpec => []DestroysPulled
<1>1. LegacySpec => []DestroyInv
  BY DestroyInitInv, DestroyStepInv, PTL DEF LegacySpec
<1>2. DestroyInv => DestroysPulled
  BY DEF DestroyInv, DestroyKnows, DestroysPulled
<1> QED BY <1>1, <1>2, PTL

(* Types of the legacy destroy.                                             *)
LEMMA StateOf == \A f : f \in States <=> \E A \in SUBSET Addresses : f \in [A -> Marks]
BY DEF States

LEMMA StateDomain ==
  ASSUME NEW f \in States
  PROVE  /\ DOMAIN f \subseteq Addresses /\ f \in [DOMAIN f -> Marks]
         /\ \A a \in DOMAIN f : f[a] \in Marks
BY StateOf

LEMMA StateMade ==
  ASSUME NEW A, A \subseteq Addresses, NEW f \in [A -> Marks]
  PROVE  f \in States
BY StateOf

LEMMA LegacyTypeInit == LegacyInit => LegacyTypeOK
<1> SUFFICES ASSUME LegacyInit PROVE LegacyTypeOK
  OBVIOUS
<1>1. [a \in {} |-> "modern"] \in [{} -> Marks]
  OBVIOUS
<1>2. pulled \in States
  BY <1>1, StateOf DEF LegacyInit
<1>3. NoDestroyPlan \in [deletes : SUBSET Addresses, serial : 0..(MaxStateMoves + 1)]
  BY LegacyAssumption DEF NoDestroyPlan
<1>4. marks \in States /\ stateMoves \in 0..MaxStateMoves
  BY LegacyAssumption DEF LegacyInit
<1>5. events \in [deletes : SUBSET Addresses, others : BOOLEAN]
  BY DEF LegacyInit, NoEvents
<1>6. destroyPlan = NoDestroyPlan /\ scopeReceipt = NoDestroyPlan /\ destroying = "pull"
      /\ gone = {} /\ planSwapped = "none"
  BY DEF LegacyInit
<1> QED BY <1>2, <1>3, <1>4, <1>5, <1>6 DEF LegacyTypeOK

LEMMA LegacyTypeStep == LegacyTypeOK /\ [LegacyNext]_destroyVars => LegacyTypeOK'
<1> SUFFICES ASSUME LegacyTypeOK, [LegacyNext]_destroyVars PROVE LegacyTypeOK'
  OBVIOUS
<1> USE DEF LegacyTypeOK, DestroyAt
<1>0. DOMAIN marks \subseteq Addresses /\ \A a \in DOMAIN marks : marks[a] \in Marks
  BY StateDomain
<1>1. CASE PullState BY <1>1 DEF PullState
<1>2. CASE PlanDestroy
  <2>1. PICK lost \in SUBSET DOMAIN marks, others \in BOOLEAN :
          /\ destroyPlan' = [deletes |-> DOMAIN marks \ lost, serial |-> stateMoves]
          /\ events' = [deletes |-> DOMAIN marks \ lost, others |-> others]
    BY <1>2 DEF PlanDestroy
  <2>2. /\ events' \in [deletes : SUBSET Addresses, others : BOOLEAN]
        /\ destroyPlan' \in [deletes : SUBSET Addresses, serial : 0..(MaxStateMoves + 1)]
    BY <1>0, <2>1, LegacyAssumption
  <2> QED BY <1>2, <2>2 DEF PlanDestroy
<1>3. CASE ScopeDestroy BY <1>3 DEF ScopeDestroy
<1>4. CASE CompareDigest BY <1>4 DEF CompareDigest
<1>5. CASE ApplyDestroy
  <2>1. PICK deleted \in SUBSET (destroyPlan.deletes \cap DOMAIN marks) :
          /\ marks' = [a \in DOMAIN marks \ deleted |-> marks[a]]
          /\ gone' = gone \cup {<<a, marks[a]>> : a \in deleted}
          /\ DestroyAt("apply", IF deleted = destroyPlan.deletes THEN "list" ELSE "dead")
    BY <1>5 DEF ApplyDestroy
  <2>2. marks' \in [DOMAIN marks \ deleted -> Marks]
    BY <1>0, <2>1
  <2>3. marks' \in States
    <3>1. DOMAIN marks \ deleted \subseteq Addresses
      BY <1>0
    <3> QED BY <2>2, <3>1, StateMade
  <2>4. gone' \subseteq Addresses \X Marks
    BY <1>0, <2>1
  <2>5. destroying' \in {"list", "dead"}
    BY <2>1
  <2> QED BY <1>5, <2>3, <2>4, <2>5 DEF ApplyDestroy
<1>6. CASE ListState BY <1>6 DEF ListState
<1>7. CASE DestroyDies BY <1>7 DEF DestroyDies
<1>8. CASE StateMoves
  <2>1. PICK a \in Addresses :
          marks' \in IF a \in DOMAIN marks
                     THEN {[b \in DOMAIN marks \ {a} |-> marks[b]]}
                     ELSE {[b \in DOMAIN marks \cup {a} |-> IF b = a THEN m ELSE marks[b]] :
                             m \in Marks}
    BY <1>8 DEF StateMoves
  <2>2. ASSUME a \in DOMAIN marks PROVE marks' \in States
    <3>1. marks' \in [DOMAIN marks \ {a} -> Marks]
      BY <1>0, <2>1, <2>2
    <3>2. DOMAIN marks \ {a} \subseteq Addresses
      BY <1>0
    <3> QED BY <3>1, <3>2, StateMade
  <2>3. ASSUME a \notin DOMAIN marks PROVE marks' \in States
    <3>1. PICK m \in Marks :
            marks' = [b \in DOMAIN marks \cup {a} |-> IF b = a THEN m ELSE marks[b]]
      BY <2>1, <2>3
    <3>2. marks' \in [DOMAIN marks \cup {a} -> Marks]
      BY <1>0, <3>1
    <3>3. DOMAIN marks \cup {a} \subseteq Addresses
      BY <1>0
    <3> QED BY <3>2, <3>3, StateMade
  <2>4. stateMoves' \in 0..MaxStateMoves
    BY <1>8, LegacyAssumption DEF StateMoves
  <2> QED BY <1>8, <2>2, <2>3, <2>4 DEF StateMoves
<1>9. CASE PlanSwapped
  <2>1. destroyPlan' \in [deletes : SUBSET Addresses, serial : 0..(MaxStateMoves + 1)]
    BY <1>0, <1>9, LegacyAssumption DEF PlanSwapped
  <2> QED BY <1>9, <2>1 DEF PlanSwapped
<1>10. CASE UNCHANGED destroyVars BY <1>10 DEF destroyVars
<1> QED
  BY <1>1, <1>2, <1>3, <1>4, <1>5, <1>6, <1>7, <1>8, <1>9, <1>10 DEF LegacyNext

------------------------------------------------------------------------------
(* The interface evidence: the bindings made so far are those of nodes that   *)
(* stayed as they were, and a document is older than the capture that has    *)
(* not written its own.                                                     *)
Bound(slo) ==
  \A n \in 1..Len(slo) : n \in 1..Nodes /\ (n \notin swappedAt => slo[n] = attached[n][1])

CaptureKnows ==
  /\ writing \in {"list", "read"} => node \in 1..Nodes /\ Len(bindings) = node - 1
  /\ writing \in {"evidence", "matrix"} => Len(bindings) = Nodes
  /\ writing = "read" =>
       Len(listed) = 2 /\ (node \notin swappedAt => listed = attached[node])
  /\ writing # "idle" => Bound(bindings)
  /\ evidence.by <= captures /\ matrix.by <= evidence.by
  /\ writing \in {"list", "read", "evidence"} => evidence.by < captures
  /\ writing = "matrix" => evidence = Document
  /\ matrix.by = evidence.by => matrix = evidence
  /\ evidence.by = captures => Bound(evidence.slo)

CaptureInv == EvidenceTypeOK /\ CaptureKnows

LEMMA CaptureInitInv == EvidenceInit => CaptureInv
<1> SUFFICES ASSUME EvidenceInit PROVE CaptureInv
  OBVIOUS
<1>1. <<>> \in Seq(NicIds) /\ Len(<<>>) = 0
  OBVIOUS
<1>2. EvidenceTypeOK
  BY <1>1, EvidenceAssumption DEF EvidenceInit, EvidenceTypeOK, Documents
<1>3. CaptureKnows
  BY <1>1 DEF EvidenceInit, CaptureKnows, Bound, NoDocument
<1> QED BY <1>2, <1>3 DEF CaptureInv

(* A document that is written is one of the type.                            *)
LEMMA DocumentType ==
  ASSUME CaptureInv, writing \in {"evidence", "matrix"}
  PROVE  Document \in Documents /\ Document.by = captures /\ Document.slo = bindings
<1> USE DEF CaptureInv, EvidenceTypeOK, CaptureKnows
<1>1. captures \in 1..MaxCaptures
  <2>1. evidence.by \in Nat
    BY EvidenceAssumption DEF Documents, NoDocument
  <2>2. CASE writing = "evidence"
    BY <2>1, <2>2, EvidenceAssumption
  <2>3. CASE writing = "matrix"
    <3>1. evidence # NoDocument
      BY <2>3, EvidenceAssumption DEF Document, NoDocument
    <3> QED BY <2>3, <3>1 DEF Document, Documents
  <2> QED BY <2>2, <2>3
<1>2. bindings \in [1..Nodes -> NicIds]
  BY EvidenceAssumption
<1>3. (referenced = 1..Nodes) \in BOOLEAN
  OBVIOUS
<1> QED BY <1>1, <1>2, <1>3 DEF Document, Documents

LEMMA PairIsSequence ==
  \A a \in NicIds, b \in NicIds : <<a, b>> \in Seq(NicIds) /\ Len(<<a, b>>) = 2
OBVIOUS

LEMMA FirstOfSequence ==
  \A s \in Seq(NicIds) : Len(s) = 2 => s[1] \in NicIds
OBVIOUS

LEMMA CaptureStepInv == CaptureInv /\ [EvidenceNext]_evidenceVars => CaptureInv'
<1> SUFFICES ASSUME CaptureInv, [EvidenceNext]_evidenceVars PROVE CaptureInv'
  OBVIOUS
<1>1. <<>> \in Seq(NicIds) /\ Len(<<>>) = 0 /\ Bound(<<>>)'
  BY DEF Bound
<1>2. evidence.by \in Nat /\ matrix.by \in Nat /\ captures \in Nat /\ Nodes \in Nat \ {0}
  BY EvidenceAssumption DEF CaptureInv, EvidenceTypeOK, Documents, NoDocument
<1> USE DEF CaptureInv, EvidenceTypeOK, CaptureKnows
<1>3. CASE BeginCapture
  BY <1>1, <1>2, <1>3, EvidenceAssumption DEF BeginCapture
<1>4. CASE ListAttachments
  <2>1. node \in 1..Nodes /\ listed' = attached[node]
    BY <1>4 DEF ListAttachments
  <2>2. listed' \in {<<"nic1", "nic2">>, <<"nic2", "nic1">>}
    BY <2>1
  <2>3. listed' \in Seq(NicIds) /\ Len(listed') = 2
    BY <2>2, PairIsSequence DEF NicIds
  <2> QED BY <1>4, <2>1, <2>3 DEF ListAttachments, Bound
<1>5. CASE ReadNic
  <2>1. CASE read + 1 < Len(listed)
    <3> HIDE DEF CaptureInv, CaptureKnows, EvidenceTypeOK
    <3>0. writing = "read" /\ Len(listed) = 2 /\ read \in 0..2
      BY <1>5 DEF ReadNic, CaptureInv, CaptureKnows, EvidenceTypeOK
    <3>1. read' = read + 1 /\ read' \in 0..2 /\ writing' = "read"
      BY <1>5, <2>1, <3>0 DEF ReadNic
    <3>2. UNCHANGED <<attached, referenced, captures, node, listed, bindings, evidence,
                      matrix, swapsMade, swappedAt>>
      BY <1>5, <2>1 DEF ReadNic
    <3> USE DEF CaptureInv, CaptureKnows, EvidenceTypeOK
    <3> QED BY <1>5, <3>1, <3>2 DEF ReadNic, Bound
  <2>2. CASE ~(read + 1 < Len(listed))
    <3>a. /\ bindings' = Append(bindings, listed[1]) /\ Len(bindings) = node - 1
          /\ node \in 1..Nodes /\ Len(listed) = 2 /\ listed \in Seq(NicIds)
      BY <1>5, <2>2 DEF ReadNic
    <3>0. /\ bindings' = Append(bindings, listed[1]) /\ Len(bindings) = node - 1
          /\ node \in 1..Nodes /\ listed[1] \in NicIds
      BY <3>a, FirstOfSequence
    <3>1. /\ bindings' \in Seq(NicIds) /\ Len(bindings') = node /\ bindings'[node] = listed[1]
          /\ \A n \in 1..Len(bindings) : bindings'[n] = bindings[n]
      BY <3>0
    <3>2. Bound(bindings)'
      BY <1>5, <3>0, <3>1 DEF ReadNic, Bound
    <3>3. EvidenceTypeOK'
      BY <1>5, <2>2, <3>0, <3>1, <1>2 DEF ReadNic
    <3>4. writing' \in {"list", "evidence"} /\ (evidence.by < captures)'
      BY <1>5, <2>2 DEF ReadNic
    <3>5. /\ writing' = "list" => node' \in 1..Nodes /\ Len(bindings') = node' - 1
          /\ writing' = "evidence" => Len(bindings') = Nodes
      BY <1>5, <1>2, <2>2, <3>0, <3>1 DEF ReadNic
    <3>6. UNCHANGED <<evidence, matrix, captures>>
      BY <1>5, <2>2 DEF ReadNic
    <3>7. CaptureKnows'
      <4> HIDE DEF CaptureInv, EvidenceTypeOK
      <4> QED BY <1>2, <3>2, <3>4, <3>5, <3>6 DEF CaptureInv
    <3> QED BY <3>3, <3>7
  <2> QED BY <2>1, <2>2
<1>6. CASE WriteEvidence
  BY <1>2, <1>6, DocumentType DEF WriteEvidence, Bound, Document
<1>7. CASE WriteMatrix
  BY <1>2, <1>7, DocumentType DEF WriteMatrix, Bound, Document
<1>8. CASE CaptureDies
  BY <1>8 DEF CaptureDies, Bound
<1>9. CASE SwapNics
  <2>1. PICK n \in 1..Nodes : /\ attached' = [attached EXCEPT ![n] = <<@[2], @[1]>>]
                             /\ swappedAt' = swappedAt \cup {n}
    BY <1>9 DEF SwapNics
  <2>2. \A m \in 1..Nodes : m \notin swappedAt' => m \notin swappedAt /\ attached'[m] = attached[m]
    BY <2>1
  <2>3. \A slo : Bound(slo) => Bound(slo)'
    BY <2>2 DEF Bound
  <2>4. EvidenceTypeOK'
    BY <1>9, <2>1, EvidenceAssumption DEF SwapNics
  <2> QED BY <1>9, <2>2, <2>3, <2>4 DEF SwapNics, Document, Bound
<1>10. CASE UNCHANGED evidenceVars
  BY <1>10 DEF evidenceVars, Document, Bound
<1> QED
  BY <1>3, <1>4, <1>5, <1>6, <1>7, <1>8, <1>9, <1>10 DEF EvidenceNext

(* The matrix of capture_ce_interface_evidence.py is never ahead of the       *)
(* evidence, and the evidence of the last capture binds the SLO of nodes     *)
(* that stayed as they were: for any number of nodes, captures and swaps.    *)
THEOREM MatrixAlwaysFollows == EvidenceSpec => []MatrixFollows
<1>1. EvidenceSpec => []CaptureInv
  BY CaptureInitInv, CaptureStepInv, PTL DEF EvidenceSpec
<1>2. CaptureInv => MatrixFollows
  BY DEF CaptureInv, CaptureKnows, MatrixFollows, Bound
<1> QED BY <1>1, <1>2, PTL

------------------------------------------------------------------------------
(* The upgrade of the AWS sites: an accepted plan that its review has rendered *)
(* passed that review, whatever is saved and reviewed later.                 *)
ReviewModes == UpgradeModes \cup {"reapply", "destroy"}

UpgradeInv ==
  /\ reviewing # NoReviewing => reviewing.mode \in ReviewModes
  /\ accepted # Nothing /\ ~unshown =>
       /\ ChangesAllowed(accepted.plan, accepted) /\ InvokesAllowed(accepted.plan, accepted)
       /\ accepted.mode \in ReviewModes

LEMMA UpgradeInitInv == UpgradeInit => UpgradeInv
BY DEF UpgradeInit, UpgradeInv

LEMMA UpgradeStepInv == UpgradeInv /\ [UpgradeNext]_upgradeVars => UpgradeInv'
<1> SUFFICES ASSUME UpgradeInv, [UpgradeNext]_upgradeVars PROVE UpgradeInv'
  OBVIOUS
<1> USE DEF UpgradeInv
<1>1. CASE UNCHANGED <<reviewing, accepted, unshown>>
  BY <1>1 DEF ChangesAllowed, InvokesAllowed
<1>2. CASE RenderPlan
  <2>1. reviewing'.mode \in ReviewModes
    BY <1>2 DEF RenderPlan, ReviewModes
  <2>2. accepted' = accepted /\ unshown' = unshown
    BY <1>2 DEF RenderPlan
  <2> QED BY <2>1, <2>2 DEF ChangesAllowed, InvokesAllowed
<1>3. CASE Validate
  <2>1. reviewing # NoReviewing /\ reviewing' = NoReviewing /\ reviewing.mode \in ReviewModes
    BY <1>3 DEF Validate
  <2>2. CASE UNCHANGED <<accepted, unshown>>
    BY <2>1, <2>2 DEF ChangesAllowed, InvokesAllowed
  <2>3. CASE ~UNCHANGED <<accepted, unshown>>
    <3>1. /\ ChangesAllowed(reviewing.plan, reviewing)
          /\ InvokesAllowed(reviewing.plan, reviewing)
          /\ accepted' = [plan |-> saved, mode |-> reviewing.mode, site |-> reviewing.site,
                          target |-> reviewing.target]
          /\ unshown' = (reviewing.plan # saved)
      BY <1>3, <2>3 DEF Validate
    <3>2. ASSUME ~unshown'
          PROVE  ChangesAllowed(saved, accepted') /\ InvokesAllowed(saved, accepted')
      <4>1. reviewing.plan = saved
        BY <3>1, <3>2
      <4> QED BY <3>1, <4>1 DEF ChangesAllowed, InvokesAllowed
    <3> QED BY <2>1, <3>1, <3>2 DEF ChangesAllowed, InvokesAllowed
  <2> QED BY <2>2, <2>3
<1> QED
  BY <1>1, <1>2, <1>3
     DEF UpgradeNext, upgradeVars, SaveUpgradePlan, WriteHash, CommitMoves, ApplyUpgrade

(* Types of the upgrade: what is reviewed and what is accepted are plans.     *)
UpgradeTypeInv ==
  /\ UpgradeTypeOK
  /\ reviewing # NoReviewing => saved # NoUpgradePlan
  /\ accepted # Nothing => accepted.plan # NoUpgradePlan

LEMMA UpgradeTypeInit == UpgradeInit => UpgradeTypeInv
<1> SUFFICES ASSUME UpgradeInit PROVE UpgradeTypeInv
  OBVIOUS
<1>1. version \in [UpgradeModes \X Sites -> Versions \cup {0}]
  BY DEF UpgradeInit
<1>2. saved = NoUpgradePlan /\ hashed.plan = NoUpgradePlan /\ accepted.plan = NoUpgradePlan
      /\ hashed.commit = 0
  BY DEF UpgradeInit, Nothing
<1>3. /\ estate = {"aws", "other"} /\ commit = 1 /\ unshown = FALSE
      /\ savedPlans \in 0..MaxUpgradePlans
      /\ reviewing = NoReviewing /\ accepted = Nothing
  BY UpgradeAssumption DEF UpgradeInit
<1>4. {saved, hashed.plan, accepted.plan} \subseteq UpgradePlans \cup {NoUpgradePlan}
  BY <1>2
<1>5. estate \subseteq {"aws", "other"} /\ commit \in 1..2 /\ hashed.commit \in 0..2
  BY <1>2, <1>3
<1>6. UpgradeTypeOK
  BY <1>1, <1>3, <1>4, <1>5 DEF UpgradeTypeOK
<1> QED BY <1>3, <1>6 DEF UpgradeTypeInv

LEMMA SavedType ==
  ASSUME UpgradeTypeOK, SaveUpgradePlan
  PROVE  saved' \in UpgradePlans
<1>1. PICK w \in Wanted :
        saved' = [commit |-> commit, owned |-> w.owned, awsOnly |-> w.awsOnly,
                  observed |-> w.observed, changes |-> w.changes, invokes |-> w.invokes]
  BY DEF SaveUpgradePlan
<1>2. commit \in 1..2
  BY DEF UpgradeTypeOK
<1> QED BY <1>1, <1>2, UpgradeAssumption

LEMMA AppliedType ==
  ASSUME UpgradeTypeInv, ApplyUpgrade
  PROVE  version' \in [UpgradeModes \X Sites -> Versions \cup {0}]
<1>1. saved \in UpgradePlans
  BY DEF UpgradeTypeInv, UpgradeTypeOK, ApplyUpgrade
<1>2. saved.invokes \in Seq(Invocations)
  BY <1>1 DEF UpgradePlans
<1>3. PICK done \in 0..Len(saved.invokes) :
        version' = [k \in DOMAIN version |->
          IF \E i \in 1..done : k = <<saved.invokes[i].kind, saved.invokes[i].site>>
          THEN saved.invokes[CHOOSE i \in 1..done :
                               k = <<saved.invokes[i].kind, saved.invokes[i].site>>].target
          ELSE version[k]]
  BY DEF ApplyUpgrade
<1>4. version \in [UpgradeModes \X Sites -> Versions \cup {0}]
  BY DEF UpgradeTypeInv, UpgradeTypeOK
<1>5. \A i \in 1..done : saved.invokes[i].target \in Versions
  <2>1. \A i \in 1..Len(saved.invokes) : saved.invokes[i] \in Invocations
    BY <1>2
  <2>2. Len(saved.invokes) \in Nat
    BY <1>2
  <2> QED BY <2>1, <2>2 DEF Invocations
<1>6. ASSUME NEW k \in DOMAIN version
      PROVE  version'[k] \in Versions \cup {0}
  <2>1. CASE \E i \in 1..done : k = <<saved.invokes[i].kind, saved.invokes[i].site>>
    <3>1. (CHOOSE i \in 1..done : k = <<saved.invokes[i].kind, saved.invokes[i].site>>)
            \in 1..done
      BY <2>1
    <3> QED BY <1>3, <1>5, <2>1, <3>1
  <2>2. CASE ~ \E i \in 1..done : k = <<saved.invokes[i].kind, saved.invokes[i].site>>
    BY <1>3, <1>4, <2>2
  <2> QED BY <2>1, <2>2
<1>7. DOMAIN version' = UpgradeModes \X Sites /\ version' = [k \in DOMAIN version' |-> version'[k]]
  BY <1>3, <1>4
<1> QED BY <1>4, <1>6, <1>7

LEMMA UpgradeTypeStep == UpgradeTypeInv /\ [UpgradeNext]_upgradeVars => UpgradeTypeInv'
<1> SUFFICES ASSUME UpgradeTypeInv, [UpgradeNext]_upgradeVars PROVE UpgradeTypeInv'
  OBVIOUS
<1> USE DEF UpgradeTypeInv, UpgradeTypeOK
<1>0. NoUpgradePlan \notin UpgradePlans
  <2>1. \A p \in UpgradePlans : p.commit \in 1..2
    BY DEF UpgradePlans
  <2>2. NoUpgradePlan.commit = 0
    BY DEF NoUpgradePlan
  <2> QED BY <2>1, <2>2
<1>1. CASE SaveUpgradePlan
  <2>1. saved' \in UpgradePlans
    BY <1>1, SavedType
  <2>2. savedPlans' \in 0..MaxUpgradePlans
    BY <1>1, UpgradeAssumption DEF SaveUpgradePlan
  <2>3. UNCHANGED <<version, estate, commit, hashed, reviewing, accepted, unshown>>
    BY <1>1 DEF SaveUpgradePlan
  <2> QED BY <1>0, <2>1, <2>2, <2>3
<1>2. CASE WriteHash
  <2>1. hashed'.plan = saved /\ hashed'.commit = commit
    BY <1>2 DEF WriteHash
  <2> QED BY <1>2, <2>1 DEF WriteHash
<1>3. CASE CommitMoves BY <1>3 DEF CommitMoves
<1>4. CASE RenderPlan
  <2>1. reviewing'.plan = saved /\ saved \in UpgradePlans
    BY <1>4 DEF RenderPlan
  <2> QED BY <1>4, <2>1 DEF RenderPlan
<1>5. CASE Validate
  <2>1. accepted' = accepted \/ accepted'.plan = saved
    BY <1>5 DEF Validate
  <2>2. unshown' = unshown \/ unshown' = (reviewing.plan # saved)
    BY <1>5 DEF Validate
  <2>3. unshown' \in BOOLEAN
    BY <2>2, Zenon
  <2> QED BY <1>5, <2>1, <2>3 DEF Validate
<1>6. CASE ApplyUpgrade
  <2>1. version' \in [UpgradeModes \X Sites -> Versions \cup {0}]
    BY <1>6, AppliedType
  <2>2. estate' \subseteq estate
    BY <1>6 DEF ApplyUpgrade
  <2>3. UNCHANGED <<commit, saved, hashed, reviewing, accepted, unshown, savedPlans>>
    BY <1>6 DEF ApplyUpgrade
  <2> QED BY <2>1, <2>2, <2>3
<1>7. CASE UNCHANGED upgradeVars BY <1>7 DEF upgradeVars
<1> QED BY <1>1, <1>2, <1>3, <1>4, <1>5, <1>6, <1>7 DEF UpgradeNext

AsReviewed ==
  /\ \A k \in DOMAIN version : version'[k] # version[k] =>
       k = <<accepted.mode, accepted.site>> /\ version'[k] = accepted.target
  /\ estate' # estate => accepted.mode = "destroy" /\ estate' = estate \ {"aws"}

LEMMA ApplyAsReviewed == UpgradeInv /\ ApplyUpgrade /\ ~unshown => AsReviewed
<1> SUFFICES ASSUME UpgradeInv, ApplyUpgrade, ~unshown PROVE AsReviewed
  OBVIOUS
<1>1. /\ accepted.plan = saved /\ accepted.mode \in ReviewModes
      /\ ChangesAllowed(saved, accepted) /\ InvokesAllowed(saved, accepted)
  BY DEF ApplyUpgrade, UpgradeInv
<1>2. PICK touched \in SUBSET {c[1] : c \in saved.changes} : estate' = estate \ touched
  BY DEF ApplyUpgrade
<1>3. PICK done \in 0..Len(saved.invokes) :
        version' = [k \in DOMAIN version |->
          IF \E i \in 1..done : k = <<saved.invokes[i].kind, saved.invokes[i].site>>
          THEN saved.invokes[CHOOSE i \in 1..done :
                               k = <<saved.invokes[i].kind, saved.invokes[i].site>>].target
          ELSE version[k]]
  BY DEF ApplyUpgrade
<1>4. ASSUME NEW k \in DOMAIN version, version'[k] # version[k]
      PROVE  k = <<accepted.mode, accepted.site>> /\ version'[k] = accepted.target
  <2>1. PICK i \in 1..done : k = <<saved.invokes[i].kind, saved.invokes[i].site>>
    BY <1>3, <1>4
  <2>2. accepted.mode \in UpgradeModes
    <3>1. Len(<<>>) = 0
      OBVIOUS
    <3>2. CASE accepted.mode \notin UpgradeModes
      <4>1. saved.invokes = <<>>
        BY <1>1, <3>2 DEF InvokesAllowed
      <4>2. done = 0
        BY <3>1, <4>1, <1>3
      <4> QED BY <2>1, <4>2
    <3> QED BY <3>2
  <2> DEFINE invocation == [kind |-> accepted.mode, site |-> accepted.site,
                            target |-> accepted.target]
  <2>3. saved.invokes = <<invocation>>
    BY <1>1, <2>2 DEF InvokesAllowed
  <2>4. Len(saved.invokes) = 1 /\ saved.invokes[1] = invocation
    BY <2>3
  <2>5. done = 1
    BY <1>3, <2>1, <2>4
  <2>6. i = 1 /\ k = <<accepted.mode, accepted.site>>
    BY <2>1, <2>4, <2>5
  <2>7. (CHOOSE j \in 1..done : k = <<saved.invokes[j].kind, saved.invokes[j].site>>) = 1
    BY <2>1, <2>5
  <2>8. version'[k] = saved.invokes[1].target
    BY <1>3, <2>1, <2>7
  <2> QED BY <2>4, <2>6, <2>8
<1>5. ASSUME estate' # estate
      PROVE  accepted.mode = "destroy" /\ estate' = estate \ {"aws"}
  <2>1. saved.changes # {}
    BY <1>2, <1>5
  <2>2. accepted.mode = "destroy" /\ saved.changes \subseteq {<<"aws", "delete">>}
    BY <1>1, <2>1 DEF ChangesAllowed
  <2>3. {c[1] : c \in saved.changes} \subseteq {"aws"}
    BY <2>2
  <2> QED BY <1>2, <1>5, <2>2, <2>3
<1> QED BY <1>4, <1>5 DEF AsReviewed

(* Whatever an apply does to the AWS sites or beside them is what the review  *)
(* of verify-aws-upgrade-action-plan.py that accepted the plan was asked      *)
(* about, if that review rendered the plan it took the digest of: for any     *)
(* sites, targets, plans and order of saves and reviews.                     *)
THEOREM EffectsAlwaysReviewed == UpgradeSpec => EffectsReviewed
<1>1. UpgradeSpec => []UpgradeInv
  BY UpgradeInitInv, UpgradeStepInv, PTL DEF UpgradeSpec
<1>2. UpgradeInv /\ [UpgradeNext]_upgradeVars => [~unshown => AsReviewed]_upgradeVars
  <2> SUFFICES ASSUME UpgradeInv, [UpgradeNext]_upgradeVars, ~unshown,
                      ~UNCHANGED upgradeVars
               PROVE  AsReviewed
    OBVIOUS
  <2>1. CASE ApplyUpgrade
    BY <2>1, ApplyAsReviewed
  <2>2. CASE UNCHANGED <<version, estate>>
    BY <2>2 DEF AsReviewed
  <2> QED
    BY <2>1, <2>2
       DEF UpgradeNext, SaveUpgradePlan, WriteHash, CommitMoves, RenderPlan, Validate
<1>3. UpgradeSpec => [][~unshown => AsReviewed]_upgradeVars
  BY <1>1, <1>2, PTL DEF UpgradeSpec
<1> QED BY <1>3 DEF EffectsReviewed, AsReviewed

------------------------------------------------------------------------------
(* The runtime observers: no request or sleep begins after the deadline, and  *)
(* what a look has missed came up after the answer that missed it.           *)
LookTimes ==
  /\ looking = "first" => now <= until /\ until <= Timeout + Request
  /\ looking = "second" =>
       /\ observer = "bgp" /\ now <= until /\ until <= now + Request
       /\ until <= Timeout + 2 * Request
  /\ looking = "sleep" => now <= until /\ until <= Timeout
  /\ looking \in {"judge", "end"} => now <= Timeout + LookTime
  /\ since <= now

LookMisses ==
  /\ looking = "second" /\ session /\ ~sawSession => until <= since + Request
  /\ looking = "judge" /\ Converged /\ ~troubled => now <= since + LookTime
  /\ result = "timeout" => looking = "end"
  /\ result = "timeout" /\ Converged /\ ~troubled => Timeout <= since + LookTime

ObserverInv == ObserverTypeOK /\ LookTimes /\ LookMisses

LEMMA ObserverInitInv == ObserverInit => ObserverInv
<1> SUFFICES ASSUME ObserverInit PROVE ObserverInv
  OBVIOUS
<1>1. session \in BOOLEAN /\ route \in BOOLEAN /\ sawSession \in BOOLEAN /\ troubled \in BOOLEAN
  BY Zenon DEF ObserverInit
<1>2. ObserverTypeOK
  BY <1>1, ObserverAssumption DEF ObserverInit, ObserverTypeOK
<1>3. LookTimes /\ LookMisses
  BY ObserverAssumption DEF ObserverInit, LookTimes, LookMisses
<1> QED BY <1>2, <1>3 DEF ObserverInv

LEMMA ObserverStepInv == ObserverInv /\ [ObserverNext]_observerVars => ObserverInv'
<1> SUFFICES ASSUME ObserverInv, [ObserverNext]_observerVars PROVE ObserverInv'
  OBVIOUS
<1> USE ObserverAssumption
    DEF ObserverInv, ObserverTypeOK, LookTimes, LookMisses, LookTime, Converged, world
<1>1. CASE FirstRequest BY <1>1 DEF FirstRequest
<1>2. CASE SecondRequest BY <1>2 DEF SecondRequest
<1>3. CASE RequestFails BY <1>3 DEF RequestFails
<1>4. CASE CheckDeadline BY <1>4 DEF CheckDeadline
<1>5. CASE LookAgain BY <1>5 DEF LookAgain
<1>6. CASE Tick BY <1>6 DEF Tick
<1>7. CASE SessionChanges
  <2>1. session' \in BOOLEAN /\ route' \in BOOLEAN
    <3> HIDE DEF ObserverInv, ObserverTypeOK, Converged
    <3> QED BY <1>7, Zenon DEF SessionChanges
  <2>2. /\ looking # "end" /\ since' = now
        /\ UNCHANGED <<observer, layout, now, looking, until, sawSession, troubled, result>>
    BY <1>7 DEF SessionChanges
  <2> HIDE DEF Converged
  <2> QED BY <2>1, <2>2
<1>8. CASE RouteChanges BY <1>8 DEF RouteChanges
<1>9. CASE UNCHANGED observerVars BY <1>9 DEF observerVars
<1> QED
  BY <1>1, <1>2, <1>3, <1>4, <1>5, <1>6, <1>7, <1>8, <1>9 DEF ObserverNext

(* The runtime observers end no later than one look after their deadline, and *)
(* do not give up on what was there before their last look: for any timeout, *)
(* interval and duration of a request.                                      *)
THEOREM DeadlineAlwaysKept == ObserverSpec => []DeadlineKept
<1>1. ObserverSpec => []ObserverInv
  BY ObserverInitInv, ObserverStepInv, PTL DEF ObserverSpec
<1>2. ObserverInv => DeadlineKept
  BY ObserverAssumption
     DEF ObserverInv, ObserverTypeOK, LookTimes, LookMisses, LookTime, DeadlineKept
<1> QED BY <1>1, <1>2, PTL

------------------------------------------------------------------------------
(* The join.  As many rows as there are roles show every role and every      *)
(* device, so no two of them show the same one.                              *)
JoinMeans == observer = "nic" /\ result = "converged" => Joined(layout)

LEMMA ThreeEach ==
  /\ IsFiniteSet(Roles) /\ Cardinality(Roles) = 3 /\ Cardinality(Devices) = 3
<1>1. ASSUME NEW a, NEW b, NEW c, a # b, a # c, b # c
      PROVE  IsFiniteSet({a, b, c}) /\ Cardinality({a, b, c}) = 3
  <2>1. IsFiniteSet({a}) /\ Cardinality({a}) = 1
    BY FS_Singleton
  <2>2. IsFiniteSet({a} \cup {b}) /\ Cardinality({a} \cup {b}) = 2
    BY <1>1, <2>1, FS_AddElement
  <2>3. c \notin {a} \cup {b}
    BY <1>1
  <2>4. /\ IsFiniteSet(({a} \cup {b}) \cup {c})
        /\ Cardinality(({a} \cup {b}) \cup {c}) = 3
    BY <2>2, <2>3, FS_AddElement
  <2>5. {a, b, c} = ({a} \cup {b}) \cup {c}
    OBVIOUS
  <2> QED BY <2>4, <2>5
<1>2. IsFiniteSet({"slo", "sli", "external"})
      /\ Cardinality({"slo", "sli", "external"}) = 3
  BY <1>1
<1>3. Cardinality({"eth0", "eth1", "eth2"}) = 3
  BY <1>1
<1> QED BY <1>2, <1>3 DEF Roles, Devices

LEMMA JoinedRowsApart ==
  ASSUME NEW rows \in Seq(Rows), Joined(rows),
         NEW i \in Join(rows), NEW j \in Join(rows), i # j
  PROVE  rows[i].mac # rows[j].mac /\ rows[i].device # rows[j].device
<1>1. IsFiniteSet(Join(rows))
  <2>1. IsFiniteSet(1..Len(rows))
    BY FS_Interval
  <2>2. Join(rows) \in SUBSET (1..Len(rows))
    BY DEF Join
  <2> QED BY <2>1, <2>2, FS_Subset
<1>2. Cardinality(Join(rows)) = Cardinality(Roles)
      /\ Cardinality(Join(rows)) = Cardinality(Devices)
  BY ThreeEach DEF Joined
<1>3. rows[i].mac # rows[j].mac
  <2> DEFINE f == [k \in Join(rows) |-> rows[k].mac]
  <2>1. f \in Surjection(Join(rows), Roles)
    BY DEF Joined, Surjection
  <2>2. f \in Injection(Join(rows), Roles)
    BY <1>1, <1>2, <2>1, FS_SurjSameCardinalityImpliesInj
  <2> QED BY <2>2 DEF Injection, IsInjective
<1>4. rows[i].device # rows[j].device
  <2> DEFINE f == [k \in Join(rows) |-> rows[k].device]
  <2>1. f \in Surjection(Join(rows), Devices)
    BY DEF Joined, Surjection
  <2>2. f \in Injection(Join(rows), Devices)
    BY <1>1, <1>2, <2>1, FS_SurjSameCardinalityImpliesInj
  <2> QED BY <2>2 DEF Injection, IsInjective
<1> QED BY <1>3, <1>4

LEMMA JoinedOneToOne ==
  ASSUME ObserverTypeOK, JoinMeans
  PROVE  JoinIsOneToOne
<1> SUFFICES ASSUME observer = "nic", result = "converged" PROVE JoinIsOneToOne
  BY DEF JoinIsOneToOne
<1>1. layout \in Seq(Rows) /\ Joined(layout)
  BY ObserverAssumption DEF ObserverTypeOK, JoinMeans
<1>2. \A i \in DOMAIN layout : layout[i] \in Rows
  BY <1>1
<1>3. \A i \in DOMAIN layout :
        /\ layout[i].mac \in Roles /\ layout[i].device # "other" => i \in Join(layout)
        /\ layout[i].device \in Devices \cup {"other"}
  BY <1>2 DEF Join, Rows
<1>4. ASSUME NEW m \in Roles
      PROVE  \E d \in Devices : \A i \in DOMAIN layout :
               layout[i].mac = m /\ layout[i].device # "other" => layout[i].device = d
  <2>1. PICK j \in Join(layout) : layout[j].mac = m
    BY <1>1 DEF Joined
  <2>2. layout[j].device \in Devices
    BY <1>3, <2>1 DEF Join
  <2>3. \A i \in Join(layout) : layout[i].mac = m => i = j
    BY <1>1, <2>1, JoinedRowsApart
  <2> QED BY <1>3, <2>2, <2>3
<1>5. ASSUME NEW d \in Devices
      PROVE  \E m \in Roles : \A i \in DOMAIN layout :
               layout[i].device = d /\ layout[i].mac \in Roles => layout[i].mac = m
  <2>1. PICK j \in Join(layout) : layout[j].device = d
    BY <1>1 DEF Joined
  <2>2. layout[j].mac \in Roles
    BY <2>1 DEF Join
  <2>3. \A i \in Join(layout) : layout[i].device = d => i = j
    BY <1>1, <2>1, JoinedRowsApart
  <2>4. d # "other"
    BY DEF Devices
  <2> QED BY <1>3, <2>2, <2>3, <2>4
<1>6. \E i \in DOMAIN layout : layout[i].mac = "slo" /\ layout[i].device = "eth0"
  <2>1. PICK j \in Join(layout) : layout[j].mac = "slo"
    BY <1>1 DEF Joined, Roles
  <2> QED BY <1>1, <2>1 DEF Joined, Join
<1> QED BY <1>4, <1>5, <1>6 DEF JoinIsOneToOne

LEMMA JoinStep ==
  ObserverInv /\ JoinMeans /\ [ObserverNext]_observerVars => JoinMeans'
<1> SUFFICES ASSUME ObserverInv, JoinMeans, [ObserverNext]_observerVars
             PROVE  JoinMeans'
  OBVIOUS
<1>1. observer' = observer /\ layout' = layout
  BY DEF ObserverNext, FirstRequest, SecondRequest, RequestFails, CheckDeadline,
         LookAgain, Tick, SessionChanges, RouteChanges, world, observerVars
<1>2. CASE FirstRequest
  <2>1. CASE Joined(layout)
    BY <1>1, <2>1 DEF JoinMeans
  <2>2. CASE ~Joined(layout)
    <3>1. observer = "nic" => result' \in {result, "refused"}
      BY <1>2, <2>2, Zenon DEF FirstRequest
    <3> QED BY <1>1, <2>2, <3>1 DEF JoinMeans
  <2> QED BY <2>1, <2>2
<1>3. CASE SecondRequest
  BY <1>1, <1>3 DEF SecondRequest, ObserverInv, LookTimes, JoinMeans
<1>4. ASSUME ~FirstRequest, ~SecondRequest
      PROVE  result' \in {result, "timeout", "refused"}
  BY <1>4 DEF ObserverNext, RequestFails, CheckDeadline, LookAgain, Tick,
              SessionChanges, RouteChanges, observerVars
<1> QED BY <1>1, <1>2, <1>3, <1>4 DEF JoinMeans

(* Whatever table the node reports, with any number of rows, an accepted join *)
(* gives each of the three owned NICs exactly one device and each device one  *)
(* NIC, the SLO at eth0.                                                     *)
THEOREM JoinAlwaysOneToOne == ObserverSpec => []JoinIsOneToOne
<1>1. ObserverInit => JoinMeans
  BY DEF ObserverInit, JoinMeans
<1>2. ObserverInv => ObserverTypeOK
  BY DEF ObserverInv
<1>3. ObserverTypeOK /\ JoinMeans => JoinIsOneToOne
  BY JoinedOneToOne
<1> QED BY <1>1, <1>2, <1>3, ObserverInitInv, ObserverStepInv, JoinStep, PTL
        DEF ObserverSpec

------------------------------------------------------------------------------
(* The Site CLI harvest.  The t-th scroll of a menu paints the page from      *)
(* row First(t) to row Reach(t), until the selection has passed the last row; *)
(* what has been read of a session that lasts is the menu up to the reach of *)
(* the last page that was read.                                             *)
First(t) == IF t <= PageRows THEN 1 ELSE t - PageRows + 1
Reach(t) == IF t <= PageRows THEN PageRows ELSE t
PagesRead == scrolls - Len(unread)

PagesOnWay ==
  /\ Len(unread) <= lag /\ Len(unread) <= scrolls
  /\ scrolls <= MenuSize[menu] => selected = scrolls /\ firstRow = First(scrolls)
  /\ \A k \in 1..Len(unread) :
       /\ unread[k] \subseteq MenuRows(menu)
       /\ PagesRead + k <= MenuSize[menu] =>
            unread[k] = Page(menu, First(PagesRead + k))

(* Barren scrolls are those on the first page and those of pages on their way.*)
ReadSoFar ==
  /\ found \subseteq MenuRows(menu)
  /\ \A i \in 1..MenuSize[menu] : <<menu, i>> \in found <=> i <= Reach(PagesRead)
  /\ Reach(PagesRead) < MenuSize[menu] =>
       barren <= IF PagesRead <= PageRows THEN scrolls ELSE Len(unread)

Complete(m, commands) ==
  /\ commands \subseteq MenuRows(m)
  /\ m \notin ceiling /\ PageRows + lag < Patience => commands = MenuRows(m)

Closing == {"close", "kill", "reap", "write", "end"}

HarvestInv ==
  /\ HarvestTypeOK
  /\ step = "prompt" => menu = "top_level"
  /\ written => menu = "execcli" /\ step = "end"
  /\ ~dropped =>
       /\ step \notin Closing => child = "alive"
       /\ step = "scroll" => PagesOnWay /\ ReadSoFar
       /\ step = "leave" => Complete(menu, found)
       /\ menu = "execcli" => Complete("top_level", catalog["top_level"])
       /\ menu = "execcli" /\ step \in Closing =>
            Complete("execcli", catalog["execcli"])

LEMMA HarvestInitInv == HarvestInit => HarvestInv
<1> SUFFICES ASSUME HarvestInit PROVE HarvestInv
  OBVIOUS
<1>1. /\ menu \in Menus /\ barren \in 0..Patience /\ scrolls \in 0..MaxScrolls
      /\ unread \in Seq(SUBSET Commands)
  BY HarvestAssumption DEF HarvestInit, Menus
<1>2. catalog \in [Menus -> SUBSET Commands]
  BY DEF HarvestInit
<1>3. child \in {"alive", "dead"} /\ written \in BOOLEAN /\ dropped \in BOOLEAN
  BY Zenon DEF HarvestInit
<1>4. /\ selected \in Nat /\ firstRow \in Nat \ {0}
      /\ step \in {"prompt", "open", "scroll", "leave", "close", "kill", "reap",
                   "write", "end"}
      /\ lag \in Nat
  BY DEF HarvestInit
<1>5. found \subseteq Commands /\ ceiling \subseteq Menus
  BY DEF HarvestInit
<1>6. HarvestTypeOK
  BY <1>1, <1>2, <1>3, <1>4, <1>5 DEF HarvestTypeOK
<1> QED BY <1>6 DEF HarvestInit, HarvestInv, Closing

(* Rows and pages.                                                           *)
LEMMA RowsOf ==
  ASSUME NEW m \in Menus
  PROVE  /\ MenuSize[m] \in Nat \ {0}
         /\ \A i : <<m, i>> \in MenuRows(m) <=> i \in 1..MenuSize[m]
         /\ \A x \in MenuRows(m) : \E i \in 1..MenuSize[m] : x = <<m, i>>
         /\ MenuRows(m) \subseteq Commands
<1>1. MenuSize[m] \in Nat \ {0}
  BY HarvestAssumption
<1>2. \A x \in MenuRows(m) : \E i \in 1..MenuSize[m] : x = <<m, i>>
  BY DEF MenuRows
<1>3. \A i : <<m, i>> \in MenuRows(m) <=> i \in 1..MenuSize[m]
  BY DEF MenuRows
<1>4. MenuRows(m) \subseteq Commands
  BY <1>1, <1>2 DEF Commands
<1> QED BY <1>1, <1>2, <1>3, <1>4

LEMMA RowsOfPage ==
  ASSUME NEW m \in Menus, NEW f \in Nat
  PROVE  /\ Page(m, f) \subseteq MenuRows(m)
         /\ \A i \in 1..MenuSize[m] :
              <<m, i>> \in Page(m, f) <=> f <= i /\ i <= f + PageRows - 1
<1>1. \A i : <<m, i>> \in {<<m, j>> : j \in f..(f + PageRows - 1)}
               <=> i \in f..(f + PageRows - 1)
  OBVIOUS
<1>2. PageRows \in Nat \ {0} /\ MenuSize[m] \in Nat \ {0}
  BY HarvestAssumption
<1> QED BY <1>1, <1>2, RowsOf DEF Page

(* The pages a scroll in a living session finds on their way.                *)
Painted == Append(unread, Page(menu, firstRow'))

LEMMA PaintedPages ==
  ASSUME HarvestTypeOK, PagesOnWay, selected' = NextSelected, firstRow' = NextFirst
  PROVE  /\ Painted \in Seq(SUBSET Commands) /\ Len(Painted) = Len(unread) + 1
         /\ selected' \in Nat /\ firstRow' \in Nat \ {0}
         /\ scrolls + 1 <= MenuSize[menu] =>
              selected' = scrolls + 1 /\ firstRow' = First(scrolls + 1)
         /\ \A k \in 1..Len(Painted) :
              /\ Painted[k] \subseteq MenuRows(menu)
              /\ PagesRead + k <= MenuSize[menu] =>
                   Painted[k] = Page(menu, First(PagesRead + k))
<1>1. /\ menu \in Menus /\ MenuSize[menu] \in Nat \ {0} /\ PageRows \in Nat \ {0}
      /\ scrolls \in Nat /\ unread \in Seq(SUBSET Commands) /\ Len(unread) \in Nat
      /\ selected \in Nat /\ firstRow \in Nat \ {0}
  BY HarvestAssumption DEF HarvestTypeOK
<1>2. selected' \in Nat /\ firstRow' \in Nat \ {0}
  BY <1>1 DEF NextSelected, NextFirst
<1>3. scrolls + 1 <= MenuSize[menu] =>
        selected' = scrolls + 1 /\ firstRow' = First(scrolls + 1)
  BY <1>1 DEF NextSelected, NextFirst, First, PagesOnWay
<1>4. Page(menu, firstRow') \subseteq MenuRows(menu)
      /\ Page(menu, firstRow') \subseteq Commands
  BY <1>1, <1>2, RowsOf, RowsOfPage
<1>5. Painted \in Seq(SUBSET Commands) /\ Len(Painted) = Len(unread) + 1
      /\ Painted[Len(unread) + 1] = Page(menu, firstRow')
      /\ \A k \in 1..Len(unread) : Painted[k] = unread[k]
  BY <1>1, <1>4 DEF Painted
<1>6. ASSUME NEW k \in 1..Len(Painted)
      PROVE  /\ Painted[k] \subseteq MenuRows(menu)
             /\ PagesRead + k <= MenuSize[menu] =>
                  Painted[k] = Page(menu, First(PagesRead + k))
  <2>1. CASE k \in 1..Len(unread)
    BY <1>5, <2>1 DEF PagesOnWay
  <2>2. CASE k = Len(unread) + 1
    <3>1. PagesRead + k = scrolls + 1
      BY <1>1, <2>2 DEF PagesRead
    <3> QED BY <1>3, <1>4, <1>5, <2>2, <3>1
  <2> QED BY <1>1, <1>5, <2>1, <2>2
<1> QED BY <1>2, <1>3, <1>5, <1>6

(* Reading the n oldest of them extends the reach by n pages.                *)
LEMMA PagesExtend ==
  ASSUME HarvestTypeOK, PagesOnWay, ReadSoFar,
         selected' = NextSelected, firstRow' = NextFirst,
         NEW n \in 0..Len(Painted)
  PROVE  /\ found \cup ReadPages(Painted, n) \subseteq MenuRows(menu)
         /\ \A i \in 1..MenuSize[menu] :
              <<menu, i>> \in found \cup ReadPages(Painted, n)
                <=> i <= Reach(PagesRead + n)
<1>1. /\ menu \in Menus /\ MenuSize[menu] \in Nat \ {0} /\ PageRows \in Nat \ {0}
      /\ scrolls \in Nat /\ Len(unread) \in Nat /\ Len(unread) <= scrolls
      /\ PagesRead \in Nat /\ n \in Nat /\ Len(Painted) = Len(unread) + 1
  BY HarvestAssumption, PaintedPages DEF HarvestTypeOK, PagesOnWay, PagesRead
<1>2. \A k \in 1..n : k \in 1..Len(Painted)
  BY <1>1
<1>3. found \cup ReadPages(Painted, n) \subseteq MenuRows(menu)
  BY <1>2, PaintedPages DEF ReadPages, ReadSoFar
<1>4. ASSUME NEW i \in 1..MenuSize[menu], i <= Reach(PagesRead + n)
      PROVE  <<menu, i>> \in found \cup ReadPages(Painted, n)
  <2>1. CASE i <= Reach(PagesRead)
    BY <2>1 DEF ReadSoFar
  <2>2. CASE ~(i <= Reach(PagesRead))
    <3>1. i - PagesRead \in 1..n /\ i > PageRows
      BY <1>1, <1>4, <2>2 DEF Reach
    <3> DEFINE k == i - PagesRead
    <3>2. PagesRead + k = i
      BY <1>1
    <3>3. Painted[k] = Page(menu, First(i))
      BY <1>1, <1>2, <3>1, <3>2, PaintedPages
    <3>4. First(i) \in Nat /\ First(i) <= i /\ i <= First(i) + PageRows - 1
      BY <1>1, <3>1 DEF First
    <3>5. <<menu, i>> \in Painted[k]
      BY <1>1, <3>3, <3>4, RowsOfPage
    <3> QED BY <3>1, <3>5 DEF ReadPages
  <2> QED BY <2>1, <2>2
<1>5. ASSUME NEW i \in 1..MenuSize[menu], <<menu, i>> \in found \cup ReadPages(Painted, n)
      PROVE  i <= Reach(PagesRead + n)
  <2>1. CASE <<menu, i>> \in found
    <3>1. i <= Reach(PagesRead)
      BY <2>1 DEF ReadSoFar
    <3> QED BY <1>1, <3>1 DEF Reach
  <2>2. CASE <<menu, i>> \in ReadPages(Painted, n)
    <3>1. PICK k \in 1..n : <<menu, i>> \in Painted[k]
      BY <2>2 DEF ReadPages
    <3>2. CASE PagesRead + k <= MenuSize[menu]
      <4>1. First(PagesRead + k) \in Nat
        BY <1>1 DEF First
      <4>2. i <= First(PagesRead + k) + PageRows - 1
        BY <1>1, <1>2, <3>1, <3>2, <4>1, PaintedPages, RowsOfPage
      <4> QED BY <1>1, <4>2 DEF First, Reach
    <3>3. CASE ~(PagesRead + k <= MenuSize[menu])
      BY <1>1, <3>3 DEF Reach
    <3> QED BY <3>2, <3>3
  <2> QED BY <1>5, <2>1, <2>2
<1> QED BY <1>3, <1>4, <1>5

(* A scroll keeps the account of the pages.                                  *)
LEMMA ScrollKeeps ==
  ASSUME HarvestTypeOK, PagesOnWay, ReadSoFar, child = "alive", ScrollDown
  PROVE  PagesOnWay' /\ ReadSoFar'
<1>1. PICK n \in 0..Len(Painted) :
        /\ unread' = SubSeq(Painted, n + 1, Len(Painted))
        /\ lag' = IF Len(Painted) - n > lag THEN Len(Painted) - n ELSE lag
        /\ found' = found \cup ReadPages(Painted, n)
        /\ barren' = IF found' = found THEN barren + 1 ELSE 0
  BY DEF ScrollDown, Echoed, Painted
<1>2. /\ selected' = NextSelected /\ firstRow' = NextFirst
      /\ scrolls' = scrolls + 1 /\ menu' = menu
  BY DEF ScrollDown
<1>3. /\ menu \in Menus /\ MenuSize[menu] \in Nat \ {0} /\ PageRows \in Nat \ {0}
      /\ scrolls \in Nat /\ Len(unread) \in Nat /\ Len(unread) <= scrolls
      /\ PagesRead \in Nat /\ n \in Nat /\ Len(Painted) = Len(unread) + 1
      /\ Painted \in Seq(SUBSET Commands) /\ lag \in Nat /\ barren \in Nat
  BY <1>2, HarvestAssumption, PaintedPages
     DEF HarvestTypeOK, PagesOnWay, PagesRead
<1>4. Len(unread') = Len(Painted) - n
      /\ \A k \in 1..Len(unread') : unread'[k] = Painted[n + k]
  <2>1. ASSUME NEW S, NEW q \in Seq(S), NEW m \in 0..Len(q)
        PROVE  /\ Len(SubSeq(q, m + 1, Len(q))) = Len(q) - m
               /\ \A k \in 1..(Len(q) - m) : SubSeq(q, m + 1, Len(q))[k] = q[m + k]
    OBVIOUS
  <2> HIDE DEF Painted
  <2>2. /\ Len(SubSeq(Painted, n + 1, Len(Painted))) = Len(Painted) - n
        /\ \A k \in 1..(Len(Painted) - n) :
             SubSeq(Painted, n + 1, Len(Painted))[k] = Painted[n + k]
    BY <1>3, <2>1
  <2> QED BY <1>1, <2>2
<1>5. PagesRead' = PagesRead + n /\ Len(unread') <= scrolls' /\ Len(unread') <= lag'
  <2>1. PagesRead' = PagesRead + n /\ Len(unread') <= scrolls'
    BY <1>2, <1>3, <1>4 DEF PagesRead
  <2> HIDE DEF Painted
  <2>2. Len(unread') <= lag'
    BY <1>1, <1>3, <1>4
  <2> QED BY <2>1, <2>2
<1>6. PagesOnWay'
  <2>1. ASSUME NEW k \in 1..Len(unread')
        PROVE  /\ unread'[k] \subseteq MenuRows(menu)
               /\ PagesRead' + k <= MenuSize[menu] =>
                    unread'[k] = Page(menu, First(PagesRead' + k))
    <3>1. n + k \in 1..Len(Painted) /\ PagesRead' + k = PagesRead + (n + k)
      BY <1>3, <1>4, <1>5
    <3> QED BY <1>2, <1>4, <3>1, PaintedPages
  <2>2. scrolls' <= MenuSize[menu] => selected' = scrolls' /\ firstRow' = First(scrolls')
    BY <1>2, PaintedPages
  <2> QED BY <1>1, <1>2, <1>4, <1>5, <2>1, <2>2 DEF PagesOnWay
<1>7. found' \subseteq MenuRows(menu)
      /\ \A i \in 1..MenuSize[menu] : <<menu, i>> \in found' <=> i <= Reach(PagesRead')
  BY <1>1, <1>2, <1>5, PagesExtend
<1>8. ASSUME Reach(PagesRead') < MenuSize[menu]
      PROVE  barren' <= IF PagesRead' <= PageRows THEN scrolls' ELSE Len(unread')
  <2>1. Reach(PagesRead) < MenuSize[menu]
    BY <1>3, <1>5, <1>8 DEF Reach
  <2>2. barren <= IF PagesRead <= PageRows THEN scrolls ELSE Len(unread)
    BY <2>1 DEF ReadSoFar
  <2>3. barren' \in {0, barren + 1}
    BY <1>1
  <2>4. CASE PagesRead' <= PageRows
    BY <1>2, <1>3, <1>5, <2>2, <2>3, <2>4
  <2>5. CASE ~(PagesRead' <= PageRows) /\ n = 0
    BY <1>2, <1>3, <1>4, <1>5, <2>2, <2>3, <2>5
  <2>6. CASE ~(PagesRead' <= PageRows) /\ n # 0
    <3>1. /\ Reach(PagesRead') = PagesRead' /\ PagesRead' \in 1..MenuSize[menu]
          /\ ~(PagesRead' <= Reach(PagesRead))
      BY <1>3, <1>5, <1>8, <2>6 DEF Reach
    <3>2. <<menu, PagesRead'>> \in found'
      BY <1>3, <1>5, <1>7, <3>1
    <3>3. <<menu, PagesRead'>> \notin found
      BY <3>1 DEF ReadSoFar
    <3>4. barren' = 0
      BY <1>1, <3>2, <3>3
    <3> QED BY <1>3, <1>4, <2>6, <3>4
  <2> QED BY <2>4, <2>5, <2>6
<1>9. ReadSoFar'
  BY <1>2, <1>7, <1>8 DEF ReadSoFar
<1> QED BY <1>6, <1>9

(* Patience that outlasts the first page and the pages on their way suffices. *)
LEMMA PatienceEnough ==
  ASSUME HarvestTypeOK, PagesOnWay, ReadSoFar, barren = Patience,
         PageRows + lag < Patience
  PROVE  found = MenuRows(menu)
<1>1. /\ menu \in Menus /\ MenuSize[menu] \in Nat \ {0} /\ PageRows \in Nat \ {0}
      /\ scrolls \in Nat /\ Len(unread) \in Nat /\ PagesRead \in Nat
      /\ lag \in Nat /\ Patience \in Nat
  BY HarvestAssumption DEF HarvestTypeOK, PagesOnWay, PagesRead
<1>2. ~(Reach(PagesRead) < MenuSize[menu])
  BY <1>1 DEF Reach, ReadSoFar, PagesOnWay, PagesRead
<1>3. \A i \in 1..MenuSize[menu] : i <= Reach(PagesRead)
  BY <1>1, <1>2 DEF Reach
<1> QED BY <1>1, <1>3, RowsOf DEF ReadSoFar

LEMMA OpenReads ==
  ASSUME HarvestTypeOK, OpenMenu, child = "alive"
  PROVE  PagesOnWay' /\ ReadSoFar'
<1>1. /\ menu' = menu /\ unread' = <<>> /\ scrolls' = 0 /\ barren' = 0
      /\ selected' = 0 /\ firstRow' = 1 /\ found' = Page(menu, 1) /\ lag' = lag
  BY DEF OpenMenu
<1>2. /\ menu \in Menus /\ MenuSize[menu] \in Nat \ {0} /\ PageRows \in Nat \ {0}
      /\ lag \in Nat
  BY HarvestAssumption DEF HarvestTypeOK
<1>3. Len(unread') = 0 /\ PagesRead' = 0
  <2>1. Len(<<>>) = 0
    OBVIOUS
  <2>2. Len(unread') = Len(<<>>)
    BY <1>1, Zenon
  <2>3. Len(unread') = 0
    BY <2>1, <2>2, Zenon
  <2>4. PagesRead' = scrolls' - Len(unread')
    BY DEF PagesRead
  <2>5. scrolls' - Len(unread') = 0 - 0
    BY <1>1, <2>3, Zenon
  <2>6. 0 - 0 = 0
    OBVIOUS
  <2> QED BY <2>3, <2>4, <2>5, <2>6, Zenon
<1>4. PagesOnWay'
  BY <1>1, <1>2, <1>3 DEF PagesOnWay, First
<1>5. /\ Page(menu, 1) \subseteq MenuRows(menu)
      /\ \A i \in 1..MenuSize[menu] : <<menu, i>> \in Page(menu, 1) <=> i <= PageRows
  BY <1>2, RowsOfPage
<1>6. ReadSoFar'
  BY <1>1, <1>2, <1>3, <1>5 DEF ReadSoFar, Reach
<1> QED BY <1>4, <1>6

LEMMA HarvestStepType == HarvestInv /\ [HarvestNext]_harvestVars => HarvestTypeOK'
<1> SUFFICES ASSUME HarvestInv, [HarvestNext]_harvestVars PROVE HarvestTypeOK'
  OBVIOUS
<1> USE DEF HarvestTypeOK
<1> HarvestTypeOK
  BY DEF HarvestInv
<1>0. menu \in Menus /\ Echoes \subseteq Commands
  BY DEF Echoes, Commands
<1>1. CASE WaitForPrompt BY <1>1 DEF WaitForPrompt
<1>2. CASE OpenMenu
  <2>1. Page(menu, 1) \subseteq Commands
    BY <1>0, RowsOf DEF Page
  <2>2. found' \subseteq Commands
    BY <1>0, <1>2, <2>1 DEF OpenMenu, Echoed
  <2>3. unread' \in Seq(SUBSET Commands) /\ barren' \in 0..Patience
        /\ scrolls' \in 0..MaxScrolls
    BY <1>2, HarvestAssumption DEF OpenMenu
  <2> QED BY <1>2, <2>2, <2>3 DEF OpenMenu
<1>3. CASE ScrollDown
  <2>1. selected' \in Nat /\ firstRow' \in Nat \ {0}
    BY <1>0, <1>3, HarvestAssumption DEF ScrollDown, NextSelected, NextFirst
  <2>2. PICK pages \in {unread, Painted} : \E n \in 0..Len(pages), echo \in Echoed :
          /\ lag' = IF Len(pages) - n > lag THEN Len(pages) - n ELSE lag
          /\ unread' = SubSeq(pages, n + 1, Len(pages))
          /\ found' = found \cup ReadPages(pages, n) \cup echo
          /\ barren' = IF found' = found THEN barren + 1 ELSE 0
    BY <1>3 DEF ScrollDown, Painted
  <2>3. PICK n \in 0..Len(pages), echo \in Echoed :
          /\ lag' = IF Len(pages) - n > lag THEN Len(pages) - n ELSE lag
          /\ unread' = SubSeq(pages, n + 1, Len(pages))
          /\ found' = found \cup ReadPages(pages, n) \cup echo
          /\ barren' = IF found' = found THEN barren + 1 ELSE 0
    BY <2>2
  <2>4. pages \in Seq(SUBSET Commands)
    <3>1. Page(menu, firstRow') \in SUBSET Commands
      BY <1>0, RowsOf DEF Page
    <3> QED BY <3>1 DEF Painted
  <2>5. unread' \in Seq(SUBSET Commands)
    BY <2>3, <2>4
  <2>6. ReadPages(pages, n) \subseteq Commands
    BY <2>3, <2>4 DEF ReadPages
  <2>7. found' \subseteq Commands
    BY <1>0, <2>3, <2>6 DEF Echoed
  <2>8. barren' \in 0..Patience /\ scrolls' \in 0..MaxScrolls
    BY <1>3, <2>3, HarvestAssumption DEF ScrollDown
  <2>9. lag' \in Nat
    <3>1. Len(pages) \in Nat
      BY <2>4
    <3> HIDE DEF Painted
    <3> QED BY <2>3, <3>1
  <2> QED BY <1>3, <2>1, <2>5, <2>7, <2>8, <2>9 DEF ScrollDown
<1>4. CASE ScrollsEnd BY <1>4 DEF ScrollsEnd
<1>5. CASE LeaveMenu
  <2>1. unread' \in Seq(SUBSET Commands) /\ menu' \in Menus
    BY <1>5 DEF LeaveMenu, Menus
  <2> QED BY <1>5, <2>1 DEF LeaveMenu
<1>6. CASE Terminate BY <1>6 DEF Terminate
<1>7. CASE KillChild BY <1>7 DEF KillChild
<1>8. CASE WriteCatalog BY <1>8 DEF WriteCatalog
<1>9. CASE SessionDies BY <1>9 DEF SessionDies
<1>10. CASE UNCHANGED harvestVars BY <1>10 DEF harvestVars
<1> QED
  BY <1>1, <1>2, <1>3, <1>4, <1>5, <1>6, <1>7, <1>8, <1>9, <1>10 DEF HarvestNext

LEMMA LessLagSuffices ==
  ASSUME NEW a \in Nat, NEW b \in Nat, NEW rows \in Nat, NEW limit \in Nat, a <= b
  PROVE  rows + b < limit => rows + a < limit
OBVIOUS

LEMMA HarvestStepInv == HarvestInv /\ [HarvestNext]_harvestVars => HarvestInv'
<1> SUFFICES ASSUME HarvestInv, [HarvestNext]_harvestVars PROVE HarvestInv'
  OBVIOUS
<1>0. HarvestTypeOK /\ HarvestTypeOK'
  BY HarvestStepType DEF HarvestInv
<1> USE <1>0 DEF HarvestInv, Closing
<1>1. CASE WaitForPrompt BY <1>1 DEF WaitForPrompt
<1>2. CASE OpenMenu
  <2>1. ~dropped => PagesOnWay' /\ ReadSoFar'
    BY <1>2, OpenReads DEF OpenMenu
  <2> QED BY <1>2, <2>1 DEF OpenMenu, Complete
<1>3. CASE ScrollDown
  <2>1. ~dropped => PagesOnWay' /\ ReadSoFar'
    BY <1>3, ScrollKeeps DEF ScrollDown
  <2>2. lag <= lag' /\ lag \in Nat /\ lag' \in Nat
    <3>1. lag' = lag \/ lag' > lag
      BY <1>3 DEF ScrollDown
    <3> QED BY <3>1 DEF HarvestTypeOK
  <2>3. PageRows + lag' < Patience => PageRows + lag < Patience
    <3>1. PageRows \in Nat /\ Patience \in Nat
      BY HarvestAssumption
    <3> QED BY <2>2, <3>1, LessLagSuffices
  <2>4. \A m \in Menus : Complete(m, catalog[m]) => Complete(m, catalog[m])'
    BY <1>3, <2>3 DEF ScrollDown, Complete, MenuRows
  <2> QED BY <1>3, <2>1, <2>4 DEF ScrollDown, Menus
<1>4. CASE ScrollsEnd
  <2>1. ~dropped => Complete(menu, found)'
    BY <1>4, PatienceEnough DEF ScrollsEnd, Complete, ReadSoFar
  <2>2. ceiling \subseteq ceiling'
    BY <1>4 DEF ScrollsEnd
  <2> QED BY <1>4, <2>1, <2>2 DEF ScrollsEnd, Complete
<1>5. CASE LeaveMenu
  <2>1. catalog'[menu] = found
        /\ \A m \in Menus \ {menu} : catalog'[m] = catalog[m]
    BY <1>5 DEF LeaveMenu, HarvestTypeOK
  <2> QED BY <1>5, <2>1 DEF LeaveMenu, Complete, Menus
<1>6. CASE Terminate BY <1>6 DEF Terminate, Complete
<1>7. CASE KillChild BY <1>7 DEF KillChild, Complete
<1>8. CASE WriteCatalog BY <1>8 DEF WriteCatalog, Complete
<1>9. CASE SessionDies BY <1>9 DEF SessionDies
<1>10. CASE UNCHANGED harvestVars
  BY <1>10 DEF harvestVars, PagesOnWay, ReadSoFar, PagesRead, Complete
<1> QED
  BY <1>1, <1>2, <1>3, <1>4, <1>5, <1>6, <1>7, <1>8, <1>9, <1>10 DEF HarvestNext

(* In a session that lasted, a catalog holds nothing but rows of its menus,   *)
(* and the whole of a menu that was not reported as maybe truncated unless    *)
(* the pages a read once left behind, with the first page, outlasted the      *)
(* patience: for menus, pages and patience of any size, however late pages    *)
(* came.                                                                    *)
THEOREM HarvestAlwaysComplete == HarvestSpec => []HarvestComplete
<1>1. HarvestInv => HarvestComplete
  BY DEF HarvestInv, HarvestComplete, Complete, Menus, Closing
<1> QED BY <1>1, HarvestInitInv, HarvestStepInv, PTL DEF HarvestSpec

------------------------------------------------------------------------------
(* The receipt file: whatever calls fail, whoever is killed and whenever the  *)
(* power goes, a receipt is not replaced, and an exit code of 0 or 2 tells    *)
(* the truth, for any number of invocations with one path.                    *)

(* What an invocation knows at each of its calls: that what it writes is a    *)
(* receipt; that it is on the disk before it is linked; that it is the one   *)
(* at the path afterwards; and that the entry is on the disk before the end. *)
Publishing == {"check", "make", "write", "sync", "link", "syncDirectory", "unlink", "exit"}
Linked == {"syncDirectory", "unlink", "exit"}
Statuses == {"passed", "unproven", "error"}

Knows(w) ==
  /\ call[w] \in Publishing => says[w] \in Statuses
  /\ call[w] \in {"link"} \cup Linked => inode[w] = "synced"
  /\ call[w] \in Linked => target = [by |-> w, says |-> says[w]]
  /\ call[w] \in {"unlink", "exit"} => entrySafe
  /\ call[w] = "exit" => says[w] # "error"

Told(w) ==
  code[w] \in {0, 2} =>
    /\ call[w] = "gone" /\ target # Free
    /\ target.by = w /\ inode[w] = "synced" /\ entrySafe
    /\ (code[w] = 0 <=> target.says = "passed")
    /\ target.says # "error"

ReceiptInv == ReceiptTypeOK /\ \A w \in Writers : Knows(w) /\ Told(w)

LEMMA NotFree == \A w \in Writers, s \in Statuses : [by |-> w, says |-> s] # Free
BY DEF Statuses, Free

LEMMA ReceiptInitInv == ReceiptInit => ReceiptInv
<1> SUFFICES ASSUME ReceiptInit PROVE ReceiptInv
  OBVIOUS
<1>1. entrySafe \in BOOLEAN /\ powerLost \in BOOLEAN
  BY Zenon DEF ReceiptInit
<1>2. ReceiptTypeOK
  BY <1>1 DEF ReceiptInit, ReceiptTypeOK, Alive
<1>3. ASSUME NEW w \in Writers PROVE Knows(w) /\ Told(w)
  BY DEF ReceiptInit, Knows, Told, Publishing, Linked, Alive
<1> QED BY <1>2, <1>3 DEF ReceiptInv

(* The types, one action after the other.                                    *)
LEMMA ReceiptType ==
  ASSUME ReceiptInv, NEW w \in Writers, WriterActs(w)
  PROVE  ReceiptTypeOK'
<1> ReceiptTypeOK /\ Knows(w)
  BY DEF ReceiptInv
<1> USE DEF ReceiptTypeOK, Goes, AfterError
<1>1. CASE Collect(w) BY <1>1 DEF Collect
<1>2. CASE CheckTarget(w) BY <1>2 DEF CheckTarget
<1>3. CASE MakeTemporary(w) BY <1>3 DEF MakeTemporary
<1>4. CASE WriteContent(w) BY <1>4 DEF WriteContent
<1>5. CASE SyncContent(w) BY <1>5 DEF SyncContent
<1>6. CASE LinkTarget(w)
  <2>1. target' \in [by : Writers, says : Statuses] \cup {Free}
    <3>1. CASE UNCHANGED target BY <3>1 DEF Statuses
    <3>2. CASE target' # target
      <4>1. call[w] = "link" /\ target' = [by |-> w, says |-> says[w]]
        BY <1>6, <3>2 DEF LinkTarget
      <4> QED BY <4>1 DEF Knows, Publishing, Statuses
    <3> QED BY <3>1, <3>2
  <2>2. entrySafe' \in BOOLEAN
    BY <1>6 DEF LinkTarget
  <2>3. call' \in [Writers -> {"collect", "check", "make", "write", "sync", "link",
                              "syncDirectory", "unlink", "abandon", "report", "exit",
                              "refuse", "gone"}]
    BY <1>6 DEF LinkTarget
  <2> QED BY <1>6, <2>1, <2>2, <2>3 DEF LinkTarget, Statuses
<1>7. CASE SyncDirectory(w) BY <1>7 DEF SyncDirectory
<1>8. CASE Unlink(w) BY <1>8 DEF Unlink
<1>9. CASE Abandon(w) BY <1>9 DEF Abandon
<1>10. CASE ReportFailure(w) BY <1>10 DEF ReportFailure
<1>11. CASE Exit(w) BY <1>11 DEF Exit
<1>12. CASE WriterKilled(w) BY <1>12 DEF WriterKilled
<1> QED
  BY <1>1, <1>2, <1>3, <1>4, <1>5, <1>6, <1>7, <1>8, <1>9, <1>10, <1>11, <1>12
  DEF WriterActs

(* What the acting writer knows afterwards.                                   *)
LEMMA ActorKnows ==
  ASSUME ReceiptInv, NEW w \in Writers, WriterActs(w)
  PROVE  Knows(w)' /\ Told(w)'
<1> ReceiptTypeOK /\ Knows(w) /\ Told(w)
  BY DEF ReceiptInv
<1> USE DEF ReceiptTypeOK, Knows, Told, Goes, Publishing, Linked, Statuses
<1>1. CASE Collect(w) BY <1>1 DEF Collect
<1>2. CASE CheckTarget(w) BY <1>2 DEF CheckTarget, AfterError
<1>3. CASE MakeTemporary(w) BY <1>3 DEF MakeTemporary, AfterError
<1>4. CASE WriteContent(w) BY <1>4 DEF WriteContent
<1>5. CASE SyncContent(w) BY <1>5 DEF SyncContent
<1>6. CASE LinkTarget(w) BY <1>6, NotFree DEF LinkTarget
<1>7. CASE SyncDirectory(w) BY <1>7 DEF SyncDirectory
<1>8. CASE Unlink(w) BY <1>8 DEF Unlink, AfterError
<1>9. CASE Abandon(w) BY <1>9 DEF Abandon, AfterError
<1>10. CASE ReportFailure(w) BY <1>10 DEF ReportFailure
<1>11. CASE Exit(w) BY <1>11, NotFree DEF Exit
<1>12. CASE WriterKilled(w) BY <1>12 DEF WriterKilled
<1> QED
  BY <1>1, <1>2, <1>3, <1>4, <1>5, <1>6, <1>7, <1>8, <1>9, <1>10, <1>11, <1>12
  DEF WriterActs

(* A writer leaves the others and a path that is taken alone.                 *)
LEMMA OthersKept ==
  ASSUME ReceiptInv, NEW w \in Writers, WriterActs(w)
  PROVE  /\ \A v \in Writers \ {w} : /\ call'[v] = call[v] /\ says'[v] = says[v]
                                     /\ inode'[v] = inode[v] /\ code'[v] = code[v]
         /\ target # Free => target' = target
         /\ target # Free /\ entrySafe => entrySafe'
BY DEF ReceiptInv, ReceiptTypeOK, WriterActs, Goes, Collect, CheckTarget, MakeTemporary,
       WriteContent, SyncContent, LinkTarget, SyncDirectory, Unlink, Abandon,
       ReportFailure, Exit, WriterKilled

LEMMA WriterInv ==
  ASSUME ReceiptInv, NEW w \in Writers, WriterActs(w)
  PROVE  ReceiptInv'
<1>1. ReceiptTypeOK' BY ReceiptType
<1>2. ASSUME NEW v \in Writers PROVE Knows(v)' /\ Told(v)'
  <2>1. CASE v = w BY <2>1, ActorKnows
  <2>2. CASE v # w
    <3>1. Knows(v) /\ Told(v)
      BY DEF ReceiptInv
    <3>2. call'[v] = call[v] /\ says'[v] = says[v] /\ inode'[v] = inode[v]
          /\ code'[v] = code[v]
      BY <2>2, OthersKept
    <3>3. call[v] \in Linked => target # Free
      BY <3>1, NotFree DEF Knows, Linked, Publishing, Statuses
    <3>4. Knows(v)'
      BY <3>1, <3>2, <3>3, OthersKept DEF Knows, Linked
    <3>5. Told(v)'
      BY <3>1, <3>2, OthersKept DEF Told
    <3> QED BY <3>4, <3>5
  <2> QED BY <2>1, <2>2
<1> QED BY <1>1, <1>2 DEF ReceiptInv

(* What the power takes was not reported by anybody.                          *)
LEMMA PowerInv == ReceiptInv /\ PowerFails => ReceiptInv'
<1> SUFFICES ASSUME ReceiptInv, PowerFails PROVE ReceiptInv'
  OBVIOUS
<1>1. ReceiptTypeOK'
  <2>1. entrySafe' \in BOOLEAN /\ powerLost' \in BOOLEAN
    BY Zenon DEF PowerFails
  <2>2. target' \in {target, Free}
    BY DEF PowerFails
  <2> QED BY <2>1, <2>2 DEF PowerFails, ReceiptInv, ReceiptTypeOK
<1>2. ASSUME NEW w \in Writers PROVE Knows(w)' /\ Told(w)'
  <2>1. call'[w] \in {"collect", "gone"} /\ (call[w] = "gone" => call'[w] = "gone")
    BY DEF PowerFails
  <2>2. inode[w] = "synced" => inode'[w] = "synced"
    BY DEF PowerFails
  <2>3. entrySafe => UNCHANGED <<target, code>> /\ entrySafe'
    BY DEF PowerFails
  <2>4. Knows(w)'
    BY <2>1 DEF Knows, Publishing, Linked
  <2>5. code' = code /\ Told(w)
    BY DEF PowerFails, ReceiptInv
  <2>6. Told(w)'
    BY <2>1, <2>2, <2>3, <2>5 DEF Told
  <2> QED BY <2>4, <2>6
<1> QED BY <1>1, <1>2 DEF ReceiptInv

LEMMA ReceiptNextInv == ReceiptInv /\ [ReceiptNext]_receiptVars => ReceiptInv'
<1>1. ReceiptInv /\ UNCHANGED receiptVars => ReceiptInv'
  BY DEF receiptVars, ReceiptInv, ReceiptTypeOK, Knows, Told
<1> QED BY <1>1, WriterInv, PowerInv DEF ReceiptNext

(* Exit code 0 or 2 means that the receipt at the path is the invocation's    *)
(* own, passed with 0 and only then, complete and safe from a power failure. *)
THEOREM ExitAlwaysTellsTruth == ReceiptSpec => []ExitTellsTruth
<1>1. ReceiptInv => ExitTellsTruth
  BY DEF ReceiptInv, ExitTellsTruth, Told
<1> QED BY <1>1, ReceiptInitInv, ReceiptNextInv, PTL DEF ReceiptSpec

(* A receipt is never replaced nor changed; only the power may take it, and   *)
(* only before its writer has reported it.                                   *)
THEOREM ReceiptsImmutable == ReceiptSpec => ReceiptImmutable
<1>1. ReceiptInv /\ [ReceiptNext]_receiptVars =>
        [target # Free /\ target' # target =>
           target' = Free /\ powerLost' # powerLost /\ code[target.by] \notin {0, 2}
        ]_receiptVars
  <2> SUFFICES ASSUME ReceiptInv, [ReceiptNext]_receiptVars,
                      target # Free, target' # target
               PROVE  target' = Free /\ powerLost' # powerLost
                      /\ code[target.by] \notin {0, 2}
    OBVIOUS
  <2>1. PowerFails
    BY OthersKept DEF ReceiptNext, receiptVars
  <2>2. target' = Free /\ ~entrySafe /\ powerLost' # powerLost
    BY <2>1 DEF PowerFails
  <2>3. target.by \in Writers
    BY DEF ReceiptInv, ReceiptTypeOK
  <2>4. code[target.by] \notin {0, 2}
    BY <2>2, <2>3 DEF ReceiptInv, Told
  <2> QED BY <2>2, <2>4
<1> QED BY <1>1, ReceiptInitInv, ReceiptNextInv, PTL DEF ReceiptSpec, ReceiptImmutable

------------------------------------------------------------------------------
(* All programs together.  A step is a step of the program at work, and the   *)
(* others stay as they are: each program behaves as it does alone.           *)
LEMMA StepOfEach ==
  ASSUME [ToolsNext]_toolsVars
  PROVE  /\ [FrrNext]_frrVars /\ [FailoverNext]_failoverVars /\ [KvmNext]_kvmVars
         /\ [ReceiptNext]_receiptVars /\ [TrafficNext]_trafficVars /\ [CacheNext]_cacheVars
         /\ [RunnerNext]_runnerVars /\ [ObserverNext]_observerVars
         /\ [HarvestNext]_harvestVars /\ [UpgradeNext]_upgradeVars
         /\ [LegacyNext]_destroyVars /\ [ProviderNext]_providerVars
         /\ [EvidenceNext]_evidenceVars /\ [LanClientNext]_lanClientVars
<1>1. [FrrNext]_frrVars /\ [FailoverNext]_failoverVars /\ [KvmNext]_kvmVars
  BY DEF ToolsNext, Rest, toolsVars
<1>2. [ReceiptNext]_receiptVars /\ [TrafficNext]_trafficVars /\ [CacheNext]_cacheVars
  BY DEF ToolsNext, Rest, toolsVars
<1>3. [RunnerNext]_runnerVars /\ [ObserverNext]_observerVars /\ [HarvestNext]_harvestVars
  BY DEF ToolsNext, Rest, toolsVars
<1>4. [UpgradeNext]_upgradeVars /\ [LegacyNext]_destroyVars /\ [ProviderNext]_providerVars
  BY DEF ToolsNext, Rest, toolsVars
<1>5. [EvidenceNext]_evidenceVars /\ [LanClientNext]_lanClientVars
  BY DEF ToolsNext, Rest, toolsVars
<1> QED BY <1>1, <1>2, <1>3, <1>4, <1>5

(* What each program does alone, it does among the others.                  *)
THEOREM ToolsCompose ==
  ToolsSpec => /\ FrrInit /\ [][FrrNext]_frrVars
               /\ FailoverSpec /\ KvmSpec /\ ReceiptSpec /\ TrafficSpec /\ CacheSpec
               /\ RunnerSpec /\ ObserverSpec /\ HarvestSpec /\ UpgradeSpec /\ LegacySpec
               /\ ProviderSpec /\ EvidenceSpec /\ LanClientSpec
<1>1. ToolsInit => /\ FrrInit /\ FailoverInit /\ KvmInit /\ ReceiptInit /\ TrafficInit
                   /\ CacheInit /\ RunnerInit /\ ObserverInit /\ HarvestInit
                   /\ UpgradeInit /\ LegacyInit /\ ProviderInit /\ EvidenceInit
                   /\ LanClientInit
  BY DEF ToolsInit
<1> QED
  BY <1>1, StepOfEach, PTL
     DEF ToolsSpec, FailoverSpec, KvmSpec, ReceiptSpec, TrafficSpec, CacheSpec, RunnerSpec,
         ObserverSpec, HarvestSpec, UpgradeSpec, LegacySpec, ProviderSpec, EvidenceSpec,
         LanClientSpec

(* The program at work does not change.                                     *)
LEMMA PartStays ==
  /\ ToolsInit => part \in Parts
  /\ part \in Parts /\ [ToolsNext]_toolsVars => (part \in Parts)'
<1>1. ToolsInit => part \in Parts
  BY DEF ToolsInit
<1>2. ASSUME [ToolsNext]_toolsVars PROVE part' = part
  <2>1. CASE ToolsNext
    BY <2>1, Zenon DEF ToolsNext, Works
  <2>2. CASE UNCHANGED toolsVars
    BY <2>2 DEF toolsVars
  <2> QED BY <1>2, <2>1, <2>2
<1> QED BY <1>1, <1>2 DEF Parts

(* Every program stays within its types, for all values of the constants.    *)
THEOREM ToolsAlwaysTyped == ToolsSpec => []ToolsTypeOK
<1>1. ToolsSpec => [](part \in Parts)
  BY PartStays, PTL DEF ToolsSpec
<1>2. ToolsSpec => [](FrrTypeOK /\ FailoverTypeOK /\ KvmTypeOK)
  <2>1. FrrInv => FrrTypeOK
    BY DEF FrrInv
  <2>2. FailoverInit => FailoverTypeOK
    BY RestoreInit DEF RestoreInv
  <2>3. KvmTypeInv => KvmTypeOK
    BY DEF KvmTypeInv
  <2> QED BY <2>1, <2>2, <2>3, FrrInitInv, FrrNextInv, FailoverType, KvmTypeInit,
             KvmTypeStep, ToolsCompose, PTL DEF FailoverSpec, KvmSpec
<1>3. ToolsSpec => [](ReceiptTypeOK /\ TrafficTypeOK /\ CacheTypeOK)
  <2>1. ReceiptInv => ReceiptTypeOK
    BY DEF ReceiptInv
  <2>2. TrafficInv => TrafficTypeOK
    BY DEF TrafficInv
  <2>3. CacheIInv => CacheTypeOK
    BY DEF CacheIInv
  <2> QED BY <2>1, <2>2, <2>3, ReceiptInitInv, ReceiptNextInv, TrafficInitInv,
             TrafficStepInv, CacheInitInv, CacheStepInv, ToolsCompose, PTL
             DEF ReceiptSpec, TrafficSpec, CacheSpec
<1>4. ToolsSpec => [](RunnerTypeOK /\ ObserverTypeOK /\ HarvestTypeOK)
  <2>1. RunnerInv => RunnerTypeOK
    BY DEF RunnerInv
  <2>2. ObserverInv => ObserverTypeOK
    BY DEF ObserverInv
  <2>3. HarvestInv => HarvestTypeOK
    BY DEF HarvestInv
  <2> QED BY <2>1, <2>2, <2>3, RunnerInitInv, RunnerStepInv, ObserverInitInv,
             ObserverStepInv, HarvestInitInv, HarvestStepInv, ToolsCompose, PTL
             DEF RunnerSpec, ObserverSpec, HarvestSpec
<1>5. ToolsSpec => [](LegacyTypeOK /\ UpgradeTypeOK)
  <2>1. UpgradeTypeInv => UpgradeTypeOK
    BY DEF UpgradeTypeInv
  <2> QED BY <2>1, LegacyTypeInit, LegacyTypeStep, UpgradeTypeInit, UpgradeTypeStep,
             ToolsCompose, PTL DEF LegacySpec, UpgradeSpec
<1>6. ToolsSpec => [](ProviderTypeOK /\ EvidenceTypeOK /\ LanClientTypeOK)
  <2>1. ReleaseInv => ProviderTypeOK
    BY DEF ReleaseInv
  <2>2. CaptureInv => EvidenceTypeOK
    BY DEF CaptureInv
  <2>3. LanClientInv => LanClientTypeOK
    BY DEF LanClientInv
  <2> QED BY <2>1, <2>2, <2>3, ProviderInitInv, ProviderStepInv, CaptureInitInv,
             CaptureStepInv, LanClientInitInv, LanClientStepInv, ToolsCompose, PTL
             DEF ProviderSpec, EvidenceSpec, LanClientSpec
<1> QED BY <1>1, <1>2, <1>3, <1>4, <1>5, <1>6, PTL DEF ToolsTypeOK

(* What the programs promise one by one holds among the others: the reviews,  *)
(* receipts, evidence and catalogs tell the truth, the drill restores what    *)
(* it stopped, nothing is destroyed that was not pulled, an apply does what   *)
(* was reviewed, a receipt is final, and the router relays as it should.     *)
THEOREM ToolsKeepPromises ==
  ToolsSpec => /\ [](DrillRestores /\ PassedReviewed /\ PassedObserved /\ LanBehindHardware)
               /\ [](ExitTellsTruth /\ EvidenceMatches /\ CacheInv /\ CommandOutlived)
               /\ [](DeadlineKept /\ JoinIsOneToOne /\ HarvestComplete /\ DestroysPulled)
               /\ [](ProviderPinned /\ MatrixFollows /\ SummaryTrue)
               /\ ReceiptImmutable /\ EffectsReviewed /\ RelayRefines
<1>1. ToolsSpec => [](DrillRestores /\ PassedReviewed /\ PassedObserved /\ LanBehindHardware)
  BY ToolsCompose, DrillAlwaysRestores, AcceptanceReviewed, AcceptanceObserved,
     LanAlwaysBehindHardware, PTL
<1>2. ToolsSpec => [](ExitTellsTruth /\ EvidenceMatches /\ CacheInv /\ CommandOutlived)
  BY ToolsCompose, ExitAlwaysTellsTruth, EvidenceAlwaysMatches, CacheAlwaysVerified,
     CommandAlwaysOutlived, PTL
<1>3. ToolsSpec => [](DeadlineKept /\ JoinIsOneToOne /\ HarvestComplete /\ DestroysPulled)
  BY ToolsCompose, DeadlineAlwaysKept, JoinAlwaysOneToOne, HarvestAlwaysComplete,
     AlwaysDestroysPulled, PTL
<1>4. ToolsSpec => [](ProviderPinned /\ MatrixFollows /\ SummaryTrue)
  BY ToolsCompose, ProviderAlwaysPinned, MatrixAlwaysFollows, SummaryAlwaysTrue, PTL
<1>5. ToolsSpec => ReceiptImmutable /\ EffectsReviewed
  BY ToolsCompose, ReceiptsImmutable, EffectsAlwaysReviewed, PTL
<1>6. ToolsSpec => RelayRefines
  BY ToolsCompose, RelayAlone
<1> QED BY <1>1, <1>2, <1>3, <1>4, <1>5, <1>6, PTL
=============================================================================
