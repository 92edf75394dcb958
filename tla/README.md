# Formal model of the multi-cloud showcase

TLA+ modules, TLC runs and TLAPS proofs about the program in this repository
that builds, verifies, disturbs, repairs and destroys the multi-cloud showcase:
`scripts/showcase-lifecycle.sh`, the reviewers of its saved Terraform plans and
the part of the Terraform root they reason about; about its GitHub client; and about the programs
that run beside it: on the Azure routers, on the KVM host, as Terraform data
sources, and in an operator's hands.

Paths below are relative to the repository.

## 1. Inventory

### The showcase lifecycle and its parts

**Lifecycle** (`scripts/showcase-lifecycle.sh`). A Bash program with the modes
`full`, `build`, `verify`, `destroy` (and the read-only `kvm-lan-preflight`).
*State:* where it is (function, cycle, attempt), the files of its private root
(`PLAN_FILE`, plan and scope receipts, per-cycle evidence directories, the
registration projection, the device mapping, the captured Azure outputs).
*Operations:* `run_phase`, `apply_saved`, `scope_plan`,
`wait_for_approvals`, `capture_bootstrap_mapping_inputs`, `verify_configured`,
the two drift drills, `apply_direct_plan`, `wait_for_azure_approvals`,
`wait_for_azure_online`, `settle_azure`, `verify_final`, `destroy_all`,
`verify_absence`. *Hard:* some thirty saved plans in a row, each reviewed by
one process and applied by another, while Customer Edges boot, register and are
admitted on their own; a kill or a half-done apply between any two steps; later
invocations, in the same or another private root, over whatever is left.
*Correct when:* no step touches what is not its own; Azure joins only behind
the gates of this very estate; a build that passes left exactly what is
configured; an absence receipt is true; a destroy is always possible.

**Plan wrapper** (`scripts/aws-smsv2-lifecycle-plan.sh`). Plans a phase, calls
the preflight, writes a plan receipt with the file's SHA-256; `--apply`
compares the digest and applies. Its evidence directory must be empty for a
new bootstrap. *Hard:* the file between review and apply; failed applies.

**Scope reviewer** (`scripts/showcase-plan-scope.py`), **registration gate**
(`scripts/showcase-registration-gate.py`), **UAT preflight**
(`scripts/aws-smsv2-uat-preflight.sh`) and **collision preflight**
(`scripts/aws-smsv2-owned-collision-preflight.sh`). Decisions on one saved
plan. *Hard:* they must accept every plan an undisturbed lifecycle writes at
whatever moment it writes it, and nothing else; three of them count sites and
approvals, each with its own literals.

**Terraform root** (`terraform/*.tf`). What each phase wants, what the plan of
it shows when registrations are at any stage, what an apply waits for.

**Device mapping generator** (`scripts/generate-aws-smsv2-device-mapping.py`)
and **deployment verification** (`scripts/verify-deployment.sh`). Read what the
lifecycle captured; refuse incomplete inputs, used evidence directories and
Azure sites that are not ONLINE.

**GitHub API client** (`scripts/github-api-resilience.cjs`). Sends requests with
retries, and dispatches the enforcement workflow for one exact source.
*State:* attempts and waited seconds of two nested retries, the receipt found.
*Operations:* `classifyGitHubError`, `computeWaitSeconds`, `retryGitHub`,
`requestGitHubApi`, `findWorkflowDispatchReceipt`, `dispatchWorkflow`. *Hard:*
a post whose answer is lost may have created the run; lookup and post are
separate requests; an error that leaves the inner retry is an attempt of the
outer one. *Correct when:* no caller creates a second usable run, and a call
ends within its budgets.

### The programs beside it

They share no state; each meets faults of its own.

| Program | State and operations | What is hard, and what makes it correct |
|---|---|---|
| **Azure FRR VIP translation** `terraform/modules/azure-frr/vip_translation.py` | the router's NAT table; run again and again by a systemd timer | every call may fail between two edits; traffic goes to an edge that was learned or nowhere, and in the end to the first learned one |
| **Azure failover drill** `scripts/verify-azure-failover.sh` | which machine is down, `recover_vm`, receipts; two stages: an edge, then a router | az, a wait or the traffic fails anywhere; one trap brings back what was stopped |
| **KVM LAN plan scope** `scripts/kvm-lan-plan-scope.py`, and `--mode kvm-lan-preflight` of the lifecycle | a verdict on a saved plan of the stage `hardware` or `configured`, a receipt | plans replaced under review, applies that stop half way; the load balancer only behind two network interfaces |
| **KVM LAN live acceptance** `scripts/kvm-lan-live-acceptance.py` | looks at source, plan, Terraform, host, VM, router and client, one after the other; one receipt file | the world moves between the looks; several writers, kills and power failures around one file that may never be replaced |
| **Traffic receipt** `scripts/smsv2_traffic_receipt.py` | a label's log files and receipt, a certificate on the client | attempts that die leave files for the next |
| **Verified KVM image cache** `scripts/ensure-verified-kvm-image.sh` | image, lock, partial downloads | concurrent fetchers, kills that leave a curl with the lock |
| **Progress runner** `scripts/run-with-progress.sh` | command, heartbeat, the numbers it keeps of them | a signal between any two lines |
| **Runtime observers** `terraform/scripts/xc-kvm-bgp-observer.py`, `xc-azure-runtime-interfaces.py` | a deadline, the last answer | sessions that come up in the last interval or between two requests, tables that list a NIC twice |
| **Site CLI harvest** `scripts/sitecli_ssh_harvest.py` | an ssh session on a pty, rows of two scrolled menus | late and overlapping pages, a session that dies |
| **AWS upgrade plan verifier** `scripts/verify-aws-upgrade-action-plan.py` | a verdict on a saved plan and its receipt | render and digest at different moments |
| **Legacy destroy scope** `scripts/showcase-legacy-destroy-scope.py` with `destroy_all` | the pulled state, the event stream, the receipt | others write state and plan file meanwhile |
| **Provider release verifier** `scripts/verify-showcase-provider.py` | files in a private directory, a receipt | a shared directory, a publication that changes |
| **CE interface evidence** `scripts/capture_ce_interface_evidence.py` | a JSON file and a Markdown file made from it | crashes between the two, NICs that change order |
| **KVM LAN client verification** `scripts/verify-kvm-lan-client.py` | an evidence directory with one summary | facts that change while they are checked one by one |
| `scripts/terraform-with-aws-sso.sh`, `deployment-identity.py`, `customer-edge-egress-preflight.py`, `serial_console_capture.py`, the linters of the repository | none, or I/O only | sequential |

How they interact: the lifecycle calls the plan wrapper, which calls the
preflight, which calls the collision preflight; the lifecycle calls the scope
reviewer and the gate on the same files; all of them read one plan file whose
digest ties the steps together. Terraform reads registrations in F5 XC through
data sources, so every plan depends on the moment it is made. The failover
drill stops machines under the routers whose VIP translation it then tests. The
live acceptance trusts the plan and the receipt of the KVM LAN preflight. The
legacy scope stands in for the scope reviewer in one destroy. The remaining
parts, the GitHub client included, run on their own or as a child process whose
exit status is all the lifecycle sees.

## 2. Modules

```
PlanScope            addresses, plans, scope reviewer, UAT preflight
   ^
RegistrationGate     the verdict on a probe plan
   ^
ShowcaseRoot         what terraform plan / apply do here
   ^        ^
   |        ShowcaseRootProofs      lemmas about those operators (TLAPS)
   |                       ^
ShowcaseLifecycle          |        the state machine, its properties
   ^        ^              |
   |        ShowcaseLifecycleProofs invariant of the estate, theorems (TLAPS)
   |                       ^
ShowcaseBuild              |        what a build knows between two steps;
   ^   ^    ^              |        INSTANCE ShowcaseEstate, the abstract estate
   |   |    ShowcaseBuildProofs     invariant of a build, theorems (TLAPS)
   |   |                   ^
   |   ShowcaseEstateProofs         the refinement (TLAPS)
MCShowcaseLifecycle                 symmetry sets for TLC

GitHubRetry          error classes, waits, the verdict of a retry
   ^
GitHubDispatch       callers of dispatchWorkflow and GitHub
   ^        ^
   |        GitHubDispatchProofs    theorems (TLAPS)
MCGitHubDispatch                    errors and symmetry for TLC

VipRelay             what a router promises (abstract)
   ^                 INSTANCE, with a refinement mapping
AzureFrr   AzureFailover            the router's program; the drill over two routers
   ^           ^
   AzureProofs                      theorems about both (TLAPS)
KvmLanPlan <- KvmLan <- KvmLanProofs         rollout, preflight and acceptance
ReceiptFile                         the acceptance's receipt, call by call
TrafficReceipt  KvmImageCache  ProgressRunner  RuntimeObserver  SiteCliHarvest
AwsUpgrade  LegacyDestroy  ProviderRelease  InterfaceEvidence  LanClient
   ^
MCOperatorTools                     all fourteen programs, one at a time
   ^
OperatorToolsProofs                 theorems about the eleven, and about all
                                    composed; EXTENDS AzureProofs, KvmLanProofs
MCSiteCliHarvest                    the harvest alone
```

**PlanScope.** A resource *address* stands for a group of Terraform resources
that are created and deleted together: the AWS network, the Transit Gateway
Connect part, one group per Customer Edge site, one approval per site, the KVM
BGP peer, the inside-VIP part, the Azure hub. A *plan* is what
`terraform show -json` tells the reviewers: configuration flags, refreshed
prior state, target, drift, ONLINE registrations, changed outputs. Then one
predicate per scope of `showcase-plan-scope.py`, and the plan checks of the
UAT preflight with `Colliding` for what the collision preflight finds.

**RegistrationGate.** `GateReady` and `GateError`: ready, refuse, or poll again.

**ShowcaseRoot.** `Wanted` is the target of a configuration for the present
registrations; an AWS or KVM approval exists only while its registration is
NEW, an Azure one from then on. `PlanFor`, `DestroyPlanFor`, `RefreshPlanFor`
are the three kinds of plan; `StateAfter`, `CloudAfter`, `RegAfter` what an
apply of part of a plan leaves; `AwaitedSites` the sites whose health an apply
waits for in data sources.

**ShowcaseLifecycle.** Its variables, by owner:

| Variables | In the code |
|---|---|
| `mode cycle step at tries exit` | `--mode`, the cycle argument, the function being executed and how far, its loop counter, how the script ended |
| `plan receipt scoped` | `PLAN_FILE`, plan-receipt.json, showcase-plan-receipt.json |
| `used projection mapped captured` | evidence directories, aws-registration-projection.json, aws-device-mapping.json, latest-destroy-us-*.json |
| `state shown named legacy` | the Terraform backend: resources, stored status outputs, the Azure name output, a state the current provider cannot decode |
| `cloud reg real` | AWS, Azure, libvirt and F5 XC: objects, registrations, live status values |
| `done absent` | history: steps completed for this estate, absence receipt still true |
| `runs faults overwrites` | bounds only |

One action per function, or per part of one where the code lets the world move
in between: `Start` (dispatch), `PhasePlan` (plan, preflight and receipt of
`run_phase`), `ScopePlan`, `DigestChanged` / `Apply` / `ApplyStops` /
`ApplyFails` (the four outcomes of the apply half), `Probe` and `PlanFails`
(`wait_for_approvals`), `Capture`, `VerifyPlan`, `InjectDrift`, `ObservePlan`,
`DirectPlan`, `ApprovalPlan`, `AzureOnline`, `SettlePlan`, `ClientCheck`,
`FinalPlan`, `Forget`, `DestroyPlan`, `Absence`. Around it: `Register`, `Admit`
and `Settle` (Customer Edges and status outputs), `Overwrite` (another process
writes the plan file), `Interrupt` (a kill or a failed external check) and
`Rerun` (a further invocation in the same or an empty private root). The first
invocation meets nothing, a deployment a full run left, or that deployment
written by an older provider. `exit` keeps why the script died, so a property
can say which deaths are allowed.

**ShowcaseBuild.** No state of its own: it says, step by step, what a build may
rely on. `Target(s)` is the estate step `s` wants once every site is admitted,
`Left(s)` the one its predecessors left, `Live` the same with the drift a drill
has just injected, `OnlineBy(s)` the sites `s` may rely on. `BuildInv` puts the
estate, the registrations, the outputs and the plan under review next to them.
`GatesPassed` ties the gates in `done` to the estate: those before the step.

**ShowcaseEstate.** What all of this amounts to for the estate, with no plan,
scope, digest or step in it: the objects that are recorded (`held`) and that exist
(`exist`), the edges that are `online`, the tests this estate has `passed`, and
whether an invocation is building, tearing down or idle (`phase`). Its actions
are `Assemble`, `Extend` and `Join` - one apply, complete or not, within the AWS and
KVM deployment, the LAN or Azure - `PassGate`, `Certify`, `Teardown`,
`ProveAbsence`, `Stop` and the start of the next, and `Admit`. Each says under
which conditions objects may come and go: nothing of the LAN before health and
both repairs, nothing of Azure before the client, no deletion but in a teardown
or of an untested hub, a certificate only for the complete estate, an absence
receipt only over an empty state. `ShowcaseBuild` maps the lifecycle onto it
(`HeldObjects`, `LiveObjects`, `OnlineEdges`, `PassedGates`, `Phase`, `Certified`): a
drifted object exists, a crash is `Stop`, a digest that differs is `Stop`, an
apply of a plan is the `Change` of its lane whatever the plan was.

**GitHubRetry, GitHubDispatch.** `Secondary`, `Primary` and `Transient` are the
branches of `classifyGitHubError`, `WaitSeconds` is `computeWaitSeconds` with
its real numbers (both back-offs reach their maximum by the fifth attempt, where
`Doubled` stops), `Verdict` is the catch block of `retryGitHub`. A caller is at
its lookup (`find`) or its post; `attempt` and `waited` count the retry around
the post, `look` the one of the present lookup, which starts over for each
recovery. `FindFails` shows the nesting: a lookup that gives up ends the call
with exit code 84, an error it throws counts as an attempt of the post. GitHub
is two counters per caller, usable runs that are listed and usable runs that are
not listed yet; a post that fails ambiguously (no status, 408, 5xx) may have
created one. Callers run concurrently, may be killed and called again.

**VipRelay, AzureFrr, AzureFailover.** `VipRelay` is the promise: the traffic of
the virtual address goes to the first edge the router last heard of, or
nowhere, and never straight from one edge to another. `AzureFrr` has one action
per `vtysh` or `iptables` call of a run; `frrAt` is the next call, `RunDies` ends
the run there, `RouterRestarts` empties the table. It implements `VipRelay` with
`forward` mapped to what netfilter would do with the table (`Forward`).
`AzureFailover` has what that promises in place of the program, for two
routers: a router hears, stops and serves in steps written out there. The drill is `script` (stage, point in `run_region`, the machine the trap would
start), `PollSessions` and `PollHops` are the two looks of `wait_state`.

**KvmLanPlan, KvmLan, ReceiptFile.** `HardwarePlan` and `ConfiguredPlan` are the
branches of `validate_plan` over plans reduced to what they distinguish: the
stage and approval, the domain's action and its ordered NICs, the action on each
LAN object, whether anything unrelated is planned. `KvmLan` has the operator
(plans, applies that stop half way, a worktree that moves), the preflight in two
steps - digest, then `terraform show` and verdict - and the acceptance look by
look, with a configuration that may name the plan and commit of now or those of
the preflight receipt; the groups of its checks are sets (`HostChecks`, ...), and a
fact of the world in `Fragile` may change between the looks. Two histories are
kept: `moved`, what changed after the acceptance had looked at it, and `swap`,
whether another plan was saved over one under preflight, and whether that one was
put back afterwards. `ReceiptFile` is
`write_receipt` call by call for several processes, with the inode's content,
whether it and the directory entry are synced, kills and a power failure.

**The others** follow their programs line by line or call by call: a program
counter (`doing`, `fetching`, `line`, `looking`, `step`, `reviewing`,
`destroying`, `verifying`, `writing`, `checking`), the files and remote objects
it reads and writes, and the world's own actions (`CurlEnds`, `SessionChanges`,
`StateMoves`, `PublicationMoves`, `SwapNics`, `LanMoves`, ...). Some keep a
history that their property needs: `unshown` (the upgrade review whose plan was
accepted had rendered another), `planSwapped` (before which step of a legacy
destroy another plan was saved), `crossed` (another verifier downloaded),
`movedAfter` (what changed after a verification's own look at it), `lag` (the most
pages that a read left on their way).

`MCOperatorTools` composes all fourteen: `part` says which one is at work, the
others stay where they begin. So one run and one set of bounds serves them
all, and its state space is the sum of theirs.

### What is abstracted

- A plan file's digest is the plan itself; the last digest comparison and the
  apply are one step (the window between them is listed as a hazard without a
  property). `PhasePlan` makes plan and preflight one step, because the digest
  is compared again after the preflight.
- Identity, provider-version and commit checks of receipts always match, and so
  do the ownership markers of a destroy plan, except
  that `legacy` is the mismatch the destroy path handles. The legacy review is
  taken to accept what full-destroy accepts.
- `Overwrite` saves one of two plans, the final or the destroy plan of this very
  root: the largest that are likely to lie around. A plan of another root is not
  among them.
- `StatusRefresh` leaves out which transitions of a site's health the status
  output may show (`showcase-plan-scope.py:363-440`), the preflight its check of the
  environment's names (111-118), the gate that rows are well-formed and unique
  (107-108 and before): no plan of this root violates them.
- The load balancer of the AWS part advertises the bootstrap sites before the
  configured phase and the final ones from then on (`terraform/aws_xc.tf:271-289`).
  `AwsNetwork` stays "present" through that update, which is first planned together
  with the creation of the final sites. An apply that made the sites and stopped
  before the update looks finished to the model; the code plans one more update,
  which the scopes of the configured phase allow.
- Of the device mapping only its existence per cycle is kept. Bootstrap plans
  that recreate tokens and instances of unchanged sites have no counterpart,
  since a site is one address.
- A failed apply completed none, one or all but one of its changes; with
  `Orphans` it may also leave one object it did not record. Approvals are
  actions on registrations: they have no name to collide and cannot be orphaned.
- A status output settles once; changing the domain or a site unsettles it.
- Checks outside Terraform (LAN client, traffic tests, failover, host network)
  fail only through `Interrupt`.
- `--mode verify` uses the mapping of the second cycle, its default; overriding
  it through the environment is left out.
- Of a workflow run only whether it is usable and listed is kept; which of
  several receipts is reported is not. Time does not pass except as counted
  waits. With the global `fetch` a lost connection reaches the classifier without
  its code (fatal), a fetch passed as an option may set it (transient): a lost
  answer may be either.
- Literals `3` that the code uses for "every site" are the size of the site
  set; the preflight's literal 3 for KVM approvals stays 3, as the root has one
  KVM node.
- In the drill, Azure's route table follows the sessions of the routers, and a
  router's program is what `VipRelay` says of it. The regions share nothing: one is
  modelled.
- A check with `iptables -C` that fails although the rule is there is not modelled:
  `EnsureJump` and `EnsureSnat` would then add a second, equal rule, which changes
  no packet's way.
- Of a KVM LAN plan, addresses and MACs are the words `slo`, `sli`, `owned`,
  `foreign` and `unknown`. Terraform decides what a plan contains; a plan of the
  stage `hardware` over existing LAN objects shows their deletion.
- `kvm.tf` gives the first NIC only the owned network, whose ID is unknown when
  the network is made in the same plan: plans with a known foreign ID, which
  `HardwarePlan` would accept, are not among the proposals.
- The acceptance's test for a clean worktree (922-927) is left out, as are the
  stale-schema, deposed-object, duplicate and summary checks of the legacy scope
  (`showcase-legacy-destroy-scope.py:137-157, 187, 200-205`): the models accept more.
- Time in `RuntimeObserver` is counted in ticks; a request takes at most
  `Request` of them and the lines between two waits none. The program's 30 seconds
  (`xc-kvm-bgp-observer.py:202-205`) are per socket operation; that they bound the
  request is assumed of the server.
- A read of the Site CLI takes whole pages and leaves at most `Late` of them
  unread, a bound of the run only. A read that its own deadline of five
  seconds (409-431) cuts in the middle of a page, where a part of a row might be
  taken for a row, is left out, and the longer reads with which a menu begins and
  ends are assumed to find what was painted. The largest menu
  has fewer rows than the number of scrolls, as in the program.
- What a dead pty returns depends on the mode ssh left it in: nothing, or an
  echo of the keys (`Echoed`).
- A failing write of a LAN client summary leaves a part of it (`SummaryFails`);
  other files of that program's directory are not kept.
- Two attempts under one traffic label do not overlap. If they did, both could
  pass the test for an existing receipt.

## 3. Runs

All bounds are constants: sites, `Admissions` (the states a registration may
start in: NEW waits for an approval, ONLINE was admitted on its own),
`MaxPolls`, `MaxRuns`, `MaxFaults`, `MaxOverwrites`, `Orphans`. Deadlock is not
checked, because the system stops: an invocation ends and their number is
bounded. Symmetry is used in invariant and action-property runs only; no
definition singles out an AWS or an Azure site.

| Run | Instance | Question |
|---|---|---|
| `lifecycle_showcase` | 3 AWS, 1 KVM, 3 Azure sites, NEW and ONLINE, one invocation | Do gate, scopes and preflight agree with each other for every order of registrations in the real topology? |
| `lifecycle_crash` | 1+1+1, three invocations, two faults | What do later invocations do over the remains of interrupted ones? |
| `lifecycle_disturbed` | 2+1+1, NEW and ONLINE, two invocations, one fault, one overwrite, orphans | What if the plan file is replaced, or objects exist outside the state? What does each step of a build find? Does the estate stay the abstract one? |
| `lifecycle_terminates` | 1+1+1, NEW and ONLINE, fair script | Does every invocation end though Customer Edges owe nothing? |
| `lifecycle_cooperative` | 2+1+2, world faster than the script | Does an undisturbed invocation do its work? |
| `dispatch_budget` | one caller, every class of error, late inventory, reduced budgets and attempts | Does a call end, within its budgets? |
| `dispatch_concurrent` | two callers, two calls each, kills, lost answers, failing runs | Is a run ever created twice? |
| `operator_tools` | the fourteen programs, bounds below | Does each keep its promise among the faults of its world? |
| `approval_refused`, `status_refused`, `absence_unproven`, `harvest_truncated` | small | the four findings |

Why the bounds are enough. Three sites per cloud are the real topology, where
"some but not all" has two different sizes and the literals matter. Interrupted
builds need three invocations: one that leaves remains, one that meets them,
one that trusts the second. Two faults interrupt both of the first two. One
poll is enough to see a loop repeat and reach its deadline, zero suffices where
the loop is not the question. Two AWS sites next to orphans and overwrites make
a plan with some of its names taken.

In `operator_tools` three edges make "first" and "next" differ from "other"; two
moves of the paths and two failed calls hit one run twice or two runs once.
Two drills show what an earlier one leaves. Three plans, two applies and one
change of the world are a hardware stage, a configured stage and one replaced
plan or moved fact; that a plan is put back after a preflight of the configured stage
takes a fourth, and the theorems have no such bound. Two writers, verifiers, verifications and attempts are the
smallest number that interfere; three fetchers put one behind the lock while
another waits for a killed one's curl. A timeout of three polls has a first, a
middle and a last interval. Menus of three and five rows under pages of two
are shorter and longer than two pages; four barren scrolls, the model's
`Patience`, exceed what one late page may hide, and not what two may: catalogs
that are whole and catalogs that are not are both reached. Deadlock is not
checked: the programs end.

What the properties say:

- `PassedMeansConverged` - a build or verify that passed left exactly the
  configured estate, all sites ONLINE, no drift, nothing outside the state.
- `CaptureNeverIncomplete`, `GateNeverRefuses` - the gate judges one plan, the
  capture and the next phase use another moment; they never disagree.
- `ScopeStopsExplained`, `PreflightStopsExplained` - undisturbed, the reviewers
  stop the lifecycle only for reasons the property names. One of them is
  `--mode verify` over an estate that is not converged: an earlier invocation
  may have stopped with nothing failing, so two invocations meet it.
- `AzureAfterGates` - no Azure object is managed unless health, both drift
  repairs and the LAN client passed for this estate.
- `DestroyNeverRefused` - whatever was interrupted before, a requested destroy
  works; only an empty state has nothing to destroy, a plan somebody wrote over
  the destroy's own is not applied, and an object that a failed apply left
  outside the state keeps the absence from being proven.
- `SecondBuildFromNothing` - the second build of a full run starts from proven
  absence.
- `Contained` - a step creates and deletes only its own objects, also when the
  final or the destroy plan is written over the plan file.
- `CollisionFoundFirst` - a name taken outside the state is found before a
  phase apply, not by it.
- `AbsenceHonest` - behind an absence receipt no AWS or KVM Customer Edge
  exists, recorded or not.
- `BuildInv` - the inductive invariant of the proofs, `EstateInv` among its
  conjuncts, checked first; it contains the stops and passes above, so that the
  run that disturbs the lifecycle checks all but `ScopeStopsExplained` of them
  again.
- `EstateKept` - faults, orphans, replaced plans and reruns included, the
  lifecycle is a behaviour of `ShowcaseEstate`.
- `Terminates`, `CoopPasses` - liveness of the lifecycle.
- `OneUsableRun` - a caller never has two usable runs of one source.
- `WaitBounded`, `CallsEnd` - one call waits at most its post's budget and one
  lookup budget per attempt, and it ends.
- `DispatchTypeOK` - a type invariant with one thing in it that a test would
  hardly reach: a rate limit whose reset has passed gives no negative wait.
- `RelayRefines`, `RelayCatchesUp` - the router's program is the relay of
  `VipRelay`; when paths hold still and calls stop failing, it serves the first
  learned edge, with SNAT rules and status file to match.
- `DrillRestores` - whatever fails, no machine is down but the one of the
  present stage, and none after a drill, unless it was killed or az failed.
- `PassedReviewed`, `PassedObserved`, `LanBehindHardware` - a passed acceptance
  belongs to a plan that was reviewed; what it observed holds but for what moved
  after its own look; LAN objects exist only behind both network interfaces. A plan
  saved over one under preflight does not break the first and the third: the
  receipt then names a plan that is no longer there, and every later comparison
  finds it. Putting the first plan back afterwards does, and is exempted.
- `ReceiptImmutable`, `ExitTellsTruth` - a receipt is never replaced, and exit
  status 0 means a whole, synced, passed receipt of one's own.
- `EvidenceMatches` - a traffic receipt and the logs beside it are of one attempt.
- `CacheInv` - one download at a time, none for a good image, and whoever is
  told the image is there finds it good.
- `CommandOutlived` - the runner's end is the command's end, and its status is
  the command's, but for a signal in the one line before `command_pid=$!`; the
  heartbeat ends, too, but for the one before `heartbeat_pid=$!`.
- `DeadlineKept`, `JoinIsOneToOne` - an observer neither overruns its deadline
  nor gives up on what has been there for longer than a look; three NICs, three
  devices, one to one.
- `HarvestComplete` - in a session that lasts, a catalog has rows of its menus
  only, and each menu is whole or reported as maybe truncated, unless one page
  and those a read left on their way are more than the patience of the program.
- `EffectsReviewed` - an applied upgrade plan does what the review named, unless
  that very review rendered another plan than the one whose digest it took.
- `DestroysPulled` - a legacy destroy deletes what the pulled state held under
  the owner's marks, and never host networking, also if another plan is saved
  between its review and the comparison of the digests; one saved earlier, before
  the first digest, or later goes unnoticed and is exempted.
- `ProviderPinned` - a verifier that passed left the pinned assets in place.
- `MatrixFollows` - the matrix shows the evidence beside it or an older one,
  never a newer.
- `SummaryTrue` - a whole summary is the only one of its directory, of a
  verification that passed, and all its facts are true that did not change after
  its own look at them; one that failed leaves at most the part its failed write
  left.

**Fairness.** `FairSpec` adds `WF_vars(Script)`: the script is one process that
runs; nothing is assumed of registrations, of the operator or of failures. The
wait loops end because they count polls to a deadline. `CoopSpec` is a
deliberately kind world, for the question whether the work gets done at all: a
registration or status that can move does so before the next step, and no plan
fails. It is not a claim about real timing. For the dispatch, `FairSpec` is weak fairness
of each caller: a request and a sleep return. For the router,
`FrrSpec` is weak fairness of `Converge`: its timer starts a run three seconds
after the last one ended, and each call of a run has a timeout of 15 seconds
(`vip_translation.py:50`, `cloud-init.yaml.tftpl:30-48`).

`OneUsableRun` is checked and proved for `Lag = FALSE`: GitHub lists a run as
soon as it exists. The code relies on that; the inventory is its only evidence.
With a late listing the post is repeated. It speaks of each caller, not of all
together: two concurrent callers may both look before either posts.

One number to know, which no document contradicts: a receipt lookup has a budget
of 60 seconds and a secondary limit without Retry-After waits 60 plus 0 to 3, so
its second attempt is only made when the jitter is 0.

### Findings

1. `approval_refused` - the preflight accepts bootstrap approvals only with
   three KVM ones (`scripts/aws-smsv2-uat-preflight.sh:503-508`) and, in the
   configured phase, only if all AWS sites are approved in one plan, while the
   root has one KVM node and the gate accepts mixed NEW and ONLINE
   registrations: a build that needs an approval dies in the approvals phase.
2. `status_refused` - two status outputs that settle together are refused by
   the scope chosen for one (`scripts/showcase-lifecycle.sh:591-597`).
3. `absence_unproven` - the absence receipt says Azure is absent, but Azure was
   asked only for what outputs named before the destroy.
4. `harvest_truncated` - when ssh dies before or while a menu is scrolled, the harvest
   takes silence for the end of the menu, writes what it has and exits 0.

Smaller divergences of words and code, without a run: the usage of
`aws-smsv2-lifecycle-plan.sh` (43-46) says `configured` forcibly enables TGW
Connect, the lifecycle disables it there with `--configured-tgw false`;
`docs/en/demo/deploy.mdx` (139-140) says the private artifacts are deleted
after a successful configured apply, the code does so only with
`--cleanup-private-inputs` (231-233); the lifecycle's usage calls the private
root an empty directory, which nothing enforces; the header of
`verify-azure-failover.sh` speaks of each Azure region, the code drills one.

Weaknesses the models show or assume, which contradict no document or are stated
as exceptions in the properties:

- The digest is compared before the file is read again: the KVM LAN preflight
  (`scripts/showcase-lifecycle.sh:162-170`) and the upgrade verifier
  (`scripts/verify-aws-upgrade-action-plan.py:64` after 202-213) accept a plan
  saved in between on the content of another; `apply_scoped_plan` leaves the
  window before `terraform apply` (463). A legacy destroy does not notice a
  plan saved over the reviewed one before its digest is taken.
- `_optional_lines` (`scripts/kvm-lan-live-acceptance.py:461-465`) turns a failed
  `virsh` or `ps` into an empty list, so that the isolation of the bridge passes
  unseen; the collector's document calls the receipt fail-closed.
- The acceptance observes Terraform before host, VM, router and client
  (946-965); its document lists it last.
- A configured plan must create all four LAN objects (`kvm-lan-plan-scope.py:206-239`):
  after a configured apply that stopped half way no plan can pass.
- Between `mktemp` on the client and the `try` the traffic receipt has nothing
  that would remove its certificate (`scripts/smsv2_traffic_receipt.py:69-82`).
- The drill's traffic check after stopping an edge asks for 20 of 20 answers
  while only the surviving router's sessions were awaited (127-128): the other
  router may still forward to the stopped edge, and the drill fails for it.
- `PtyProcess.close` suppresses a second expired wait and then unwinds
  `Popen.__exit__`, which waits without one (`scripts/sitecli_ssh_harvest.py:334-339`).
- Two provider verifiers in one private root, or two traffic attempts under one
  label, overlap unnoticed.

## 4. Proofs

`ShowcaseRootProofs` holds lemmas about plans and applies, `ShowcaseLifecycleProofs`,
`ShowcaseBuildProofs` and `ShowcaseEstateProofs` the theorems of the lifecycle. They assume `SitesAssumption` (finite, non-empty, disjoint site
sets) and `LifecycleAssumption` (the types of the bounds) and hold for any
number of sites and any bounds.

| Theorem | States |
|---|---|
| `TypeCorrect` | `Spec => []TypeOK` |
| `EstateInvariant` | `Spec => []EstateInv` |
| `AzureBehindGates` | `Spec => []AzureAfterGates` |
| `Containment` | `Spec => Contained` |
| `AbsenceProven` | `Spec => []AbsenceHonest` |
| `CaptureComplete` | `Spec => []CaptureNeverIncomplete` |
| `InvocationsEnd` | `Spec => [][InvocationEnds]_vars` |
| `BuildInvariant` | `Spec => [](TypeOK /\ EstateInv /\ BuildInv)` |
| `PassedConverged` | `Spec => []PassedMeansConverged` |
| `GateAccepts` | `Spec => []GateNeverRefuses` |
| `DestroyGoesThrough` | `Spec => []DestroyNeverRefused` |
| `SecondFromNothing` | `Spec => []SecondBuildFromNothing` |
| `CollisionsFound` | `Spec => []CollisionFoundFirst` |
| `PreflightReasons`, `ScopeReasons` | `Spec => []PreflightStopsExplained`, `Spec => []ScopeStopsExplained` |
| `EstateImplemented`, `EstatePromises` | `Spec => EstateKept`, `Spec => []Estate!Promise` |

`InvocationEnds` is as much of `Terminates` as can be proved. `StepsLeft` counts
what is left of an invocation: laps (dispatch, teardown, build, teardown,
build) and turns of the steps in them, tries of the loops, and the plan, review
and apply of a try. It stays within `150 * Rounds`, every step of the script makes
it less, no step of the sites or of another process changes it, and a failure
ends the invocation. What is missing for `Terminates` is that the script takes
its next step, which is the fairness, and that it has one, which is an
`ENABLED`: both stay with TLC. `Counted` is the invariant for it: a loop's
counter is below its limit when a plan is saved, which is why `settle` makes three
applies and `verify_configured` two. `LEMMA ScriptMoves` sorts the twenty-one actions
of the script into a step onward, another try, the next part of a try, and an end.

For the dispatch (`GitHubDispatchProofs`, from `DispatchAssumption`: types, and at
least one attempt):

| Theorem | States |
|---|---|
| `TypeCorrect` | `Spec => []DispatchTypeOK` |
| `NoSecondRun` | `~Lag` implies `Spec => []OneUsableRun` |
| `WaitsWithinBudgets` | `Spec => []WaitBounded` |
| `CallsComeToEnd` | `Spec => [][CallsNearEnd]_vars` |

Their invariants are `PostsWhenNone` (a caller about to post has no usable run)
and `SleptAccounted` (what was slept is the post's waiting, one full lookup for
each earlier attempt and the present lookup); `VerdictFits` says a retry's wait
fits into what is left of its budget. `CallsNearEnd` is to `CallsEnd` what
`InvocationEnds` is to `Terminates`: `RequestsLeft`, the attempts of the post with
the tries of a lookup in each, falls with every step of the call itself and is
left alone by other callers, by GitHub and by the runs.

Safety of the lifecycle - nothing is done that must not be - rests on
`TypeOK /\ EstateInv`, which is inductive. `AzureAfterGates` alone is not: an apply in some step adds Azure objects, so one must know that the
plan being applied was reviewed for this step (`PhaseReviewed`, `ScopeReviewed`)
and that its prior state is the present state (`PlanIsCurrent`), that a step
past a gate has the gate in `done` (`GatesInOrder`), and that `done` is emptied
only over an empty state (`StartsEmpty`). `CloudCovers` - what is in the state
or registered exists - makes the refresh of a plan keep what the state holds.
`LEMMA EstateSteps` reduces all actions to two kinds: steps that leave the
managed objects alone, and `ApplyStep`, a partial apply of a reviewed plan;
`PlanInLane` says such a plan stays within what its step may touch. From there
each conjunct of `EstateInv` has a lemma of its own (`NextCovers`, `NextOrder`,
`NextAzure`, ...). `Containment` follows from the same two facts;
`AbsenceProven` from what `Absence` asks and the types of what registers;
`CaptureComplete` from the gate's count over a subset of a finite set
(`ReadyMeansRegistered`).

That what must be done is done needs more: that a build passes only over the
configured estate, and that no reviewer stops it without a reason, depends on
what each of some thirty steps finds. `BuildInv` says so, and is inductive
together with the two above:

- *The estate.* `AwsKvmAsLeft` and `AzureAsLeft`: while a build is at a step,
  every object is what the earlier steps left (`Left`), in the state and in the
  clouds, but for an injected drift, for labels F5 XC writes on Azure sites and
  for approvals that the next apply drops. Azure is exempt once a plan was
  written over an Azure step's: `apply_scoped_plan` reviews the file it finds
  (`scripts/showcase-lifecycle.sh:434-467`), so another step's plan that the scope
  lets through may be applied, and `zero-change` of `verify_final` catches it. That is why
  `PassedMeansConverged` needs no such exemption.
- *The registrations.* `OnlineSoFar`, `ApprovalPending`, `HealthyMeansOnline`:
  the sites a step relies on are ONLINE and stay so.
- *Beside the state.* `StateFollows`, `StraysKnown`, `OutputsFollow`: what the
  clouds hold that the state does not, and which status outputs are stored.
- *The plan under review.* `PlanFollows` (its prior state is still true), `Aimed`
  (it leads to `Target` of its step or approves a registration that waits),
  `NamesFree`, `PlanKept` (nobody replaced it), `Acceptable` (the scope will
  permit it, or one of the reasons of `ScopeStopsExplained` holds).
- *The way.* `CyclesKnown`, `FirstDestroyed`, and the stops and passes
  themselves, of which `ScopeStopsKept` is the part that stays true while the
  sites go on after the script stopped.

`LEMMA Classes` sorts the steps of the system into nine kinds by what they do
to a build - the world alone, a plan saved, a plan permitted, one step to the
next without an apply, a stop, a new invocation, an apply that goes through or
stops or fails - so that each conjunct (`NextAwsKvmAsLeft`, `NextAimed`, `NextAcceptable`, ...)
is proved over the kinds and not over the thirty actions. `WantedNear` compares
what a configuration wants now with what it wants when every site is admitted;
`LeftAfterApply` and `SameTargets` that what one step leaves is what the next
expects; `NoneWaiting` that only the approval step of the configured phase is
applied while a registration waits: the bootstrap one is refused by the
preflight's literal 3 (`BootApproveRefused`, the first finding). With
`NothingToChange` and `ZeroMeansConverged` a plan that changes nothing means the
complete estate, which is `PassedConverged`. `CollisionsFound` needs
`StateFollows` and `NamesFree`: between the preflight and the apply of a phase
nothing but that apply creates a name.

**The estate.** `EstateImplemented` is a step-by-step simulation over the same
nine kinds. Its invariant is `TypeOK /\ EstateInv /\ BuildInv /\ AbsenceHonest`;
the mapping needs no history beyond `done`. What a kind must show is that the
abstract guard holds: `Assemble` needs that no gate is passed while a hub step
applies, `Extend` and `Join` that exactly those before the LAN and before Azure are
(`GatesPassed`), `PassGate` that the estate is the one that is tested, complete for
its point of the build and ONLINE (`AwsKvmAsLeft`, `AzureAsLeft`, `HealthyMeansOnline`),
`Certify` that a pass means the converged estate (`PassedMeansConverged`), `Teardown`
that a destroy plan creates nothing and that the state and the clouds lose only
what it deletes. `GatesPassed` was added to `BuildInv` for this proof. A plan
that another process wrote over the reviewed one never reaches an apply in
another lane: that part is `Containment` again, now as the shape of `Change`.
`EstatePromises` is proved from the abstract steps alone, and carried over. It
says: Azure behind all gates, the LAN behind three of them; while a build goes on, a
LAN beside a complete hub and Azure beside a complete rest (`Founded`); certificates
of a complete estate; no Customer Edge of the hub behind an absence receipt. Its
invariant adds that no certificate outlives the beginning of a teardown, and that a
gate stays passed only while what it was passed for stands (`TestsStand`): what
`Founded` says of the present follows from the gates, which no step but a
teardown takes back. Of Azure the receipt proves nothing, which is the third finding.

The proof corrected two properties. Tried for any number of invocations,
`ScopeStopsExplained` missed that `--mode verify` may find an estate which an
earlier, undisturbed invocation left unfinished, and `DestroyNeverRefused` missed
overwritten plans and orphans; the runs had looked at one invocation, and at
faults without the other disturbances. Both now name these reasons.

The programs beside the lifecycle, each from its own assumption on the types of
its constants:

| Module | Theorem | States |
|---|---|---|
| `AzureProofs` | `FrrAlwaysInv`, `FrrImplementsRelay` | `FrrSpec => [](FrrTypeOK /\ TableInv) /\ [][RuleStep]_frrVars`, `FrrSpec => RelayRefines` |
| | `DrillAlwaysRestores`, `RouterReceiptMeansBack` | `[]DrillRestores`, `ReceiptMeansBack` |
| `KvmLanProofs` | `LanAlwaysBehindHardware`, `AcceptanceReviewed`, `AcceptanceObserved` | `[]LanBehindHardware`, `[]PassedReviewed`, `[]PassedObserved` |
| `OperatorToolsProofs` | `CacheAlwaysVerified`, `SummaryAlwaysTrue`, `ProviderAlwaysPinned`, `CommandAlwaysOutlived`, `EvidenceAlwaysMatches`, `AlwaysDestroysPulled`, `MatrixAlwaysFollows`, `DeadlineAlwaysKept` | `[]CacheInv`, `[]SummaryTrue`, `[]ProviderPinned`, `[]CommandOutlived`, `[]EvidenceMatches`, `[]DestroysPulled`, `[]MatrixFollows`, `[]DeadlineKept` |
| | `EffectsAlwaysReviewed` | `UpgradeSpec => EffectsReviewed` |
| | `JoinAlwaysOneToOne`, `HarvestAlwaysComplete` | `[]JoinIsOneToOne`, `[]HarvestComplete` |
| | `ExitAlwaysTellsTruth`, `ReceiptsImmutable` | `[]ExitTellsTruth`, `ReceiptImmutable` |
| | `ToolsCompose` | `ToolsSpec` implies the specification of each of the fourteen |
| | `ToolsAlwaysTyped` | `ToolsSpec => []ToolsTypeOK` |
| | `ToolsKeepPromises` | `ToolsSpec` implies every property above that `operator_tools` checks |

The router's refinement rests on `TableInv`: the chain has at most one rule and
is empty before `AppendRule`, so an append is `Serve`, the flush in
`CompareRules` is `Stop`, and every other call is a stutter or `Hear`. `RuleStep` says
where a rule may come from: only into the empty chain, and then it is the first
edge this run found eligible. For the drill `DownInv` ties the stopped machine to `recover_vm` and the point of the
script. `ReceiptMeansBack` needs more, since an earlier drill may have been
killed with a machine down: `BackInv` says that every session the first router
has since its own stop is one with a running edge, so that, once it has counted
all of them again, all edges run, and the router with them. `ReceiptInv` follows each writer's inode through its
calls; a writer past `LinkTarget` owns the target, and no other can get there.
`RolloutInv` keeps what a saved plan shows of the state it was made from
(`PlanInv`), that the reviewed plan is the saved one and a receipt's plan one
the scope accepts or one that was swapped away (`ReviewInv`), and that the domain is
one of three; `Seen` that what the acceptance has passed still holds but for what
moved after the look.

The invariants of `OperatorToolsProofs` say what each program knows at each of
its steps. `FetcherKnows`: from the lock to the end of its curl a fetcher is the
lock's only holder, and the cached image is not the right one. `VerificationKnows`:
a fact behind a step still holds unless it moved after it. `VerifierKnows`: what has been
compared is pinned until another downloads. `RunnerInv`: a running process is
known, or on the line that keeps its number. `AttemptKnows`: which logs are this
attempt's, and that an opened receipt ends the label. `DestroyKnows`: the plan
file deletes what the event stream says, which is what was pulled. `CaptureKnows`:
the bindings so far, and that `evidence` is older than a capture which has not
written it. `LookMisses`: what a look missed came up after the answer that missed
it. `UpgradeInv`: the accepted plan was validated, unless its review rendered another.

The theorems of one program are of its own specification, the run
`operator_tools` is of their composition. `ToolsCompose` joins the two: a step of
the part at work is a step of that program, and the others stay where they are
(`PartStays`), so that each program's specification follows from `ToolsSpec` and with
it every theorem above (`ToolsKeepPromises`). `ToolsAlwaysTyped` adds the types: each
program's own, with what they need of its invariant.

The join of network interfaces (`Join`, the indexes of the rows that survive)
is one to one by counting: as many rows as roles show every role and every
device, and a surjection between finite sets of one size is an injection
(`JoinedRowsApart`). The harvest needs to know which rows a reader may have
missed: the `t`-th scroll paints the rows from `First(t)` to `Reach(t)`
(`PagesOnWay`), what was read is the menu up to the reach of the last page read
(`ReadSoFar`), and until the end of the menu the barren scrolls are those on the
first page or those whose pages are still on their way, `lag` at most. Patience
beyond a page and that lag is therefore never used up before the end
(`PatienceEnough`, `LessLagSuffices`); where the lag stayed below it, a row can only
be missing behind the scroll ceiling. Nothing is assumed of how late pages are.

Only model-checked, out of the prover's reach: the liveness properties
`Terminates`, `CoopPasses`, `CallsEnd` and `RelayCatchesUp` (fairness,
`ENABLED`; `InvocationsEnd` and `CallsComeToEnd` are the part of the first and the
third that needs neither). Every
invariant, action property and refinement a passing run checks is proved. The
four properties of the findings are false of the code.

## 5. Not modelled

- `scripts/terraform-with-aws-sso.sh` obtains credentials and runs one command.
- `deployment-identity.py`, `customer-edge-egress-preflight.py` and
  `serial_console_capture.py` are sequential: they keep no state between calls
  and meet nothing concurrent.
- `check_pii.py`, `workflow_security_validator.py` and
  `audit-runner-workflows.py`, half of the implementation's lines, are
  linters of its own text: pattern tables, with nothing to interleave.
- Credentials, provider checks and traffic tests of the lifecycle are failures
  of an `Interrupt`; paging and name lookups of the collision preflight are its
  verdict; the GitHub client's `get` command and pagination only read.
- `run` and `guard` of the Site CLI harvest, which its `main` does not call.
- The inside of Terraform, FRR, netfilter, libvirt, Azure, AWS and F5 XC.

## 6. Plan

Done: the lifecycle with its reviewers, as a refinement of the abstract estate;
the GitHub dispatch; the fourteen programs beside them, the router's as a
refinement, and their composition. Open:

1. The legacy review inside the lifecycle in place of the assumption that it is
   full-destroy's: `LegacyDestroy` models it on its own.
2. Overlapping attempts of `TrafficReceipt`.
