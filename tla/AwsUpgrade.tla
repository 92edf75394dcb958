------------------------------- MODULE AwsUpgrade -------------------------------
(***************************************************************************)
(* Qualifying an upgrade of the AWS sites (docs/en/demo/deploy.mdx:315): the *)
(* operator saves plans, writes down their digest, has                      *)
(* scripts/verify-aws-upgrade-action-plan.py review one and applies the      *)
(* accepted plan.  The review renders the plan first and hashes it later.    *)
(***************************************************************************)
EXTENDS Naturals, Sequences

CONSTANTS
  Sites, Versions,  \* AWS site keys, advertised targets
  Wanted,           \* plans an operator's variables may lead to
  MaxUpgradePlans   \* bound: plans saved

UpgradeModes == {"software", "os"}

(* What terraform show -json tells of a plan: its source commit; whether     *)
(* repository, ref, environment, backend and owner are the task's; the       *)
(* clouds it has; observed sites; where it changes resources, and how; and   *)
(* the actions it invokes.                                                  *)
Invocations == [kind : UpgradeModes, site : Sites, target : Versions]
UpgradePlans ==
  [commit : 1..2, owned : BOOLEAN, awsOnly : BOOLEAN, observed : SUBSET Sites,
   changes : SUBSET ({"aws", "other"} \X {"delete", "update"}), invokes : Seq(Invocations)]

ASSUME UpgradeAssumption ==
  /\ \A w \in Wanted, c \in 1..2 :
       [commit |-> c, owned |-> w.owned, awsOnly |-> w.awsOnly, observed |-> w.observed,
        changes |-> w.changes, invokes |-> w.invokes] \in UpgradePlans
  /\ MaxUpgradePlans \in Nat

VARIABLES
  version,   \* kind, site -> version installed, 0 for the one it was created with
  estate,    \* "aws" and "other": resources not yet touched
  commit,    \* the checked-out commit
  saved,     \* the plan file, or NoUpgradePlan
  hashed,    \* the operator's receipt: plan and commit
  reviewing, \* the review under way: rendered plan and arguments, or NoReviewing
  accepted,  \* the plan and the arguments of the last accepted review
  unshown,   \* history: it is not the plan which that review has rendered
  savedPlans \* bound

upgradeVars == <<version, estate, commit, saved, hashed, reviewing, accepted, unshown,
                 savedPlans>>

NoUpgradePlan == [commit |-> 0]
NoReviewing == [mode |-> "none"]
Nothing == [plan |-> NoUpgradePlan, mode |-> "none"]

UpgradeTypeOK ==
  /\ version \in [UpgradeModes \X Sites -> Versions \cup {0}]
  /\ estate \subseteq {"aws", "other"} /\ commit \in 1..2
  /\ {saved, hashed.plan, accepted.plan} \subseteq UpgradePlans \cup {NoUpgradePlan}
  /\ hashed.commit \in 0..2 /\ unshown \in BOOLEAN /\ savedPlans \in 0..MaxUpgradePlans
  /\ reviewing = NoReviewing \/ reviewing.plan \in UpgradePlans

UpgradeInit ==
  /\ version = [k \in UpgradeModes \X Sites |-> 0]
  /\ estate = {"aws", "other"} /\ commit = 1
  /\ saved = NoUpgradePlan /\ hashed = [plan |-> NoUpgradePlan, commit |-> 0]
  /\ reviewing = NoReviewing /\ accepted = Nothing
  /\ unshown = FALSE /\ savedPlans = 0

------------------------------------------------------------------------------
SaveUpgradePlan ==
  /\ savedPlans < MaxUpgradePlans /\ savedPlans' = savedPlans + 1
  /\ \E w \in Wanted :
       saved' = [commit |-> commit, owned |-> w.owned, awsOnly |-> w.awsOnly,
                 observed |-> w.observed, changes |-> w.changes, invokes |-> w.invokes]
  /\ UNCHANGED <<version, estate, commit, hashed, reviewing, accepted, unshown>>

WriteHash ==
  /\ saved # NoUpgradePlan
  /\ hashed' = [plan |-> saved, commit |-> commit]
  /\ UNCHANGED <<version, estate, commit, saved, reviewing, accepted, unshown, savedPlans>>

CommitMoves ==
  /\ commit = 1 /\ commit' = 2
  /\ UNCHANGED <<version, estate, saved, hashed, reviewing, accepted, unshown, savedPlans>>

(* main: the arguments, then terraform show.                                *)
RenderPlan ==
  /\ reviewing = NoReviewing /\ saved # NoUpgradePlan
  /\ \E mode \in UpgradeModes \cup {"reapply", "destroy"}, site \in Sites, t \in Versions :
       reviewing' = [mode |-> mode, site |-> site, target |-> t, plan |-> saved,
                     commit |-> commit]
  /\ UNCHANGED <<version, estate, commit, saved, hashed, accepted, unshown, savedPlans>>

(* validate on the rendered plan p and the arguments a.                     *)
BoundToTask(p, a) == p.owned /\ p.commit = a.commit /\ p.awsOnly
ChangesAllowed(p, a) ==
  IF a.mode = "destroy" THEN p.changes \subseteq {<<"aws", "delete">>} ELSE p.changes = {}

(* Mutant: the expected action is there, perhaps among others.             *)
InvokesAllowedMutant(p, a) ==
  IF a.mode \in UpgradeModes
  THEN /\ p.observed = {a.site}
       /\ \E i \in DOMAIN p.invokes :
            p.invokes[i] = [kind |-> a.mode, site |-> a.site, target |-> a.target]
  ELSE p.invokes = <<>>

InvokesAllowed(p, a) ==
  IF a.mode \in UpgradeModes
  THEN /\ p.observed = {a.site}
       /\ p.invokes = <<[kind |-> a.mode, site |-> a.site, target |-> a.target]>>
  ELSE p.invokes = <<>>

(* What is accepted is the plan file of now, whose digest the receipt has.    *)
Validate ==
  /\ reviewing # NoReviewing /\ reviewing' = NoReviewing
  /\ LET p == reviewing.plan
     IN IF /\ hashed = [plan |-> saved, commit |-> reviewing.commit]
           /\ BoundToTask(p, reviewing)
           /\ ChangesAllowed(p, reviewing) /\ InvokesAllowed(p, reviewing)
        THEN /\ accepted' = [plan |-> saved, mode |-> reviewing.mode,
                             site |-> reviewing.site, target |-> reviewing.target]
             /\ unshown' = (p # saved)
        ELSE UNCHANGED <<accepted, unshown>>
  /\ UNCHANGED <<version, estate, commit, saved, hashed, savedPlans>>

(* Terraform applies the accepted plan, and perhaps not all of it.          *)
ApplyUpgrade ==
  /\ accepted # Nothing /\ saved = accepted.plan
  /\ \E touched \in SUBSET {c[1] : c \in saved.changes} : estate' = estate \ touched
  /\ \E done \in 0..Len(saved.invokes) :
       version' = [k \in DOMAIN version |->
         IF \E i \in 1..done : k = <<saved.invokes[i].kind, saved.invokes[i].site>>
         THEN saved.invokes[CHOOSE i \in 1..done :
                              k = <<saved.invokes[i].kind, saved.invokes[i].site>>].target
         ELSE version[k]]
  /\ UNCHANGED <<commit, saved, hashed, reviewing, accepted, unshown, savedPlans>>

UpgradeNext ==
  SaveUpgradePlan \/ WriteHash \/ CommitMoves \/ RenderPlan \/ Validate \/ ApplyUpgrade

UpgradeSpec == UpgradeInit /\ [][UpgradeNext]_upgradeVars

------------------------------------------------------------------------------
(* Whatever plans are saved, hashed and reviewed in whatever order: what an  *)
(* apply does to the estate is what the review was asked about - one site,  *)
(* one kind of upgrade, one target, or the destruction of the AWS site       *)
(* alone - unless that very review rendered another plan than the one whose   *)
(* digest it took.                                                          *)
EffectsReviewed ==
  [][~unshown =>
       /\ \A k \in DOMAIN version : version'[k] # version[k] =>
            k = <<accepted.mode, accepted.site>> /\ version'[k] = accepted.target
       /\ estate' # estate => accepted.mode = "destroy" /\ estate' = estate \ {"aws"}
    ]_upgradeVars
=============================================================================
