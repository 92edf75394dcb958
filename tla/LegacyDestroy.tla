------------------------------ MODULE LegacyDestroy ------------------------------
(***************************************************************************)
(* destroy_all of scripts/showcase-lifecycle.sh on a state that the provider *)
(* can no longer decode: the state is pulled, the destroy plan saved with    *)
(* its event stream, scripts/showcase-legacy-destroy-scope.py judges the     *)
(* pulled state and the stream, and only digests tie them to the plan that   *)
(* is applied.                                                             *)
(***************************************************************************)
EXTENDS Naturals, FiniteSets

CONSTANTS
  Addresses,    \* addresses the state may hold
  Core,         \* those whose resource type has its owner verified
  HostNetwork,  \* those that name the shared host networking
  MaxStateMoves \* bound: writes to the state by others

ASSUME LegacyAssumption ==
  /\ Core \subseteq Addresses /\ HostNetwork \subseteq Addresses /\ MaxStateMoves \in Nat

VARIABLES
  marks,     \* Terraform state: address -> ownership markers, for what it holds
  stateMoves,\* its serial
  pulled,    \* prior-state.json
  events,    \* destroy-events.jsonl: deleted addresses, other actions
  destroyPlan, \* the plan file: what it deletes, and the serial it is made for
  scopeReceipt,\* the plan the receipt names
  destroying,\* the next step of destroy_all
  gone,      \* history: addresses, with their marks, that this run deleted
  planSwapped\* history: the step before which another plan was saved over the file

destroyVars == <<marks, stateMoves, pulled, events, destroyPlan, scopeReceipt, destroying,
                 gone, planSwapped>>

(* Markers are of this owner, of the reviewed predecessor, or of another.    *)
Marks == {"modern", "legacy", "foreign"}
States == UNION {[A -> Marks] : A \in SUBSET Addresses}
NoDestroyPlan == [deletes |-> {}, serial |-> MaxStateMoves + 1]
NoEvents == [deletes |-> {}, others |-> FALSE]

LegacyTypeOK ==
  /\ marks \in States /\ pulled \in States /\ stateMoves \in 0..MaxStateMoves
  /\ events \in [deletes : SUBSET Addresses, others : BOOLEAN]
  /\ {destroyPlan, scopeReceipt} \subseteq
       [deletes : SUBSET Addresses, serial : 0..(MaxStateMoves + 1)]
  /\ destroying \in {"pull", "plan", "scope", "digest", "apply", "list", "dead", "done"}
  /\ gone \subseteq Addresses \X Marks 
  /\ planSwapped \in {"none", "scope", "digest", "apply"}

LegacyInit ==
  /\ marks \in States /\ stateMoves = 0
  /\ pulled = [a \in {} |-> "modern"] /\ events = NoEvents
  /\ destroyPlan = NoDestroyPlan /\ scopeReceipt = NoDestroyPlan
  /\ destroying = "pull" /\ gone = {} /\ planSwapped = "none"

------------------------------------------------------------------------------
DestroyAt(here, there) == destroying = here /\ destroying' = there

PullState ==
  /\ DestroyAt("pull", "plan")
  /\ pulled' = marks
  /\ UNCHANGED <<marks, stateMoves, events, destroyPlan, scopeReceipt, gone, planSwapped>>

(* terraform plan -destroy refreshes: what is gone already is not planned,   *)
(* the summary counts what is; the root may also plan something else.        *)
PlanDestroy ==
  /\ DestroyAt("plan", "scope")
  /\ \E lost \in SUBSET DOMAIN marks, others \in BOOLEAN :
       LET deletes == DOMAIN marks \ lost
       IN /\ destroyPlan' = [deletes |-> deletes, serial |-> stateMoves]
          /\ events' = [deletes |-> deletes, others |-> others]
  /\ UNCHANGED <<marks, stateMoves, pulled, scopeReceipt, gone, planSwapped>>

(* verify_owner: the marks of a core object are this owner's, or none of     *)
(* this scheme and the predecessor's.                                       *)
OwnerVerified(a) == a \in Core => pulled[a] \in {"modern", "legacy"}

(* Mutant: more events than the state explains are accepted.               *)
LegacyScopeMutant ==
  /\ DOMAIN pulled # {}
  /\ \A a \in DOMAIN pulled : OwnerVerified(a)
  /\ ~events.others
  /\ events.deletes \cap HostNetwork = {}
  /\ DOMAIN pulled \subseteq events.deletes

(* verify: one delete event for each owned instance of the pulled state and  *)
(* nothing else, never host networking.                                     *)
LegacyScope ==
  /\ DOMAIN pulled # {}
  /\ \A a \in DOMAIN pulled : OwnerVerified(a)
  /\ ~events.others
  /\ events.deletes \cap HostNetwork = {}
  /\ events.deletes = DOMAIN pulled

(* The receipt names the plan file as it is after the verdict.              *)
ScopeDestroy ==
  /\ LegacyScope
  /\ DestroyAt("scope", "digest")
  /\ scopeReceipt' = destroyPlan
  /\ UNCHANGED <<marks, stateMoves, pulled, events, destroyPlan, gone, planSwapped>>

CompareDigest ==
  /\ DestroyAt("digest", "apply")
  /\ scopeReceipt = destroyPlan
  /\ UNCHANGED <<marks, stateMoves, pulled, events, destroyPlan, scopeReceipt, gone,
                 planSwapped>>

(* Terraform refuses a plan made for another serial; it deletes one object    *)
(* after the other and may stop at any.                                     *)
ApplyDestroy ==
  /\ destroyPlan.serial = stateMoves
  /\ \E deleted \in SUBSET (destroyPlan.deletes \cap DOMAIN marks) :
       /\ marks' = [a \in DOMAIN marks \ deleted |-> marks[a]]
       /\ gone' = gone \cup {<<a, marks[a]>> : a \in deleted}
       /\ DestroyAt("apply", IF deleted = destroyPlan.deletes THEN "list" ELSE "dead")
  /\ UNCHANGED <<stateMoves, pulled, events, destroyPlan, scopeReceipt, planSwapped>>

ListState ==
  /\ DestroyAt("list", IF DOMAIN marks = {} THEN "done" ELSE "dead")
  /\ UNCHANGED <<marks, stateMoves, pulled, events, destroyPlan, scopeReceipt, gone,
                 planSwapped>>

(* A step refuses, or fails for a reason of its own.                        *)
DestroyDies ==
  /\ destroying \notin {"done", "dead"} /\ destroying' = "dead"
  /\ UNCHANGED <<marks, stateMoves, pulled, events, destroyPlan, scopeReceipt, gone,
                 planSwapped>>

(* Others write the state under its lock: an object comes or goes.           *)
StateMoves ==
  /\ stateMoves < MaxStateMoves /\ stateMoves' = stateMoves + 1
  /\ destroying \notin {"done", "dead"}
  /\ \E a \in Addresses :
       marks' \in IF a \in DOMAIN marks
                  THEN {[b \in DOMAIN marks \ {a} |-> marks[b]]}
                  ELSE {[b \in DOMAIN marks \cup {a} |-> IF b = a THEN m ELSE marks[b]] :
                          m \in Marks}
  /\ UNCHANGED <<pulled, events, destroyPlan, scopeReceipt, destroying, gone, planSwapped>>

(* Another plan of this root is saved over the plan file.                   *)
PlanSwapped ==
  /\ planSwapped = "none" /\ planSwapped' = destroying
  /\ destroying \in {"scope", "digest", "apply"}
  /\ destroyPlan' = [deletes |-> DOMAIN marks, serial |-> stateMoves]
  /\ UNCHANGED <<marks, stateMoves, pulled, events, scopeReceipt, destroying, gone>>

LegacyNext ==
  \/ PullState \/ PlanDestroy \/ ScopeDestroy \/ CompareDigest \/ ApplyDestroy \/ ListState
  \/ DestroyDies \/ StateMoves \/ PlanSwapped

LegacySpec == LegacyInit /\ [][LegacyNext]_destroyVars

------------------------------------------------------------------------------
(* What a legacy destroy deletes was in the state that was pulled, under     *)
(* this owner's or the predecessor's marks, and is no host networking,       *)
(* however others write the state meanwhile, and whatever plan is saved over  *)
(* the reviewed one before its digest is compared; and when it is done       *)
(* nothing the pulled state held is left.  (A plan saved between the event    *)
(* stream and the receipt's digest, or after the comparison, goes unnoticed.) *)
DestroysPulled ==
  planSwapped \in {"none", "digest"} =>
    /\ \A g \in gone : /\ g[1] \in DOMAIN pulled \ HostNetwork
                       /\ g[1] \in Core => pulled[g[1]] # "foreign"
    /\ destroying = "done" => {g[1] : g \in gone} = DOMAIN pulled
=============================================================================
