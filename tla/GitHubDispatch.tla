----------------------------- MODULE GitHubDispatch -----------------------------
(***************************************************************************)
(* scripts/github-api-resilience.cjs: dispatchWorkflow.  Callers ask GitHub *)
(* to run the enforcement workflow for one exact source; the answer to a   *)
(* request may be lost or an error after the run was created, so a caller   *)
(* looks for a receipt - a usable run of that source - before it posts, and *)
(* again before each retry of the post.                                    *)
(***************************************************************************)
EXTENDS GitHubRetry

CONSTANTS
  Callers,          \* concurrent invocations for the same repository and source
  Replies,          \* errors GitHub and the network may answer with
  Rates,            \* answers to GET /rate_limit, status 200 or an error
  Jitters,          \* random seconds added to a wait
  MaxAttempts,      \* maxAttempts, of the post
  Budget,           \* totalWaitBudgetSeconds, of the post
  ReceiptAttempts,  \* receiptMaxAttempts, of one receipt lookup
  ReceiptBudget,    \* receiptWaitBudgetSeconds, of one receipt lookup
  MaxCalls,         \* invocations of each caller, one after the other
  Lag               \* a created run may be listed later than it exists

ErrorFields ==
  [status : Nat, retryAfter : Nat \cup {None}, remaining : Nat \cup {None},
   reset : Int, message : {"other", "primary", "secondary"},
   code : {"none", "network", "unmodified"}]

ASSUME DispatchAssumption ==
  /\ Replies \subseteq ErrorFields /\ Rates \subseteq ErrorFields
  /\ Jitters \subseteq Nat
  /\ MaxAttempts \in Nat \ {0} /\ ReceiptAttempts \in Nat \ {0}
  /\ Budget \in Nat /\ ReceiptBudget \in Nat
  /\ MaxCalls \in Nat /\ Lag \in BOOLEAN

VARIABLES
  pc,       \* where a caller is: "idle", "find", "post" or "done"
  attempt,  \* attempts of its post; the first one needs no recovery
  waited,   \* totalWaitSeconds of its post
  look,     \* attempt and totalWaitSeconds of its present receipt lookup
  result,   \* how its last invocation ended
  slept,    \* history: seconds this invocation has waited in all
  calls,    \* bound: its invocations
  listed,   \* GitHub: usable runs it created that are in the inventory
  hidden    \* GitHub: usable runs it created that are not listed yet

caller == <<pc, attempt, waited, look, result, slept>>
github == <<listed, hidden>>
vars == <<caller, calls, github>>

Results == {"none", "existing", "recovered", "dispatched", "deferred", "failed",
            "killed"}
FirstLook == [attempt |-> 1, waited |-> 0]

(* Only a request that may have reached GitHub's dispatcher created a run.  *)
Ambiguous(e) == e.status = 0 \/ e.status = 408 \/ e.status >= 500

(* The tag of an unexpected 304 is set on GET only.                         *)
PostReplies == {e \in Replies : e.code # "unmodified"}

------------------------------------------------------------------------------
Init ==
  /\ pc = [c \in Callers |-> "idle"]
  /\ attempt = [c \in Callers |-> 1] /\ waited = [c \in Callers |-> 0]
  /\ look = [c \in Callers |-> FirstLook]
  /\ result = [c \in Callers |-> "none"] /\ slept = [c \in Callers |-> 0]
  /\ calls = [c \in Callers |-> 0]
  /\ listed = [c \in Callers |-> 0] /\ hidden = [c \in Callers |-> 0]

Call(c) ==
  /\ pc[c] \in {"idle", "done"} /\ calls[c] < MaxCalls
  /\ calls' = [calls EXCEPT ![c] = @ + 1]
  /\ pc' = [pc EXCEPT ![c] = "find"]
  /\ attempt' = [attempt EXCEPT ![c] = 1]
  /\ waited' = [waited EXCEPT ![c] = 0]
  /\ look' = [look EXCEPT ![c] = FirstLook]
  /\ result' = [result EXCEPT ![c] = "none"]
  /\ slept' = [slept EXCEPT ![c] = 0]
  /\ UNCHANGED github

End(c, r) ==
  /\ pc' = [pc EXCEPT ![c] = "done"]
  /\ result' = [result EXCEPT ![c] = r]
  /\ UNCHANGED <<attempt, waited, look, slept>>

(* Another attempt of the post looks for a receipt first.                   *)
(* Mutant: it posts.                                                        *)
AttemptAgainMutant(c, wait) ==
  /\ pc' = [pc EXCEPT ![c] = "post"]
  /\ attempt' = [attempt EXCEPT ![c] = @ + 1]
  /\ waited' = [waited EXCEPT ![c] = @ + wait]
  /\ slept' = [slept EXCEPT ![c] = @ + wait]
  /\ look' = [look EXCEPT ![c] = FirstLook]
  /\ UNCHANGED result

(* Mutant: the retry around the post starts over, its counts with it.       *)
AttemptUncountedMutant(c, wait) ==
  /\ pc' = [pc EXCEPT ![c] = "find"]
  /\ look' = [look EXCEPT ![c] = FirstLook]
  /\ UNCHANGED <<attempt, waited, slept, result>>

AttemptAgain(c, wait) ==
  /\ pc' = [pc EXCEPT ![c] = "find"]
  /\ attempt' = [attempt EXCEPT ![c] = @ + 1]
  /\ waited' = [waited EXCEPT ![c] = @ + wait]
  /\ slept' = [slept EXCEPT ![c] = @ + wait]
  /\ look' = [look EXCEPT ![c] = FirstLook]
  /\ UNCHANGED result

(* The catch block around the post and its recovery.                        *)
RetryPost(c, e) ==
  \E rate \in Rates, jitter \in Jitters :
    LET v == Verdict(e, rate, jitter, attempt[c], waited[c], MaxAttempts,
                     Budget)
    IN  \/ v.end = "throw" /\ End(c, "failed")
        \/ v.end = "deferred" /\ End(c, "deferred")
        \/ v.end = "again" /\ AttemptAgain(c, v.wait)

(* findWorkflowDispatchReceipt, its three outcomes: a usable run of any     *)
(* caller, none, or an error.                                               *)
Found(c) ==
  /\ pc[c] = "find" /\ \E d \in Callers : listed[d] > 0
  /\ End(c, IF attempt[c] = 1 THEN "existing" ELSE "recovered")
  /\ UNCHANGED <<calls, github>>

NotFound(c) ==
  /\ pc[c] = "find" /\ \A d \in Callers : listed[d] = 0
  /\ pc' = [pc EXCEPT ![c] = "post"]
  /\ UNCHANGED <<attempt, waited, look, result, slept, calls, github>>

LookAgain(c, wait) ==
  /\ look' = [look EXCEPT ![c] = [attempt |-> @.attempt + 1,
                                  waited |-> @.waited + wait]]
  /\ slept' = [slept EXCEPT ![c] = @ + wait]
  /\ UNCHANGED <<pc, attempt, waited, result>>

(* A lookup that gives up ends the call with its exit code 84: the class of *)
(* its error is fatal to the retry around it.  An error it throws is one of *)
(* the post's attempts while recovering, and final before the first post.   *)
FindFails(c) ==
  /\ pc[c] = "find"
  /\ \E e \in Replies, rate \in Rates, jitter \in Jitters :
       LET v == Verdict(e, rate, jitter, look[c].attempt, look[c].waited,
                        ReceiptAttempts, ReceiptBudget)
       IN  \/ v.end = "again" /\ LookAgain(c, v.wait)
           \/ v.end = "deferred" /\ End(c, "deferred")
           \/ v.end = "throw" /\ attempt[c] = 1 /\ End(c, "failed")
           \/ v.end = "throw" /\ attempt[c] > 1 /\ RetryPost(c, v.error)
  /\ UNCHANGED <<calls, github>>

(* GitHub creates a run of the source.                                      *)
Created(c) ==
  \/ listed' = [listed EXCEPT ![c] = @ + 1] /\ UNCHANGED hidden
  \/ Lag /\ hidden' = [hidden EXCEPT ![c] = @ + 1] /\ UNCHANGED listed

Posted(c) ==
  /\ pc[c] = "post"
  /\ Created(c) /\ End(c, "dispatched")
  /\ UNCHANGED calls

PostFails(c) ==
  /\ pc[c] = "post"
  /\ \E e \in PostReplies :
       /\ RetryPost(c, e)
       /\ UNCHANGED github \/ (Ambiguous(e) /\ Created(c))
  /\ UNCHANGED calls

(* The process of a caller is killed, its post possibly on the way.         *)
Kill(c) ==
  /\ pc[c] \in {"find", "post"}
  /\ End(c, "killed")
  /\ UNCHANGED github \/ (pc[c] = "post" /\ Created(c))
  /\ UNCHANGED calls

(* A run appears in the inventory; a run completes without success and is   *)
(* no receipt any more.                                                     *)
Appear(c) ==
  /\ hidden[c] > 0
  /\ hidden' = [hidden EXCEPT ![c] = @ - 1]
  /\ listed' = [listed EXCEPT ![c] = @ + 1]
  /\ UNCHANGED <<caller, calls>>

RunFails(c) ==
  /\ \/ listed[c] > 0 /\ listed' = [listed EXCEPT ![c] = @ - 1]
        /\ UNCHANGED hidden
     \/ hidden[c] > 0 /\ hidden' = [hidden EXCEPT ![c] = @ - 1]
        /\ UNCHANGED listed
  /\ UNCHANGED <<caller, calls>>

Work(c) ==
  Found(c) \/ NotFound(c) \/ FindFails(c) \/ Posted(c) \/ PostFails(c)

Next ==
  \E c \in Callers : Call(c) \/ Work(c) \/ Kill(c) \/ Appear(c) \/ RunFails(c)

Spec == Init /\ [][Next]_vars

(* A caller that has work to do does it: fetch and sleep return.            *)
FairSpec == Spec /\ \A c \in Callers : WF_vars(Work(c))

------------------------------------------------------------------------------
(* Type invariant of callers and of the runs they created.                  *)
DispatchTypeOK ==
  /\ pc \in [Callers -> {"idle", "find", "post", "done"}]
  /\ attempt \in [Callers -> Nat] /\ waited \in [Callers -> Nat]
  /\ look \in [Callers -> [attempt : Nat, waited : Nat]]
  /\ result \in [Callers -> Results]
  /\ slept \in [Callers -> Nat] /\ calls \in [Callers -> Nat]
  /\ listed \in [Callers -> Nat] /\ hidden \in [Callers -> Nat]

(* However often a caller is answered by an error, killed and called again, *)
(* it has at most one usable run: it posts only when it has none.  GitHub   *)
(* lists a run as soon as it exists, in the runs that check this.           *)
OneUsableRun == \A c \in Callers : listed[c] + hidden[c] <= 1

(* One call waits at most the budget of its post and that of one receipt    *)
(* lookup for each attempt, and it makes at most MaxAttempts attempts.      *)
WaitBounded ==
  \A c \in Callers :
    /\ attempt[c] <= MaxAttempts
    /\ slept[c] <= Budget + MaxAttempts * ReceiptBudget

(* Why OneUsableRun and WaitBounded hold: a post follows a lookup that found *)
(* none, and what a call has slept is what its post has waited, a full      *)
(* lookup for each attempt before, and the present lookup.                  *)
PostsWhenNone ==
  \A c \in Callers :
    /\ hidden[c] = 0 /\ listed[c] <= 1
    /\ pc[c] = "post" => listed[c] = 0

SleptAccounted ==
  \A c \in Callers :
    /\ attempt[c] \in 1..MaxAttempts
    /\ waited[c] <= Budget /\ look[c].waited <= ReceiptBudget
    /\ slept[c] <= waited[c] + (attempt[c] - 1) * ReceiptBudget
                     + look[c].waited

(* Every call ends, whatever GitHub answers.                                *)
CallsEnd == \A c \in Callers : pc[c] \in {"find", "post"} ~> pc[c] = "done"
=============================================================================
