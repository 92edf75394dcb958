-------------------------- MODULE GitHubDispatchProofs --------------------------
(***************************************************************************)
(* Proofs about GitHubDispatch, for any callers, errors, attempts and       *)
(* budgets.                                                                *)
(***************************************************************************)
EXTENDS GitHubDispatch, TLAPS

(* A wait is a number of seconds, also after a reset that has passed.       *)
LEMMA WaitType ==
  ASSUME NEW e \in ErrorFields, NEW a \in Nat, NEW j \in Nat
  PROVE  WaitSeconds(e, a, j) \in Nat
<1>1. Doubled(a) \in Nat
  BY DEF Doubled
<1>2. CASE Primary(e)
  BY <1>2 DEF WaitSeconds, Greatest, ErrorFields
<1>3. CASE ~Primary(e) /\ Secondary(e)
  BY <1>1, <1>3 DEF WaitSeconds, Least, ErrorFields
<1>4. CASE ~Primary(e) /\ ~Secondary(e)
  BY <1>1, <1>4 DEF WaitSeconds, Least
<1> QED
  BY <1>2, <1>3, <1>4

(* What the catch block of retryGitHub returns: an error as it was thrown,  *)
(* or a wait that fits into what is left of the attempts and the budget.    *)
LEMMA VerdictFits ==
  ASSUME NEW e \in ErrorFields, NEW rate \in ErrorFields, NEW j \in Nat,
         NEW a \in Nat, NEW w \in Nat, NEW attempts \in Nat, NEW budget \in Nat
  PROVE  LET v == Verdict(e, rate, j, a, w, attempts, budget)
         IN  /\ v.end \in {"throw", "deferred", "again"}
             /\ v.error \in ErrorFields /\ v.wait \in Nat
             /\ v.end = "again" => a < attempts /\ w + v.wait <= budget
<1> DEFINE known == LookedUp(e, rate)
           wait == WaitSeconds(known, a, j)
<1>1. known \in ErrorFields
  BY DEF LookedUp, ErrorFields
<1>2. wait \in Nat
  BY <1>1, WaitType
<1> HIDE DEF known
<1>3. Verdict(e, rate, j, a, w, attempts, budget)
        = IF ~Retryable(e) THEN [end |-> "throw", error |-> e, wait |-> 0]
          ELSE IF LookupFails(e, rate)
            THEN [end |-> "throw", error |-> rate, wait |-> 0]
          ELSE IF Exhausted(wait, a, w, attempts, budget)
            THEN [end |-> "deferred", error |-> e, wait |-> 0]
          ELSE [end |-> "again", error |-> e, wait |-> wait]
  BY DEF Verdict, known
<1> HIDE DEF wait
<1>4. ~Exhausted(wait, a, w, attempts, budget)
        => a < attempts /\ w + wait <= budget
  BY <1>2 DEF Exhausted
<1> QED
  BY <1>2, <1>3, <1>4

------------------------------------------------------------------------------
(* The two kinds of change to a caller that need arithmetic: another        *)
(* attempt of the post, and another try of the lookup.                      *)
LEMMA RetryPostSteps ==
  ASSUME DispatchAssumption, DispatchTypeOK, NEW c \in Callers, NEW e \in ErrorFields,
         RetryPost(c, e)
  PROVE  \/ \E r \in {"failed", "deferred"} : End(c, r)
         \/ \E wait \in Nat : /\ attempt[c] < MaxAttempts
                              /\ waited[c] + wait <= Budget
                              /\ AttemptAgain(c, wait)
<1>1. PICK rate \in Rates, j \in Jitters :
        LET v == Verdict(e, rate, j, attempt[c], waited[c], MaxAttempts, Budget)
        IN  \/ v.end = "throw" /\ End(c, "failed")
            \/ v.end = "deferred" /\ End(c, "deferred")
            \/ v.end = "again" /\ AttemptAgain(c, v.wait)
  BY DEF RetryPost
<1> DEFINE v == Verdict(e, rate, j, attempt[c], waited[c], MaxAttempts, Budget)
<1>2. rate \in ErrorFields /\ j \in Nat /\ attempt[c] \in Nat
        /\ waited[c] \in Nat /\ MaxAttempts \in Nat /\ Budget \in Nat
  BY DEF DispatchAssumption, DispatchTypeOK
<1>3. /\ v.wait \in Nat
      /\ v.end = "again" =>
            attempt[c] < MaxAttempts /\ waited[c] + v.wait <= Budget
  BY <1>2, VerdictFits
<1> HIDE DEF v
<1> QED
  BY <1>1, <1>3 DEF v

LEMMA FindFailsSteps ==
  ASSUME DispatchAssumption, DispatchTypeOK, NEW c \in Callers, FindFails(c)
  PROVE  /\ pc[c] = "find" /\ UNCHANGED <<calls, github>>
         /\ \/ \E r \in {"failed", "deferred"} : End(c, r)
            \/ \E wait \in Nat : /\ look[c].attempt < ReceiptAttempts
                                 /\ look[c].waited + wait <= ReceiptBudget
                                 /\ LookAgain(c, wait)
            \/ \E e \in ErrorFields : RetryPost(c, e)
<1>1. PICK e \in Replies, rate \in Rates, j \in Jitters :
        LET v == Verdict(e, rate, j, look[c].attempt, look[c].waited,
                         ReceiptAttempts, ReceiptBudget)
        IN  \/ v.end = "again" /\ LookAgain(c, v.wait)
            \/ v.end = "deferred" /\ End(c, "deferred")
            \/ v.end = "throw" /\ attempt[c] = 1 /\ End(c, "failed")
            \/ v.end = "throw" /\ attempt[c] > 1 /\ RetryPost(c, v.error)
  BY DEF FindFails
<1> DEFINE v == Verdict(e, rate, j, look[c].attempt, look[c].waited,
                        ReceiptAttempts, ReceiptBudget)
<1>2. e \in ErrorFields /\ rate \in ErrorFields /\ j \in Nat
        /\ look[c].attempt \in Nat /\ look[c].waited \in Nat
        /\ ReceiptAttempts \in Nat /\ ReceiptBudget \in Nat
  BY DEF DispatchAssumption, DispatchTypeOK
<1>3. /\ v.wait \in Nat /\ v.error \in ErrorFields
      /\ v.end = "again" => /\ look[c].attempt < ReceiptAttempts
                            /\ look[c].waited + v.wait <= ReceiptBudget
  BY <1>2, VerdictFits
<1> HIDE DEF v
<1>4. pc[c] = "find" /\ UNCHANGED <<calls, github>>
  BY DEF FindFails
<1> QED
  BY <1>1, <1>3, <1>4 DEF v

(* Every step of the system, sorted by what it does to a caller and to the  *)
(* runs it created: a run is created only by a caller that posts.           *)
Effect(c) == UNCHANGED github \/ (pc[c] = "post" /\ Created(c))

CallerStep(c) ==
  \/ Call(c)
  \/ NotFound(c)
  \/ \E r \in Results : End(c, r) /\ Effect(c) /\ UNCHANGED calls
  \/ \E wait \in Nat : /\ look[c].attempt < ReceiptAttempts
                      /\ look[c].waited + wait <= ReceiptBudget
                      /\ LookAgain(c, wait) /\ UNCHANGED <<calls, github>>
  \/ \E wait \in Nat : /\ attempt[c] < MaxAttempts
                      /\ waited[c] + wait <= Budget
                      /\ AttemptAgain(c, wait) /\ Effect(c) /\ UNCHANGED calls
  \/ Appear(c)
  \/ RunFails(c)

LEMMA NextSteps ==
  ASSUME DispatchAssumption, DispatchTypeOK, Next
  PROVE  \E c \in Callers : CallerStep(c)
<1>1. PICK c \in Callers :
        Call(c) \/ Work(c) \/ Kill(c) \/ Appear(c) \/ RunFails(c)
  BY DEF Next
<1>2. ASSUME Found(c) PROVE CallerStep(c)
  BY <1>2 DEF Found, CallerStep, Effect, Results
<1>3. ASSUME FindFails(c) PROVE CallerStep(c)
  <2>1. CASE \E r \in {"failed", "deferred"} : End(c, r)
    BY <1>3, <2>1, FindFailsSteps DEF CallerStep, Effect, Results
  <2>2. CASE \E wait \in Nat : /\ look[c].attempt < ReceiptAttempts
                               /\ look[c].waited + wait <= ReceiptBudget
                               /\ LookAgain(c, wait)
    BY <1>3, <2>2, FindFailsSteps DEF CallerStep
  <2>3. ASSUME NEW e \in ErrorFields, RetryPost(c, e) PROVE CallerStep(c)
    BY <1>3, <2>3, FindFailsSteps, RetryPostSteps
       DEF CallerStep, Effect, Results
  <2> QED
    BY <1>3, <2>1, <2>2, <2>3, FindFailsSteps
<1>4. ASSUME Posted(c) PROVE CallerStep(c)
  BY <1>4 DEF Posted, CallerStep, Effect, Results
<1>5. ASSUME PostFails(c) PROVE CallerStep(c)
  <2>1. PICK e \in PostReplies :
          /\ RetryPost(c, e)
          /\ UNCHANGED github \/ (Ambiguous(e) /\ Created(c))
    BY <1>5 DEF PostFails
  <2>2. e \in ErrorFields /\ Effect(c) /\ UNCHANGED calls
    BY <1>5, <2>1 DEF PostFails, PostReplies, DispatchAssumption, Effect
  <2> QED
    BY <2>1, <2>2, RetryPostSteps DEF CallerStep, Results
<1>6. ASSUME Kill(c) PROVE CallerStep(c)
  BY <1>6 DEF Kill, CallerStep, Effect, Results
<1> QED
  BY <1>1, <1>2, <1>3, <1>4, <1>5, <1>6 DEF Work, CallerStep

------------------------------------------------------------------------------
LEMMA InitType ==
  ASSUME DispatchAssumption, Init
  PROVE  DispatchTypeOK
BY DEF Init, DispatchTypeOK, FirstLook, Results

LEMMA EffectType ==
  ASSUME DispatchTypeOK, NEW c \in Callers, Effect(c)
  PROVE  listed' \in [Callers -> Nat] /\ hidden' \in [Callers -> Nat]
BY DEF DispatchTypeOK, Effect, Created, github

(* One step keeps the types; a run is counted off only when there is one.   *)
LEMMA NextType ==
  ASSUME DispatchAssumption, DispatchTypeOK, [Next]_vars
  PROVE  DispatchTypeOK'
<1> USE DEF DispatchTypeOK
<1>1. CASE UNCHANGED vars
  BY <1>1 DEF vars, caller, github
<1>2. ASSUME NEW c \in Callers, CallerStep(c) PROVE DispatchTypeOK'
  <2>1. CASE Call(c)
    BY <2>1 DEF Call, FirstLook, Results, github
  <2>2. CASE NotFound(c)
    BY <2>2 DEF NotFound, github
  <2>3. ASSUME NEW r \in Results, End(c, r), Effect(c), UNCHANGED calls
        PROVE  DispatchTypeOK'
    BY <2>3, EffectType DEF End
  <2>4. ASSUME NEW wait \in Nat, LookAgain(c, wait), UNCHANGED <<calls, github>>
        PROVE  DispatchTypeOK'
    <3>1. [attempt |-> look[c].attempt + 1, waited |-> look[c].waited + wait]
            \in [attempt : Nat, waited : Nat]
      OBVIOUS
    <3> QED
      BY <2>4, <3>1 DEF LookAgain, github
  <2>5. ASSUME NEW wait \in Nat, AttemptAgain(c, wait), Effect(c),
               UNCHANGED calls
        PROVE  DispatchTypeOK'
    BY <2>5, EffectType DEF AttemptAgain, FirstLook
  <2>6. CASE Appear(c)
    BY <2>6 DEF Appear, caller
  <2>7. CASE RunFails(c)
    BY <2>7 DEF RunFails, caller
  <2> QED
    BY <1>2, <2>1, <2>2, <2>3, <2>4, <2>5, <2>6, <2>7 DEF CallerStep
<1> QED
  BY <1>1, <1>2, NextSteps

(* Callers, their counters and the runs they created have their types       *)
(* whatever GitHub answers.                                                 *)
THEOREM TypeCorrect == Spec => []DispatchTypeOK
<1> USE DispatchAssumption
<1>1. Init => DispatchTypeOK
  BY InitType
<1>2. DispatchTypeOK /\ [Next]_vars => DispatchTypeOK'
  BY NextType
<1> QED
  BY <1>1, <1>2, PTL DEF Spec

------------------------------------------------------------------------------
(* A caller that is about to post has no usable run, when GitHub lists runs *)
(* as soon as they exist: another caller cannot create one for it.          *)
LEMMA NextPosts ==
  ASSUME DispatchAssumption, DispatchTypeOK, PostsWhenNone, ~Lag, [Next]_vars
  PROVE  PostsWhenNone'
<1> USE DEF DispatchTypeOK, PostsWhenNone
<1>1. CASE UNCHANGED vars
  BY <1>1 DEF vars, caller, github
<1>2. ASSUME NEW c \in Callers, CallerStep(c) PROVE PostsWhenNone'
  <2>1. CASE Call(c)
    BY <2>1 DEF Call, github
  <2>2. CASE NotFound(c)
    BY <2>2 DEF NotFound, github
  <2>3. ASSUME NEW r \in Results, End(c, r), Effect(c)
        PROVE  PostsWhenNone'
    BY <2>3 DEF End, Effect, Created, github
  <2>4. ASSUME NEW wait \in Nat, LookAgain(c, wait), UNCHANGED github
        PROVE  PostsWhenNone'
    BY <2>4 DEF LookAgain, github
  <2>5. ASSUME NEW wait \in Nat, AttemptAgain(c, wait), Effect(c)
        PROVE  PostsWhenNone'
    BY <2>5 DEF AttemptAgain, Effect, Created, github
  <2>6. CASE Appear(c)
    BY <2>6 DEF Appear
  <2>7. CASE RunFails(c)
    BY <2>7 DEF RunFails, caller
  <2> QED
    BY <1>2, <2>1, <2>2, <2>3, <2>4, <2>5, <2>6, <2>7 DEF CallerStep
<1> QED
  BY <1>1, <1>2, NextSteps

(* A caller never has two usable runs, however often its post is answered   *)
(* by an error after the run was created, killed, or called again, as long  *)
(* as GitHub lists a run once it exists.                                    *)
THEOREM NoSecondRun ==
  ASSUME ~Lag
  PROVE  Spec => []OneUsableRun
<1> USE DispatchAssumption
<1>1. Init => DispatchTypeOK /\ PostsWhenNone
  BY InitType DEF Init, PostsWhenNone
<1>2. DispatchTypeOK /\ PostsWhenNone /\ [Next]_vars => DispatchTypeOK' /\ PostsWhenNone'
  BY NextType, NextPosts
<1>3. DispatchTypeOK /\ PostsWhenNone => OneUsableRun
  BY DEF DispatchTypeOK, PostsWhenNone, OneUsableRun
<1> QED
  BY <1>1, <1>2, <1>3, PTL DEF Spec

------------------------------------------------------------------------------
(* One more attempt pays for one more lookup.                               *)
LEMMA OneMore ==
  ASSUME NEW n \in Nat, NEW b \in Nat
  PROVE  (n + 1 - 1) * b = (n - 1) * b + b
OBVIOUS

LEMMA AtMost ==
  ASSUME NEW n \in Nat, NEW m \in Nat, n <= m, NEW b \in Nat
  PROVE  n * b <= m * b
OBVIOUS

(* What a call has slept is accounted for: a retry of the lookup adds to    *)
(* the lookup, another attempt of the post to the post, and it leaves a     *)
(* full lookup behind.                                                     *)
LEMMA NextSlept ==
  ASSUME DispatchAssumption, DispatchTypeOK, SleptAccounted, [Next]_vars
  PROVE  SleptAccounted'
<1>0. MaxAttempts \in Nat \ {0} /\ Budget \in Nat /\ ReceiptBudget \in Nat
  BY DEF DispatchAssumption
<1> USE DEF DispatchTypeOK, SleptAccounted
<1>1. CASE UNCHANGED vars
  BY <1>1 DEF vars, caller
<1>2. ASSUME NEW c \in Callers, CallerStep(c) PROVE SleptAccounted'
  <2>1. CASE Call(c)
    BY <1>0, <2>1 DEF Call, FirstLook
  <2>2. CASE NotFound(c)
    BY <2>2 DEF NotFound
  <2>3. ASSUME NEW r \in Results, End(c, r)
        PROVE  SleptAccounted'
    BY <2>3 DEF End
  <2>4. ASSUME NEW wait \in Nat, LookAgain(c, wait),
               look[c].waited + wait <= ReceiptBudget
        PROVE  SleptAccounted'
    BY <1>0, <2>4 DEF LookAgain
  <2>5. ASSUME NEW wait \in Nat, AttemptAgain(c, wait),
               attempt[c] < MaxAttempts, waited[c] + wait <= Budget
        PROVE  SleptAccounted'
    <3>1. (attempt[c] + 1 - 1) * ReceiptBudget
             = (attempt[c] - 1) * ReceiptBudget + ReceiptBudget
      BY <1>0, OneMore
    <3> QED
      BY <1>0, <2>5, <3>1 DEF AttemptAgain, FirstLook
  <2>6. CASE Appear(c)
    BY <2>6 DEF Appear, caller
  <2>7. CASE RunFails(c)
    BY <2>7 DEF RunFails, caller
  <2> QED
    BY <1>2, <2>1, <2>2, <2>3, <2>4, <2>5, <2>6, <2>7 DEF CallerStep
<1> QED
  BY <1>1, <1>2, NextSteps

LEMMA AccountedBounded ==
  ASSUME DispatchAssumption, DispatchTypeOK, SleptAccounted
  PROVE  WaitBounded
<1> SUFFICES ASSUME NEW c \in Callers
             PROVE  /\ attempt[c] <= MaxAttempts
                    /\ slept[c] <= Budget + MaxAttempts * ReceiptBudget
  BY DEF WaitBounded
<1> DEFINE n == attempt[c] - 1
<1>1. /\ attempt[c] \in 1..MaxAttempts /\ MaxAttempts \in Nat
      /\ waited[c] <= Budget /\ look[c].waited <= ReceiptBudget
      /\ slept[c] <= waited[c] + n * ReceiptBudget + look[c].waited
      /\ slept[c] \in Nat /\ waited[c] \in Nat /\ look[c].waited \in Nat
      /\ Budget \in Nat /\ ReceiptBudget \in Nat
  BY DEF SleptAccounted, DispatchTypeOK, DispatchAssumption
<1>2. n \in Nat /\ n + 1 <= MaxAttempts /\ n + 1 = attempt[c]
  BY <1>1
<1> HIDE DEF n
<1>3. n * ReceiptBudget + ReceiptBudget <= MaxAttempts * ReceiptBudget
  <2>1. (n + 1) * ReceiptBudget = n * ReceiptBudget + ReceiptBudget
    BY <1>1, <1>2
  <2> QED
    BY <1>1, <1>2, <2>1, AtMost
<1>4. n * ReceiptBudget \in Nat /\ MaxAttempts * ReceiptBudget \in Nat
  BY <1>1, <1>2
<1> QED
  BY <1>1, <1>2, <1>3, <1>4

(* One call of dispatchWorkflow never waits longer than the budget of its   *)
(* post and that of a lookup for each attempt it may make.                  *)
THEOREM WaitsWithinBudgets == Spec => []WaitBounded
<1> USE DispatchAssumption
<1>1. Init => DispatchTypeOK /\ SleptAccounted
  BY InitType DEF Init, SleptAccounted, DispatchAssumption, FirstLook
<1>2. DispatchTypeOK /\ SleptAccounted /\ [Next]_vars => DispatchTypeOK' /\ SleptAccounted'
  BY NextType, NextSlept
<1>3. DispatchTypeOK /\ SleptAccounted => WaitBounded
  BY AccountedBounded
<1> QED
  BY <1>1, <1>2, <1>3, PTL DEF Spec

------------------------------------------------------------------------------
(* How far a call is from its end: attempts of the post, tries of a lookup  *)
(* in each, and the post after it.                                          *)
Active(c) == pc[c] \in {"find", "post"}

Round == ReceiptAttempts + 2

TriesLeft(c) ==
  ReceiptAttempts - look[c].attempt + IF pc[c] = "find" THEN 1 ELSE 0

RequestsLeft(c) == (MaxAttempts - attempt[c]) * Round + TriesLeft(c)

LooksCounted == \A c \in Callers : look[c].attempt \in 1..ReceiptAttempts

CallCounted == DispatchTypeOK /\ SleptAccounted /\ LooksCounted

LEMMA NextLooks ==
  ASSUME DispatchAssumption, DispatchTypeOK, LooksCounted, [Next]_vars
  PROVE  LooksCounted'
<1>0. ReceiptAttempts \in Nat \ {0}
  BY DEF DispatchAssumption
<1> USE DEF DispatchTypeOK, LooksCounted
<1>1. CASE UNCHANGED vars
  BY <1>1 DEF vars, caller
<1>2. ASSUME NEW c \in Callers, CallerStep(c) PROVE LooksCounted'
  <2>1. CASE Call(c)
    BY <1>0, <2>1 DEF Call, FirstLook
  <2>2. CASE NotFound(c) \/ Appear(c) \/ RunFails(c)
    BY <2>2 DEF NotFound, Appear, RunFails, caller
  <2>3. ASSUME NEW r \in Results, End(c, r)
        PROVE  LooksCounted'
    BY <2>3 DEF End
  <2>4. ASSUME NEW wait \in Nat, LookAgain(c, wait),
               look[c].attempt < ReceiptAttempts
        PROVE  LooksCounted'
    BY <1>0, <2>4 DEF LookAgain
  <2>5. ASSUME NEW wait \in Nat, AttemptAgain(c, wait)
        PROVE  LooksCounted'
    BY <1>0, <2>5 DEF AttemptAgain, FirstLook
  <2> QED
    BY <1>2, <2>1, <2>2, <2>3, <2>4, <2>5 DEF CallerStep
<1> QED
  BY <1>1, <1>2, NextSteps

(* What a call does to itself: it ends, posts, looks or attempts again.     *)
LEMMA WorkSteps ==
  ASSUME DispatchAssumption, DispatchTypeOK, NEW c \in Callers, Work(c)
  PROVE  \/ \E r \in Results : End(c, r)
         \/ NotFound(c)
         \/ \E wait \in Nat :
              look[c].attempt < ReceiptAttempts /\ LookAgain(c, wait)
                /\ pc[c] = "find"
         \/ \E wait \in Nat :
              attempt[c] < MaxAttempts /\ AttemptAgain(c, wait)
<1>1. CASE Found(c) \/ Posted(c)
  BY <1>1 DEF Found, Posted, Results
<1>2. CASE FindFails(c)
  <2>1. CASE \E r \in {"failed", "deferred"} : End(c, r)
    BY <2>1 DEF Results
  <2>2. ASSUME NEW e \in ErrorFields, RetryPost(c, e)
        PROVE  \/ \E r \in Results : End(c, r)
               \/ \E wait \in Nat :
                    attempt[c] < MaxAttempts /\ AttemptAgain(c, wait)
    BY <2>2, RetryPostSteps DEF Results
  <2> QED
    BY <1>2, <2>1, <2>2, FindFailsSteps
<1>3. CASE PostFails(c)
  <2>1. PICK e \in ErrorFields : RetryPost(c, e)
    BY <1>3 DEF PostFails, PostReplies, DispatchAssumption
  <2> QED
    BY <2>1, RetryPostSteps DEF Results
<1> QED
  BY <1>1, <1>2, <1>3 DEF Work

(* A step of another caller, or of GitHub, leaves a call as it is.          *)
LEMMA OthersKeep ==
  ASSUME DispatchAssumption, DispatchTypeOK, [Next]_vars, NEW c \in Callers,
         Active(c), Active(c)', ~Work(c)
  PROVE  /\ pc'[c] = pc[c] /\ attempt'[c] = attempt[c]
         /\ look'[c] = look[c]
<1>1. CASE UNCHANGED vars
  BY <1>1 DEF vars, caller
<1>2. ASSUME NEW d \in Callers,
             Call(d) \/ Work(d) \/ Kill(d) \/ Appear(d) \/ RunFails(d)
      PROVE  /\ pc'[c] = pc[c] /\ attempt'[c] = attempt[c]
             /\ look'[c] = look[c]
  <2>1. CASE Appear(d) \/ RunFails(d)
    BY <2>1 DEF Appear, RunFails, caller
  <2>2. CASE Call(d) \/ Kill(d)
    BY <2>2 DEF Call, Kill, End, Active, DispatchTypeOK
  <2>3. CASE Work(d)
    <3>1. d # c
      BY <2>3
    <3>2. CASE \E r \in Results : End(d, r)
      BY <3>1, <3>2 DEF End, DispatchTypeOK
    <3>3. CASE NotFound(d)
      BY <3>1, <3>3 DEF NotFound, DispatchTypeOK
    <3>4. ASSUME NEW wait \in Nat, LookAgain(d, wait) \/ AttemptAgain(d, wait)
          PROVE  /\ pc'[c] = pc[c] /\ attempt'[c] = attempt[c]
                 /\ look'[c] = look[c]
      BY <3>1, <3>4 DEF LookAgain, AttemptAgain, DispatchTypeOK
    <3> QED
      BY <2>3, <3>2, <3>3, <3>4, WorkSteps
  <2> QED
    BY <1>2, <2>1, <2>2, <2>3
<1> QED
  BY <1>1, <1>2 DEF Next

LEMMA AttemptPays ==
  ASSUME NEW q \in Nat, NEW p \in Nat, q < p, NEW k \in Nat, NEW m \in Nat,
         NEW n \in Nat, m < k
  PROVE  q * k + m < p * k + n
<1>1. q * k \in Nat /\ p * k \in Nat
  OBVIOUS
<1>2. (q + 1) * k = q * k + k
  OBVIOUS
<1>3. (q + 1) * k <= p * k
  BY AtMost
<1> QED
  BY <1>1, <1>2, <1>3

LEMMA LeftType ==
  ASSUME DispatchAssumption, CallCounted, NEW c \in Callers
  PROVE  /\ MaxAttempts - attempt[c] \in 0..(MaxAttempts - 1)
         /\ TriesLeft(c) \in 0..(Round - 1) /\ Round \in Nat
         /\ MaxAttempts \in Nat
<1>1. /\ attempt[c] \in 1..MaxAttempts /\ look[c].attempt \in 1..ReceiptAttempts
      /\ MaxAttempts \in Nat /\ ReceiptAttempts \in Nat
  BY DEF CallCounted, SleptAccounted, LooksCounted, DispatchAssumption
<1> QED
  BY <1>1 DEF TriesLeft, Round

LEMMA RequestsLeftType ==
  ASSUME DispatchAssumption, CallCounted, NEW c \in Callers
  PROVE  RequestsLeft(c) \in 0..(MaxAttempts * Round)
<1> DEFINE n == MaxAttempts - attempt[c]
<1>1. n \in Nat /\ n < MaxAttempts /\ MaxAttempts \in Nat /\ Round \in Nat
        /\ TriesLeft(c) \in Nat /\ TriesLeft(c) < Round
  BY LeftType
<1>2. RequestsLeft(c) = n * Round + TriesLeft(c)
  BY DEF RequestsLeft
<1> HIDE DEF n
<1>3. n * Round + TriesLeft(c) < MaxAttempts * Round + 0
  BY <1>1, AttemptPays
<1>4. n * Round \in Nat /\ MaxAttempts * Round \in Nat
  BY <1>1
<1> QED
  BY <1>1, <1>2, <1>3, <1>4

LEMMA RequestsFall ==
  ASSUME DispatchAssumption, CallCounted, CallCounted', NEW c \in Callers,
         Work(c), Active(c)'
  PROVE  RequestsLeft(c)' < RequestsLeft(c)
<1>0. /\ MaxAttempts - attempt[c] \in Nat /\ TriesLeft(c) \in Nat
      /\ MaxAttempts - attempt'[c] \in Nat /\ Round \in Nat
      /\ TriesLeft(c)' \in Nat /\ TriesLeft(c)' < Round
      /\ attempt[c] \in Nat /\ MaxAttempts \in Nat
  <2>1. /\ attempt'[c] \in 1..MaxAttempts
        /\ look'[c].attempt \in 1..ReceiptAttempts
        /\ MaxAttempts \in Nat /\ ReceiptAttempts \in Nat
    BY DEF CallCounted, SleptAccounted, LooksCounted, DispatchAssumption
  <2>2. TriesLeft(c)' \in 0..(Round - 1)
    BY <2>1 DEF TriesLeft, Round
  <2> QED
    BY <2>1, <2>2, LeftType DEF CallCounted, DispatchTypeOK
<1>1. /\ RequestsLeft(c) = (MaxAttempts - attempt[c]) * Round + TriesLeft(c)
      /\ RequestsLeft(c)'
           = (MaxAttempts - attempt'[c]) * Round + TriesLeft(c)'
  BY DEF RequestsLeft
<1>t. DispatchTypeOK
  BY DEF CallCounted
<1>2. ASSUME attempt'[c] = attempt[c], TriesLeft(c)' < TriesLeft(c)
      PROVE  RequestsLeft(c)' < RequestsLeft(c)
  <2>1. (MaxAttempts - attempt[c]) * Round \in Nat
    BY <1>0
  <2> QED
    BY <1>0, <1>1, <1>2, <2>1
<1>3. CASE \E r \in Results : End(c, r)
  <2>1. pc'[c] = "done"
    BY <1>3, <1>t DEF End, DispatchTypeOK
  <2> QED
    BY <2>1 DEF Active
<1>4. CASE NotFound(c)
  <2>1. /\ pc[c] = "find" /\ pc'[c] = "post" /\ look' = look
        /\ attempt' = attempt
    BY <1>4, <1>t DEF NotFound, DispatchTypeOK
  <2>2. look[c].attempt \in Nat /\ ReceiptAttempts \in Nat
    BY <1>t DEF DispatchTypeOK, DispatchAssumption
  <2>3. TriesLeft(c)' < TriesLeft(c)
    BY <2>1, <2>2 DEF TriesLeft
  <2> QED
    BY <1>2, <2>1, <2>3
<1>5. ASSUME NEW wait \in Nat, LookAgain(c, wait)
      PROVE  RequestsLeft(c)' < RequestsLeft(c)
  <2>1. /\ look'[c].attempt = look[c].attempt + 1 /\ pc' = pc
        /\ attempt' = attempt
    BY <1>5, <1>t DEF LookAgain, DispatchTypeOK
  <2>2. look[c].attempt \in Nat /\ ReceiptAttempts \in Nat
    BY <1>t DEF DispatchTypeOK, DispatchAssumption
  <2>3. TriesLeft(c)' < TriesLeft(c)
    BY <2>1, <2>2 DEF TriesLeft
  <2> QED
    BY <1>2, <2>1, <2>3
<1>6. ASSUME NEW wait \in Nat, AttemptAgain(c, wait)
      PROVE  RequestsLeft(c)' < RequestsLeft(c)
  <2>1. attempt'[c] = attempt[c] + 1
    BY <1>6, <1>t DEF AttemptAgain, DispatchTypeOK
  <2>2. MaxAttempts - attempt'[c] < MaxAttempts - attempt[c]
    BY <1>0, <2>1
  <2> QED
    BY <1>0, <1>1, <2>2, AttemptPays
<1> QED
  BY <1>t, <1>3, <1>4, <1>5, <1>6, WorkSteps

(* A call ends: whatever GitHub answers, each of its requests brings it     *)
(* nearer to its end, by a measure bounded by the attempts of its post and  *)
(* of a lookup, and what other callers, GitHub and its runs do leaves the   *)
(* measure alone.                                                           *)
CallsNearEnd ==
  \A c \in Callers :
    Active(c) =>
      /\ RequestsLeft(c) \in 0..(MaxAttempts * Round)
      /\ Active(c)' => IF Work(c) THEN RequestsLeft(c)' < RequestsLeft(c)
                                  ELSE RequestsLeft(c)' = RequestsLeft(c)

THEOREM CallsComeToEnd == Spec => [][CallsNearEnd]_vars
<1> USE DispatchAssumption
<1>1. Init => CallCounted
  BY InitType
  DEF Init, CallCounted, SleptAccounted, LooksCounted, DispatchAssumption,
      FirstLook
<1>2. CallCounted /\ [Next]_vars => CallCounted'
  BY NextType, NextSlept, NextLooks DEF CallCounted
<1>3. CallCounted /\ CallCounted' /\ [Next]_vars => CallsNearEnd
  <2> SUFFICES ASSUME CallCounted, CallCounted', [Next]_vars,
                      NEW c \in Callers, Active(c)
               PROVE  /\ RequestsLeft(c) \in 0..(MaxAttempts * Round)
                      /\ Active(c)' =>
                           IF Work(c) THEN RequestsLeft(c)' < RequestsLeft(c)
                                      ELSE RequestsLeft(c)' = RequestsLeft(c)
    BY DEF CallsNearEnd
  <2>1. RequestsLeft(c) \in 0..(MaxAttempts * Round)
    BY RequestsLeftType
  <2>2. ASSUME Active(c)', Work(c) PROVE RequestsLeft(c)' < RequestsLeft(c)
    BY <2>2, RequestsFall
  <2>3. ASSUME Active(c)', ~Work(c) PROVE RequestsLeft(c)' = RequestsLeft(c)
    <3>1. /\ pc'[c] = pc[c] /\ attempt'[c] = attempt[c]
          /\ look'[c] = look[c]
      BY <2>3, OthersKeep DEF CallCounted
    <3> QED
      BY <3>1 DEF RequestsLeft, TriesLeft
  <2> QED
    BY <2>1, <2>2, <2>3
<1> QED
  BY <1>1, <1>2, <1>3, PTL DEF Spec
=============================================================================
