------------------------------ MODULE GitHubRetry ------------------------------
(***************************************************************************)
(* scripts/github-api-resilience.cjs: what retryGitHub makes of an error.  *)
(* An error is what classifyGitHubError reads of it; reset is in seconds   *)
(* from now.                                                               *)
(***************************************************************************)
EXTENDS Integers

None == -100   \* a header that is absent or not a number

(* code: "network" for ECONNRESET, ETIMEDOUT, EAI_AGAIN and ENETUNREACH,    *)
(* "unmodified" for the tag requestGitHubApi puts on a GET answered by 304. *)
Error(status, retryAfter, remaining, reset, message, code) ==
  [status |-> status, retryAfter |-> retryAfter, remaining |-> remaining,
   reset |-> reset, message |-> message, code |-> code]

Secondary(e) ==
  e.retryAfter # None \/ e.message = "secondary"
    \/ (e.status = 429 /\ e.remaining # 0)

Primary(e) == ~Secondary(e) /\ (e.remaining = 0 \/ e.message = "primary")

Transient(e) ==
  /\ ~Secondary(e) /\ ~Primary(e)
  /\ \/ e.code \in {"unmodified", "network"}
     \/ e.status \in {408, 429, 500, 502, 503, 504}

Retryable(e) == Secondary(e) \/ Primary(e) \/ Transient(e)

Least(m, n) == IF m <= n THEN m ELSE n
Greatest(m, n) == IF m >= n THEN m ELSE n

(* 2 ** (attempt - 1); both back-offs have met their maximum by the fifth.  *)
Doubled(attempt) ==
  CASE attempt <= 1 -> 1
    [] attempt = 2 -> 2
    [] attempt = 3 -> 4
    [] attempt = 4 -> 8
    [] OTHER -> 16

(* Mutant: a reset that has passed is waited for.                           *)
WaitSecondsMutant(e, attempt, jitter) ==
  jitter + IF Primary(e)
             THEN IF e.reset = None THEN 60 ELSE e.reset + 5
           ELSE IF Secondary(e)
             THEN IF e.retryAfter # None THEN e.retryAfter
                                         ELSE Least(600, 60 * Doubled(attempt))
           ELSE Least(60, 5 * Doubled(attempt))

WaitSeconds(e, attempt, jitter) ==
  jitter + IF Primary(e)
             THEN IF e.reset = None THEN 60 ELSE Greatest(1, e.reset + 5)
           ELSE IF Secondary(e)
             THEN IF e.retryAfter # None THEN e.retryAfter
                                         ELSE Least(600, 60 * Doubled(attempt))
           ELSE Least(60, 5 * Doubled(attempt))

(* A primary limit whose reset is unknown is looked up, without a retry of  *)
(* its own: `rate` is the error of that request, or holds the reset.        *)
LookedUp(e, rate) ==
  IF Primary(e) /\ e.reset = None THEN [e EXCEPT !.reset = rate.reset] ELSE e

LookupFails(e, rate) == Primary(e) /\ e.reset = None /\ rate.status # 200

(* Mutant: a wait is compared with the budget, not what it adds up to.      *)
ExhaustedMutant(wait, attempt, waited, attempts, budget) ==
  attempt >= attempts \/ wait > budget

Exhausted(wait, attempt, waited, attempts, budget) ==
  attempt >= attempts \/ waited + wait > budget

(* The catch block of retryGitHub: throw this error, give up with exit code *)
(* 84, or wait and try again.                                               *)
Verdict(e, rate, jitter, attempt, waited, attempts, budget) ==
  LET wait == WaitSeconds(LookedUp(e, rate), attempt, jitter)
  IN  IF ~Retryable(e) THEN [end |-> "throw", error |-> e, wait |-> 0]
      ELSE IF LookupFails(e, rate)
        THEN [end |-> "throw", error |-> rate, wait |-> 0]
      ELSE IF Exhausted(wait, attempt, waited, attempts, budget)
        THEN [end |-> "deferred", error |-> e, wait |-> 0]
      ELSE [end |-> "again", error |-> e, wait |-> wait]
=============================================================================
