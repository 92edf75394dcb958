----------------------------- MODULE KvmImageCache -----------------------------
(***************************************************************************)
(* scripts/ensure-verified-kvm-image.sh: any number of invocations for one  *)
(* image.  Each takes the lock file, uses the cached image if its digest is  *)
(* right and otherwise downloads, verifies and moves a partial file in       *)
(* place.  curl inherits the lock: when its script is killed it keeps it.    *)
(***************************************************************************)
EXTENDS Naturals, FiniteSets

CONSTANT Fetchers   \* invocations with one --destination

VARIABLES
  cached,    \* the destination: "none", "good" or "bad" by its digest
  locks,     \* fetchers whose script or curl holds the lock file
  curls,     \* fetchers whose curl runs
  partial,   \* fetcher -> its partial file
  fetching,  \* fetcher -> the next step of its script
  ensured    \* fetchers that exited with 0

cacheVars == <<cached, locks, curls, partial, fetching, ensured>>

CacheTypeOK ==
  /\ cached \in {"none", "good", "bad"}
  /\ locks \subseteq Fetchers /\ curls \subseteq Fetchers /\ ensured \subseteq Fetchers
  /\ partial \in [Fetchers -> {"none", "some", "good", "bad"}]
  /\ fetching \in [Fetchers -> {"lock", "check", "curl", "verify", "move", "end"}]

CacheInit ==
  /\ cached \in {"none", "bad"} /\ locks = {} /\ curls = {} /\ ensured = {}
  /\ partial = [f \in Fetchers |-> "none"]
  /\ fetching = [f \in Fetchers |-> "lock"]

ScriptAt(f, here, there) == fetching[f] = here /\ fetching' = [fetching EXCEPT ![f] = there]

(* Mutant: no lock.                                                        *)
TakeLockMutant(f) ==
  /\ ScriptAt(f, "lock", "check")
  /\ locks' = locks \cup {f}
  /\ UNCHANGED <<cached, curls, partial, ensured>>

TakeLock(f) ==
  /\ ScriptAt(f, "lock", "check")
  /\ locks = {} /\ locks' = {f}
  /\ UNCHANGED <<cached, curls, partial, ensured>>

CacheHit(f) ==
  /\ ScriptAt(f, "check", "end")
  /\ cached = "good"
  /\ ensured' = ensured \cup {f} /\ locks' = locks \ {f}
  /\ UNCHANGED <<cached, curls, partial>>

StartCurl(f) ==
  /\ ScriptAt(f, "check", "curl")
  /\ cached # "good"
  /\ partial' = [partial EXCEPT ![f] = "some"] /\ curls' = curls \cup {f}
  /\ UNCHANGED <<cached, locks, ensured>>

(* A download may give up, or bring another image.                          *)
CurlEnds(f) ==
  /\ f \in curls /\ curls' = curls \ {f}
  /\ \E result \in {"some", "good", "bad"} :
       /\ partial' = [partial EXCEPT
            ![f] = IF fetching[f] = "curl" /\ result = "some" THEN "none" ELSE result]
       /\ IF fetching[f] = "curl" /\ result # "some"
          THEN ScriptAt(f, "curl", "verify") /\ UNCHANGED locks
          ELSE fetching' = [fetching EXCEPT ![f] = "end"] /\ locks' = locks \ {f}
  /\ UNCHANGED <<cached, ensured>>

(* The EXIT trap removes a partial file with the wrong digest.              *)
VerifyPartial(f) ==
  /\ \/ partial[f] = "good" /\ ScriptAt(f, "verify", "move") /\ UNCHANGED <<partial, locks>>
     \/ /\ partial[f] = "bad" /\ ScriptAt(f, "verify", "end")
        /\ partial' = [partial EXCEPT ![f] = "none"] /\ locks' = locks \ {f}
  /\ UNCHANGED <<cached, curls, ensured>>

MovePartial(f) ==
  /\ ScriptAt(f, "move", "end")
  /\ cached' = partial[f] /\ partial' = [partial EXCEPT ![f] = "none"]
  /\ ensured' = ensured \cup {f} /\ locks' = locks \ {f}
  /\ UNCHANGED curls

FetcherKilled(f) ==
  /\ fetching[f] # "end" /\ fetching' = [fetching EXCEPT ![f] = "end"]
  /\ locks' = IF f \in curls THEN locks ELSE locks \ {f}
  /\ UNCHANGED <<cached, curls, partial, ensured>>

CacheNext ==
  \E f \in Fetchers :
    \/ TakeLock(f) \/ CacheHit(f) \/ StartCurl(f) \/ CurlEnds(f) \/ VerifyPartial(f)
    \/ MovePartial(f) \/ FetcherKilled(f)

CacheSpec == CacheInit /\ [][CacheNext]_cacheVars

------------------------------------------------------------------------------
(* An invocation that exits with 0 leaves an image with the right digest,    *)
(* and nobody spoils it afterwards; one image is never downloaded twice at  *)
(* once, nor once more when it is there, also beside killed invocations and  *)
(* the curls they left behind.                                             *)
CacheInv ==
  /\ ensured # {} => cached = "good"
  /\ Cardinality(curls) <= 1
  /\ \A f \in Fetchers : f \in curls \/ fetching[f] \in {"curl", "verify", "move"} =>
       cached # "good" /\ locks = {f}
=============================================================================
