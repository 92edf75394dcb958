-------------------------------- MODULE LanClient --------------------------------
(***************************************************************************)
(* scripts/verify-kvm-lan-client.py: verifications with one --evidence-dir.   *)
(* Each must create that directory, reads the Terraform outputs, the host and *)
(* the independent client one after the other, asks the virtual address ten   *)
(* times and writes its summary.  What it reads may change meanwhile.         *)
(***************************************************************************)
EXTENDS Naturals

CONSTANTS
  Verifications,  \* invocations with one --evidence-dir
  Samples,        \* requests to the virtual address, 10
  MaxLanMoves,    \* bound: changes of what is read
  NoVerification

ASSUME LanClientAssumption ==
  Samples \in Nat \ {0} /\ MaxLanMoves \in Nat /\ NoVerification \notin Verifications

(* What each step needs, in the order of main.                               *)
LanFacts == {"contract", "status", "host", "client", "dns", "origin", "vip"}

(* The steps behind the last look at a fact, or at the default route.        *)
Behind(fact) ==
  CASE fact = "contract" -> {"contract", "host", "route", "client", "dns", "origin", "vip",
                             "after", "summary", "passed"}
    [] fact = "status" -> {"host", "route", "client", "dns", "origin", "vip", "after",
                           "summary", "passed"}
    [] fact = "host" -> {"route", "client", "dns", "origin", "vip", "after", "summary",
                         "passed"}
    [] fact = "client" -> {"dns", "origin", "vip", "after", "summary", "passed"}
    [] fact = "dns" -> {"origin", "vip", "after", "summary", "passed"}
    [] fact = "origin" -> {"vip", "after", "summary", "passed"}
    [] fact = "vip" -> {"after", "summary", "passed"}
    [] fact = "route" -> {"summary", "passed"}

VARIABLES
  lanFacts,     \* facts that hold now
  defaultRoute, \* the client's default route
  lanMoves,     \* bound
  checking,     \* verification -> its next step
  routeBefore,  \* verification -> the default route read first
  samples,      \* verification -> requests answered
  evidenceDir,  \* the verification that created the directory, or NoVerification
  summaryFile,  \* those that wrote summary.json
  partSummary,  \* those that failed while they wrote it
  movedAfter    \* history: verification -> facts that changed after its look at them

lanClientVars == <<lanFacts, defaultRoute, lanMoves, checking, routeBefore, samples,
                   evidenceDir, summaryFile, partSummary, movedAfter>>

LanClientTypeOK ==
  /\ lanFacts \subseteq LanFacts /\ defaultRoute \in 0..1 /\ lanMoves \in 0..MaxLanMoves
  /\ checking \in [Verifications -> {"begin", "outputs", "contract", "host", "route",
       "client", "dns", "origin", "vip", "after", "summary", "passed", "failed"}]
  /\ routeBefore \in [Verifications -> 0..1]
  /\ samples \in [Verifications -> 0..Samples]
  /\ evidenceDir \in Verifications \cup {NoVerification}
  /\ summaryFile \subseteq Verifications /\ partSummary \subseteq Verifications
  /\ movedAfter \in [Verifications -> SUBSET (LanFacts \cup {"route"})]

LanClientInit ==
  /\ lanFacts = LanFacts /\ defaultRoute = 0 /\ lanMoves = 0
  /\ checking = [v \in Verifications |-> "begin"]
  /\ routeBefore = [v \in Verifications |-> 0]
  /\ samples = [v \in Verifications |-> 0]
  /\ evidenceDir = NoVerification /\ summaryFile = {} /\ partSummary = {}
  /\ movedAfter = [v \in Verifications |-> {}]

------------------------------------------------------------------------------
LanStep(v, here, there) ==
  checking[v] = here /\ checking' = [checking EXCEPT ![v] = there]

(* Mutant: exist_ok=True.                                                  *)
MakeDirectoryMutant(v) ==
  /\ LanStep(v, "begin", "outputs")
  /\ evidenceDir' = v
  /\ UNCHANGED <<lanFacts, defaultRoute, lanMoves, routeBefore, samples, summaryFile,
                 partSummary, movedAfter>>

(* mkdir(exist_ok=False)                                                     *)
MakeDirectory(v) ==
  /\ LanStep(v, "begin", "outputs")
  /\ evidenceDir = NoVerification /\ evidenceDir' = v
  /\ UNCHANGED <<lanFacts, defaultRoute, lanMoves, routeBefore, samples, summaryFile,
                 partSummary, movedAfter>>

(* A fact that does not hold ends the program with an error.                 *)
CheckFact(v) ==
  /\ \/ LanStep(v, "outputs", "contract") /\ "contract" \in lanFacts
     \/ LanStep(v, "contract", "host") /\ "status" \in lanFacts
     \/ LanStep(v, "host", "route") /\ "host" \in lanFacts
     \/ LanStep(v, "client", "dns") /\ "client" \in lanFacts
     \/ LanStep(v, "dns", "origin") /\ "dns" \in lanFacts
     \/ LanStep(v, "origin", "vip") /\ "origin" \in lanFacts
  /\ UNCHANGED <<lanFacts, defaultRoute, lanMoves, routeBefore, samples, evidenceDir,
                 summaryFile, partSummary, movedAfter>>

RouteBefore(v) ==
  /\ LanStep(v, "route", "client")
  /\ routeBefore' = [routeBefore EXCEPT ![v] = defaultRoute]
  /\ UNCHANGED <<lanFacts, defaultRoute, lanMoves, samples, evidenceDir, summaryFile,
                 partSummary, movedAfter>>

(* One of the requests to the virtual address.                               *)
SampleVip(v) ==
  /\ LanStep(v, "vip", IF samples[v] + 1 < Samples THEN "vip" ELSE "after")
  /\ "vip" \in lanFacts
  /\ samples' = [samples EXCEPT ![v] = @ + 1]
  /\ UNCHANGED <<lanFacts, defaultRoute, lanMoves, routeBefore, evidenceDir, summaryFile,
                 partSummary, movedAfter>>

RouteAfter(v) ==
  /\ LanStep(v, "after", "summary")
  /\ defaultRoute = routeBefore[v]
  /\ UNCHANGED <<lanFacts, defaultRoute, lanMoves, routeBefore, samples, evidenceDir,
                 summaryFile, partSummary, movedAfter>>

WriteSummary(v) ==
  /\ LanStep(v, "summary", "passed")
  /\ summaryFile' = summaryFile \cup {v}
  /\ UNCHANGED <<lanFacts, defaultRoute, lanMoves, routeBefore, samples, evidenceDir,
                 partSummary, movedAfter>>

(* write_text creates the file and may fail before the whole of it is there. *)
SummaryFails(v) ==
  /\ LanStep(v, "summary", "failed")
  /\ partSummary' = partSummary \cup {v}
  /\ UNCHANGED <<lanFacts, defaultRoute, lanMoves, routeBefore, samples, evidenceDir,
                 summaryFile, movedAfter>>

(* A check, a command or its timeout; the directory stays.                   *)
VerificationFails(v) ==
  /\ checking[v] \notin {"passed", "failed"}
  /\ checking' = [checking EXCEPT ![v] = "failed"]
  /\ UNCHANGED <<lanFacts, defaultRoute, lanMoves, routeBefore, samples, evidenceDir,
                 summaryFile, partSummary, movedAfter>>

MovedAfter(fact) ==
  movedAfter' = [v \in Verifications |->
                   IF checking[v] \in Behind(fact) THEN movedAfter[v] \cup {fact}
                   ELSE movedAfter[v]]

LanMoves ==
  /\ lanMoves < MaxLanMoves /\ lanMoves' = lanMoves + 1
  /\ \/ /\ \E f \in LanFacts :
             /\ lanFacts' = IF f \in lanFacts THEN lanFacts \ {f} ELSE lanFacts \cup {f}
             /\ MovedAfter(f)
        /\ UNCHANGED defaultRoute
     \/ defaultRoute' = 1 - defaultRoute /\ MovedAfter("route") /\ UNCHANGED lanFacts
  /\ UNCHANGED <<checking, routeBefore, samples, evidenceDir, summaryFile, partSummary>>

LanClientNext ==
  \/ LanMoves
  \/ \E v \in Verifications :
       \/ MakeDirectory(v) \/ CheckFact(v) \/ RouteBefore(v) \/ SampleVip(v)
       \/ RouteAfter(v) \/ WriteSummary(v) \/ SummaryFails(v) \/ VerificationFails(v)

LanClientSpec == LanClientInit /\ [][LanClientNext]_lanClientVars

------------------------------------------------------------------------------
(* A whole summary is the only one its directory ever gets: of the            *)
(* verification that created it and passed, which answered every request; one *)
(* that failed leaves none, at most a part of one.  What the summary tells is  *)
(* still so, the default route of the client too, but for what changed after  *)
(* that verification last looked at it.                                      *)
SummaryTrue ==
  /\ \A v \in partSummary : checking[v] = "failed" /\ evidenceDir = v /\ summaryFile = {}
  /\ \A v \in summaryFile :
       /\ summaryFile = {v} /\ evidenceDir = v /\ samples[v] = Samples
       /\ checking[v] = "passed" /\ LanFacts \ movedAfter[v] \subseteq lanFacts
       /\ "route" \notin movedAfter[v] => defaultRoute = routeBefore[v]
=============================================================================
