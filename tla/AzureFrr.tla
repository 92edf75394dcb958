-------------------------------- MODULE AzureFrr --------------------------------
(***************************************************************************)
(* terraform/modules/azure-frr/vip_translation.py on one router: systemd    *)
(* runs it again and again, never twice at once.  A run asks FRR for the   *)
(* paths to the virtual address and edits the NAT table one iptables call   *)
(* at a time; any call may fail and end the run where it is.               *)
(***************************************************************************)
EXTENDS Naturals, Sequences

CONSTANTS
  Backends,        \* ce_ips, numbered in the order sorted() gives them
  MaxFrrMoves,     \* bound: changes of the learned paths and restarts
  MaxFrrDeaths     \* bound: failed calls of all runs

ASSUME FrrAssumption ==
  Backends \subseteq Nat \ {0} /\ MaxFrrMoves \in Nat /\ MaxFrrDeaths \in Nat

VARIABLES
  paths,    \* FRR: edges with a valid path whose next hop is in use
  chainMade,     \* NAT table: the chain MCN_VIP exists
  jump,     \* NAT table: PREROUTING jumps to it
  chain,    \* NAT table: the backends of its DNAT rules, in order
  snat,     \* NAT table: edges with a SNAT rule in POSTROUTING
  backendShown,\* backend in /run/mcn-vip-translation.json, NoBackend for null
  frrAt,    \* the next call of the run, "idle" between two runs
  eligible, \* eligible_backends of the last run that got so far
  frrMoves, frrDeaths  \* bounds only

natTable == <<chainMade, jump, chain, snat>>
frrVars == <<paths, natTable, backendShown, frrAt, eligible, frrMoves, frrDeaths>>

NoBackend == 0
FirstOf(S) == CHOOSE e \in S : \A f \in S : e <= f
Target == IF eligible = {} THEN NoBackend ELSE FirstOf(eligible)

(* The first rule that matches decides.                                     *)
Forward == IF jump /\ chain # <<>> THEN chain[1] ELSE NoBackend

FrrTypeOK ==
  /\ paths \subseteq Backends /\ eligible \subseteq Backends /\ snat \subseteq Backends
  /\ chainMade \in BOOLEAN /\ jump \in BOOLEAN /\ chain \in Seq(Backends)
  /\ backendShown \in Backends \cup {NoBackend}
  /\ frrAt \in {"idle", "chain", "jump", "compare", "append", "snat"}
  /\ frrMoves \in 0..MaxFrrMoves /\ frrDeaths \in 0..MaxFrrDeaths

FrrInit ==
  /\ paths = {} /\ eligible = {} /\ backendShown = NoBackend /\ frrAt = "idle"
  /\ chainMade = FALSE /\ jump = FALSE /\ chain = <<>> /\ snat = {}
  /\ frrMoves = 0 /\ frrDeaths = 0

------------------------------------------------------------------------------
(* The run, call by call *)

CallAt(here, there) == frrAt = here /\ frrAt' = there

(* A vtysh call that fails, or an answer eligible_backends rejects, means  *)
(* no eligible edge: the run goes on.                                      *)
ObservePaths ==
  /\ CallAt("idle", "chain")
  /\ \/ eligible' = paths /\ UNCHANGED frrDeaths
     \/ frrDeaths < MaxFrrDeaths /\ frrDeaths' = frrDeaths + 1 /\ eligible' = {}
  /\ UNCHANGED <<paths, natTable, backendShown, frrMoves>>

(* iptables -N is not checked: its usual failure is that the chain exists. *)
MakeChain ==
  /\ CallAt("chain", "jump")
  /\ \/ chainMade' = TRUE /\ UNCHANGED frrDeaths
     \/ frrDeaths < MaxFrrDeaths /\ frrDeaths' = frrDeaths + 1 /\ UNCHANGED chainMade
  /\ UNCHANGED <<paths, jump, chain, snat, backendShown, eligible, frrMoves>>

EnsureJump ==
  /\ CallAt("jump", "compare")
  /\ chainMade
  /\ jump' = TRUE
  /\ UNCHANGED <<paths, chainMade, chain, snat, backendShown, eligible, frrMoves, frrDeaths>>

ExpectedRules == IF Target = NoBackend THEN <<>> ELSE <<Target>>

(* Mutant: the rule is replaced in place.                                  *)
CompareRulesInPlaceMutant ==
  /\ frrAt = "compare"
  /\ \/ chain = ExpectedRules /\ frrAt' = "snat" /\ UNCHANGED chain
     \/ chain # ExpectedRules /\ frrAt' = "snat" /\ chain' = ExpectedRules
  /\ UNCHANGED <<paths, chainMade, jump, snat, backendShown, eligible, frrMoves, frrDeaths>>

(* Mutant: a chain that has a rule is left alone.                          *)
CompareRulesMutant ==
  /\ frrAt = "compare"
  /\ \/ (chain = ExpectedRules \/ chain # <<>>) /\ frrAt' = "snat" /\ UNCHANGED chain
     \/ /\ chain # ExpectedRules /\ chain = <<>> /\ chain' = <<>>
        /\ frrAt' = IF Target = NoBackend THEN "snat" ELSE "append"
  /\ UNCHANGED <<paths, chainMade, jump, snat, backendShown, eligible, frrMoves, frrDeaths>>

(* Compares the rules with the one expected, and flushes the chain if they  *)
(* differ.                                                                 *)
CompareRules ==
  /\ frrAt = "compare"
  /\ \/ chain = ExpectedRules /\ frrAt' = "snat" /\ UNCHANGED chain
     \/ /\ chain # ExpectedRules /\ chain' = <<>>
        /\ frrAt' = IF Target = NoBackend THEN "snat" ELSE "append"
  /\ UNCHANGED <<paths, chainMade, jump, snat, backendShown, eligible, frrMoves, frrDeaths>>

AppendRule ==
  /\ CallAt("append", "snat")
  /\ chain' = Append(chain, Target)
  /\ UNCHANGED <<paths, chainMade, jump, snat, backendShown, eligible, frrMoves, frrDeaths>>

EnsureSnat ==
  /\ CallAt("snat", "snat")
  /\ \E e \in Backends \ snat : snat' = snat \cup {e}
  /\ UNCHANGED <<paths, chainMade, jump, chain, backendShown, eligible, frrMoves, frrDeaths>>

PublishBackend ==
  /\ CallAt("snat", "idle")
  /\ snat = Backends
  /\ backendShown' = Target
  /\ UNCHANGED <<paths, natTable, eligible, frrMoves, frrDeaths>>

(* Without a chain the jump cannot be added, and the run ends.              *)
JumpRefused ==
  /\ CallAt("jump", "idle")
  /\ ~chainMade
  /\ UNCHANGED <<paths, natTable, backendShown, eligible, frrMoves, frrDeaths>>

(* A checked call returns an error, or any call takes 15 seconds.           *)
RunDies ==
  /\ frrAt # "idle" /\ frrAt' = "idle"
  /\ frrDeaths < MaxFrrDeaths /\ frrDeaths' = frrDeaths + 1
  /\ UNCHANGED <<paths, natTable, backendShown, eligible, frrMoves>>

Converge ==
  \/ ObservePaths \/ MakeChain \/ EnsureJump \/ CompareRules \/ AppendRule \/ EnsureSnat
  \/ PublishBackend \/ JumpRefused

(* Around it: paths come and go, and the router restarts with an empty NAT   *)
(* table.                                                                  *)
PathsMove ==
  /\ frrMoves < MaxFrrMoves /\ frrMoves' = frrMoves + 1
  /\ paths' \in SUBSET Backends \ {paths}
  /\ UNCHANGED <<natTable, backendShown, frrAt, eligible, frrDeaths>>

RouterRestarts ==
  /\ frrMoves < MaxFrrMoves /\ frrMoves' = frrMoves + 1
  /\ chainMade' = FALSE /\ jump' = FALSE /\ chain' = <<>> /\ snat' = {}
  /\ paths' = {} /\ backendShown' = NoBackend /\ frrAt' = "idle"
  /\ UNCHANGED <<eligible, frrDeaths>>

FrrNext == Converge \/ RunDies \/ PathsMove \/ RouterRestarts

FrrSpec == FrrInit /\ [][FrrNext]_frrVars /\ WF_frrVars(Converge)

------------------------------------------------------------------------------
(* Properties *)

(* The router implements the abstract relay: whichever call of a run fails,  *)
(* traffic goes to the first edge the last observation found, or nowhere,   *)
(* and never straight from one edge to another.  (The chain is emptied      *)
(* before a rule is added, and the jump precedes both.)                    *)
Relay == INSTANCE VipRelay WITH Edges <- Backends, learned <- paths, heard <- eligible, forward <- Forward
RelayRefines == Relay!Spec

(* The NAT table never holds two backends, and never a rule that traffic     *)
(* cannot reach: the jump is there before the rule.  A run that has compared *)
(* the rules leaves the one for what it found itself.                      *)
TableInv ==
  /\ Len(chain) <= 1
  /\ chain # <<>> => jump
  /\ jump => chainMade
  /\ frrAt = "append" => jump /\ chain = <<>> /\ eligible # {}
  /\ frrAt = "compare" => jump
  /\ frrAt = "snat" => chain = ExpectedRules

(* The rule is never edited: a step that changes the chain empties it, or     *)
(* puts into the empty chain the first edge that this very run found        *)
(* eligible, with the jump in place.                                       *)
RuleStep ==
  chain' # chain =>
    \/ chain' = <<>>
    \/ /\ chain = <<>> /\ jump /\ jump' /\ eligible # {}
       /\ chain' = <<FirstOf(eligible)>>

(* Once the paths stay as they are and calls stop failing, the router       *)
(* serves the first learned edge, or none without one, returns its answers  *)
(* through every edge's SNAT rule, and says so in its status file.          *)
RelayFollows ==
  <>[](/\ Forward = IF paths = {} THEN NoBackend ELSE FirstOf(paths)
       /\ snat = Backends /\ backendShown = Forward)
=============================================================================
