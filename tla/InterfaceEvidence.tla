---------------------------- MODULE InterfaceEvidence ----------------------------
(***************************************************************************)
(* scripts/capture_ce_interface_evidence.py: a capture asks Azure for the     *)
(* NICs of each node, one by one, binds the SLO to the first, and replaces    *)
(* first the JSON evidence, then the matrix made from it.  It may raise or be *)
(* killed anywhere; NICs may be swapped meanwhile; then another follows.      *)
(***************************************************************************)
EXTENDS Naturals, Sequences

CONSTANTS
  Nodes,         \* number of --node arguments
  MaxCaptures, MaxSwaps  \* bounds: captures into one --output-dir, NIC swaps

ASSUME EvidenceAssumption ==
  Nodes \in Nat \ {0} /\ MaxCaptures \in Nat /\ MaxSwaps \in Nat

VARIABLES
  attached,    \* Azure: node -> its NICs, in attachment order
  referenced,  \* nodes in the control-plane references of this capture
  captures,    \* captures begun
  node, listed, read, \* the node of this capture, its NICs listed, those read
  bindings,    \* node -> NIC bound to the SLO so far
  writing,     \* the capture's next step
  evidence,    \* securemesh-ce-interface-evidence.json
  matrix,      \* securemesh-ce-interface-matrix.md: the document it was made from
  swapsMade, swappedAt \* bound; history: nodes swapped during this capture

evidenceVars == <<attached, referenced, captures, node, listed, read, bindings, writing,
                  evidence, matrix, swapsMade, swappedAt>>

NicIds == {"nic1", "nic2"}
NoDocument == [by |-> 0, slo |-> <<>>, complete |-> FALSE]
Documents ==
  [by : 1..MaxCaptures, slo : [1..Nodes -> NicIds], complete : BOOLEAN]
    \cup {NoDocument}

EvidenceTypeOK ==
  /\ attached \in [1..Nodes -> {<<"nic1", "nic2">>, <<"nic2", "nic1">>}]
  /\ referenced \subseteq 1..Nodes /\ captures \in 0..MaxCaptures /\ node \in 0..Nodes
  /\ listed \in Seq(NicIds) /\ read \in 0..2 /\ bindings \in Seq(NicIds)
  /\ writing \in {"idle", "list", "read", "evidence", "matrix"}
  /\ evidence \in Documents /\ matrix \in Documents
  /\ swapsMade \in 0..MaxSwaps /\ swappedAt \subseteq 1..Nodes

EvidenceInit ==
  /\ attached = [n \in 1..Nodes |-> <<"nic1", "nic2">>]
  /\ referenced = {} /\ captures = 0 /\ node = 0 /\ listed = <<>> /\ read = 0
  /\ bindings = <<>> /\ writing = "idle"
  /\ evidence = NoDocument /\ matrix = NoDocument /\ swapsMade = 0 /\ swappedAt = {}

------------------------------------------------------------------------------
(* main: references to unknown nodes are refused.                            *)
BeginCapture ==
  /\ writing = "idle" /\ writing' = "list"
  /\ captures < MaxCaptures /\ captures' = captures + 1
  /\ referenced' \in SUBSET (1..Nodes)
  /\ node' = 1 /\ listed' = <<>> /\ read' = 0 /\ bindings' = <<>> /\ swappedAt' = {}
  /\ UNCHANGED <<attached, evidence, matrix, swapsMade>>

ListAttachments ==
  /\ writing = "list" /\ writing' = "read"
  /\ listed' = attached[node] /\ read' = 0
  /\ UNCHANGED <<attached, referenced, captures, node, bindings, evidence, matrix, swapsMade,
                 swappedAt>>

(* nic_inventory of the next NIC of the list; after the last the SLO is bound *)
(* to the first of the list.                                                *)
ReadNic ==
  /\ writing = "read"
  /\ IF read + 1 < Len(listed)
     THEN read' = read + 1 /\ UNCHANGED <<node, bindings, writing>>
     ELSE /\ read' = 0 /\ bindings' = Append(bindings, listed[1])
          /\ node' = IF node < Nodes THEN node + 1 ELSE 0
          /\ writing' = IF node < Nodes THEN "list" ELSE "evidence"
  /\ UNCHANGED <<attached, referenced, captures, listed, evidence, matrix, swapsMade,
                 swappedAt>>

Document ==
  [by |-> captures, slo |-> bindings, complete |-> referenced = 1..Nodes]

(* Mutant: the matrix comes first.                                         *)
WriteEvidenceMutant ==
  /\ writing = "evidence" /\ writing' = "matrix"
  /\ matrix' = Document
  /\ UNCHANGED <<attached, referenced, captures, node, listed, read, bindings, evidence,
                 swapsMade, swappedAt>>

(* atomic_write: a temporary file replaces the old one.                      *)
WriteEvidence ==
  /\ writing = "evidence" /\ writing' = "matrix"
  /\ evidence' = Document
  /\ UNCHANGED <<attached, referenced, captures, node, listed, read, bindings, matrix,
                 swapsMade, swappedAt>>

WriteMatrix ==
  /\ writing = "matrix" /\ writing' = "idle"
  /\ matrix' = Document
  /\ UNCHANGED <<attached, referenced, captures, node, listed, read, bindings, evidence,
                 swapsMade, swappedAt>>

CaptureDies ==
  /\ writing # "idle" /\ writing' = "idle"
  /\ UNCHANGED <<attached, referenced, captures, node, listed, read, bindings, evidence,
                 matrix, swapsMade, swappedAt>>

SwapNics ==
  /\ swapsMade < MaxSwaps /\ swapsMade' = swapsMade + 1
  /\ \E n \in 1..Nodes :
       /\ attached' = [attached EXCEPT ![n] = <<@[2], @[1]>>]
       /\ swappedAt' = swappedAt \cup {n}
  /\ UNCHANGED <<referenced, captures, node, listed, read, bindings, writing, evidence,
                 matrix>>

EvidenceNext ==
  \/ BeginCapture \/ ListAttachments \/ ReadNic \/ WriteEvidence \/ WriteMatrix
  \/ CaptureDies \/ SwapNics

EvidenceSpec == EvidenceInit /\ [][EvidenceNext]_evidenceVars

------------------------------------------------------------------------------
(* The matrix is never ahead of the evidence: it shows that document, or an   *)
(* older one if its capture died between the two files or is about to write  *)
(* the second; and the evidence of the running or last capture binds the SLO *)
(* of each node that stayed as it was since it began to its first NIC.       *)
MatrixFollows ==
  /\ matrix.by <= evidence.by
  /\ matrix.by = evidence.by => matrix = evidence
  /\ evidence.by = captures =>
       \A n \in 1..Len(evidence.slo) :
         n \notin swappedAt => evidence.slo[n] = attached[n][1]
=============================================================================
