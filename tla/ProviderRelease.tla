----------------------------- MODULE ProviderRelease -----------------------------
(***************************************************************************)
(* scripts/verify-showcase-provider.py, which showcase-lifecycle.sh runs      *)
(* before terraform init: downloads the pinned provider release into the      *)
(* private root and checks it against what GitHub, the Terraform Registry     *)
(* and the signature say.  Two lifecycles may have been given one private    *)
(* root; what is published may change; any command may fail.                 *)
(***************************************************************************)
EXTENDS Naturals

CONSTANT Verifiers   \* invocations with one --private-root

Assets == {"zip", "SHA256SUMS", "SHA256SUMS.sig"}

VARIABLES
  published,  \* assets and facts as pinned in the script, now
  files,      \* asset -> the file in the private root
  filling,    \* verifiers whose curl writes a file
  verifying,  \* verifier -> its next step
  recordRead, \* verifiers that read the publication record as it is pinned
  crossed,    \* history: verifier -> another one downloaded since it read the zip
  releasePassed  \* verifiers that wrote provider-release-receipt.json and returned 0

providerVars == <<published, files, filling, verifying, recordRead, crossed,
                  releasePassed>>

(* What is read online, and when: the publication receipt, the embedded API   *)
(* receipt, the registry and its signing key, the source tag, the workflow.  *)
Facts == {"release", "spec", "registry", "tag", "run"}

ProviderTypeOK ==
  /\ published \subseteq Assets \cup Facts
  /\ files \in [Assets -> {"none", "torn", "pinned", "other"}]
  /\ filling \subseteq Verifiers
  /\ verifying \in [Verifiers -> Facts \cup Assets \cup
       {"gpg", "sums", "receipt", "failed", "passed"}]
  /\ recordRead \subseteq Verifiers
  /\ crossed \in [Verifiers -> BOOLEAN] /\ releasePassed \subseteq Verifiers

ProviderInit ==
  /\ published = Assets \cup Facts
  /\ files = [a \in Assets |-> "none"] /\ filling = {}
  /\ verifying = [v \in Verifiers |-> "release"]
  /\ recordRead = {}
  /\ crossed = [v \in Verifiers |-> FALSE] /\ releasePassed = {}

------------------------------------------------------------------------------
Passes(v, here, there) ==
  verifying[v] = here /\ verifying' = [verifying EXCEPT ![v] = there]

(* gh release view: the record is compared only after the downloads.          *)
ReadRecord(v) ==
  /\ Passes(v, "release", "zip")
  /\ recordRead' = IF "release" \in published THEN recordRead \cup {v} ELSE recordRead
  /\ UNCHANGED <<published, files, filling, crossed, releasePassed>>

(* A fact that differs from the pinned one ends the program.                 *)
ReadFact(v) ==
  /\ \/ Passes(v, "registry", "gpg") /\ "registry" \in published
     \/ Passes(v, "tag", "run") /\ "tag" \in published
     \/ Passes(v, "run", "receipt") /\ "run" \in published
  /\ UNCHANGED <<published, files, filling, recordRead, crossed, releasePassed>>

(* curl truncates the file and fills it with what is published by then; while *)
(* another one fills the same file it stays torn.                            *)
Download(v) ==
  /\ verifying[v] \in Assets
  /\ LET a == verifying[v]
         others == {w \in filling \ {v} : verifying[w] = a}
     IN \/ /\ v \notin filling /\ filling' = filling \cup {v}
           /\ files' = [files EXCEPT ![a] = "torn"]
           /\ UNCHANGED verifying
        \/ /\ v \in filling /\ filling' = filling \ {v}
           /\ files' = [files EXCEPT ![a] = IF others # {} THEN "torn"
                                ELSE IF a \in published THEN "pinned" ELSE "other"]
           /\ verifying' = [verifying EXCEPT
                ![v] = IF a = "zip" THEN "SHA256SUMS"
                       ELSE IF a = "SHA256SUMS" THEN "SHA256SUMS.sig" ELSE "spec"]
  /\ crossed' = [w \in Verifiers |-> crossed[w] \/ w # v]
  /\ UNCHANGED <<published, recordRead, releasePassed>>

(* Mutant: the digest of the download is not compared.                     *)
ValidateIdentityMutant(v) ==
  /\ Passes(v, "spec", "registry")
  /\ v \in recordRead /\ "spec" \in published
  /\ crossed' = [crossed EXCEPT ![v] = FALSE]
  /\ UNCHANGED <<published, files, filling, recordRead, releasePassed>>

(* validate_identity: the record as it was read, the API receipt, and the zip  *)
(* as it is in the private root.                                             *)
ValidateIdentity(v) ==
  /\ Passes(v, "spec", "registry")
  /\ v \in recordRead /\ "spec" \in published /\ files["zip"] = "pinned"
  /\ crossed' = [crossed EXCEPT ![v] = FALSE]
  /\ UNCHANGED <<published, files, filling, recordRead, releasePassed>>

(* gpg reads the checksums, which are read again for the zip's line.          *)
VerifySignature(v) ==
  /\ \/ /\ Passes(v, "gpg", "sums")
        /\ files["SHA256SUMS"] = "pinned" /\ files["SHA256SUMS.sig"] = "pinned"
     \/ Passes(v, "sums", "tag") /\ files["SHA256SUMS"] = "pinned"
  /\ UNCHANGED <<published, files, filling, recordRead, crossed, releasePassed>>

WriteRelease(v) ==
  /\ Passes(v, "receipt", "passed")
  /\ releasePassed' = releasePassed \cup {v}
  /\ UNCHANGED <<published, files, filling, recordRead, crossed>>

(* A check refuses or a command fails; what was downloaded stays.             *)
VerifierFails(v) ==
  /\ verifying[v] \notin {"passed", "failed"}
  /\ verifying' = [verifying EXCEPT ![v] = "failed"] /\ filling' = filling \ {v}
  /\ UNCHANGED <<published, files, recordRead, crossed, releasePassed>>

PublicationMoves ==
  /\ published = Assets \cup Facts
  /\ \E x \in Assets \cup Facts : published' = published \ {x}
  /\ UNCHANGED <<files, filling, verifying, recordRead, crossed, releasePassed>>

ProviderNext ==
  \/ PublicationMoves
  \/ \E v \in Verifiers :
       ReadRecord(v) \/ ReadFact(v) \/ Download(v) \/ ValidateIdentity(v) \/ VerifySignature(v)
         \/ WriteRelease(v) \/ VerifierFails(v)

ProviderSpec == ProviderInit /\ [][ProviderNext]_providerVars

------------------------------------------------------------------------------
(* A verifier that passed leaves the pinned zip, with signed checksums, in    *)
(* the private root for terraform's scope checks, also if the publication    *)
(* changed while it downloaded - unless another one has downloaded there     *)
(* since it read the zip.                                                   *)
ProviderPinned ==
  \A v \in releasePassed : ~crossed[v] => \A a \in Assets : files[a] = "pinned"
=============================================================================
