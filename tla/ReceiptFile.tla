------------------------------ MODULE ReceiptFile ------------------------------
(***************************************************************************)
(* How scripts/kvm-lan-live-acceptance.py puts its receipt in place when    *)
(* several invocations name the same path: a private temporary file is      *)
(* written, synced and linked to the path, which fails if it is taken, the  *)
(* directory is synced and the temporary name removed.  Any call may fail,  *)
(* a process may be killed, the power may go once.                         *)
(***************************************************************************)
EXTENDS Naturals

CONSTANT Writers   \* invocations with one --receipt path

VARIABLES
  target,     \* the path: whose inode it names and what that says, or Free
  entrySafe,  \* the directory entry has reached the disk
  inode,      \* writer -> what its inode holds
  temporary,  \* writers whose temporary name exists
  says,       \* writer -> status of the receipt it writes
  call,       \* writer -> its next call
  code,       \* writer -> exit code
  powerLost   \* bound: the power goes once

receiptVars == <<target, entrySafe, inode, temporary, says, call, code, powerLost>>

Free == [by |-> "nobody", says |-> "nothing"]
Alive == 9   \* code of a writer that has not exited

ReceiptTypeOK ==
  /\ target \in [by : Writers, says : {"passed", "unproven", "error"}] \cup {Free}
  /\ entrySafe \in BOOLEAN /\ powerLost \in BOOLEAN /\ temporary \subseteq Writers
  /\ inode \in [Writers -> {"none", "empty", "written", "synced"}]
  /\ says \in [Writers -> {"nothing", "passed", "unproven", "error"}]
  /\ call \in [Writers -> {"collect", "check", "make", "write", "sync", "link",
                           "syncDirectory", "unlink", "abandon", "report", "exit",
                           "refuse", "gone"}]
  /\ code \in [Writers -> {0, 1, 2, Alive}]

ReceiptInit ==
  /\ target = Free /\ entrySafe = TRUE /\ temporary = {} /\ powerLost = FALSE
  /\ inode = [w \in Writers |-> "none"]
  /\ says = [w \in Writers |-> "nothing"]
  /\ call = [w \in Writers |-> "collect"]
  /\ code = [w \in Writers |-> Alive]

------------------------------------------------------------------------------
(* One invocation *)

Goes(w, here, there) == call[w] = here /\ call' = [call EXCEPT ![w] = there]

(* An error in main leads to the failure receipt, one in the failure receipt *)
(* to the end.                                                             *)
AfterError(w) == IF says[w] = "error" THEN "refuse" ELSE "report"

(* Verify mode evaluates to passed or failed, inventory mode to blocked -    *)
(* unproven, like failed - and both may raise.                             *)
Collect(w) ==
  /\ \/ /\ Goes(w, "collect", "check")
        /\ \E s \in {"passed", "unproven"} : says' = [says EXCEPT ![w] = s]
     \/ Goes(w, "collect", "report") /\ UNCHANGED says
  /\ UNCHANGED <<target, entrySafe, inode, temporary, code, powerLost>>

CheckTarget(w) ==
  /\ Goes(w, "check", IF target = Free THEN "make" ELSE AfterError(w))
  /\ UNCHANGED <<target, entrySafe, inode, temporary, says, code, powerLost>>

MakeTemporary(w) ==
  /\ \/ /\ Goes(w, "make", "write")
        /\ inode' = [inode EXCEPT ![w] = "empty"] /\ temporary' = temporary \cup {w}
     \/ Goes(w, "make", AfterError(w)) /\ UNCHANGED <<inode, temporary>>
  /\ UNCHANGED <<target, entrySafe, says, code, powerLost>>

WriteContent(w) ==
  /\ \/ Goes(w, "write", "sync") /\ inode' = [inode EXCEPT ![w] = "written"]
     \/ Goes(w, "write", "abandon") /\ UNCHANGED inode
  /\ UNCHANGED <<target, entrySafe, temporary, says, code, powerLost>>

(* Mutant: no fsync.                                                       *)
SyncContentMutant(w) ==
  /\ \/ Goes(w, "sync", "link") /\ UNCHANGED inode
     \/ Goes(w, "sync", "abandon") /\ UNCHANGED inode
  /\ UNCHANGED <<target, entrySafe, temporary, says, code, powerLost>>

SyncContent(w) ==
  /\ \/ Goes(w, "sync", "link") /\ inode' = [inode EXCEPT ![w] = "synced"]
     \/ Goes(w, "sync", "abandon") /\ UNCHANGED inode
  /\ UNCHANGED <<target, entrySafe, temporary, says, code, powerLost>>

(* Mutant: a rename, which replaces, instead of a link.                    *)
LinkTargetMutant(w) ==
  /\ \/ /\ Goes(w, "link", "syncDirectory")
        /\ target' = [by |-> w, says |-> says[w]] /\ entrySafe' = FALSE
     \/ Goes(w, "link", "abandon") /\ UNCHANGED <<target, entrySafe>>
  /\ UNCHANGED <<inode, temporary, says, code, powerLost>>

(* os.link does not replace what is there.                                  *)
LinkTarget(w) ==
  /\ \/ /\ Goes(w, "link", "syncDirectory")
        /\ target = Free
        /\ target' = [by |-> w, says |-> says[w]] /\ entrySafe' = FALSE
     \/ Goes(w, "link", "abandon") /\ UNCHANGED <<target, entrySafe>>
  /\ UNCHANGED <<inode, temporary, says, code, powerLost>>

SyncDirectory(w) ==
  /\ \/ Goes(w, "syncDirectory", "unlink") /\ entrySafe' = TRUE
     \/ Goes(w, "syncDirectory", "abandon") /\ UNCHANGED entrySafe
  /\ UNCHANGED <<target, inode, temporary, says, code, powerLost>>

Unlink(w) ==
  /\ \/ /\ Goes(w, "unlink", IF says[w] = "error" THEN "refuse" ELSE "exit")
        /\ temporary' = temporary \ {w}
     \/ Goes(w, "unlink", AfterError(w)) /\ UNCHANGED temporary
  /\ UNCHANGED <<target, entrySafe, inode, says, code, powerLost>>

(* finally: the temporary name goes with the error, too.                    *)
Abandon(w) ==
  /\ Goes(w, "abandon", AfterError(w))
  /\ temporary' \in {temporary, temporary \ {w}}
  /\ UNCHANGED <<target, entrySafe, inode, says, code, powerLost>>

(* The failure receipt is written only where no receipt is.                 *)
ReportFailure(w) ==
  /\ Goes(w, "report", IF target = Free THEN "check" ELSE "refuse")
  /\ says' = [says EXCEPT ![w] = "error"]
  /\ UNCHANGED <<target, entrySafe, inode, temporary, code, powerLost>>

Exit(w) ==
  /\ call[w] \in {"exit", "refuse"} /\ call' = [call EXCEPT ![w] = "gone"]
  /\ code' = [code EXCEPT ![w] = IF call[w] = "refuse" THEN 1
                                 ELSE IF says[w] = "passed" THEN 0 ELSE 2]
  /\ UNCHANGED <<target, entrySafe, inode, temporary, says, powerLost>>

WriterKilled(w) ==
  /\ call[w] # "gone" /\ call' = [call EXCEPT ![w] = "gone"]
  /\ UNCHANGED <<target, entrySafe, inode, temporary, says, code, powerLost>>

(* What was not synced is lost; invocations that had not begun begin later.  *)
PowerFails ==
  /\ ~powerLost /\ powerLost' = TRUE
  /\ call' = [w \in Writers |-> IF call[w] = "collect" THEN "collect" ELSE "gone"]
  /\ inode' = [w \in Writers |-> IF inode[w] = "written" THEN "empty" ELSE inode[w]]
  /\ \/ UNCHANGED target /\ entrySafe' = TRUE
     \/ ~entrySafe /\ target' = Free /\ entrySafe' = TRUE
  /\ UNCHANGED <<temporary, says, code>>

WriterActs(w) ==
  \/ Collect(w) \/ CheckTarget(w) \/ MakeTemporary(w) \/ WriteContent(w)
  \/ SyncContent(w) \/ LinkTarget(w) \/ SyncDirectory(w) \/ Unlink(w) \/ Abandon(w)
  \/ ReportFailure(w) \/ Exit(w) \/ WriterKilled(w)

ReceiptNext == PowerFails \/ \E w \in Writers : WriterActs(w)

ReceiptSpec == ReceiptInit /\ [][ReceiptNext]_receiptVars

------------------------------------------------------------------------------
(* Properties *)

(* A receipt is never replaced nor changed                                   *)
(* (docs/en/customer-edge/smsv2/kvm-lan-live-acceptance.mdx:28), whatever    *)
(* other invocations do; only the power may take it, and only before its    *)
(* writer has reported it.                                                 *)
ReceiptImmutable ==
  [][target # Free /\ target' # target =>
       target' = Free /\ powerLost' # powerLost /\ code[target.by] \notin {0, 2}]_receiptVars

(* Exit code 0 or 2 means that the receipt at the path is this invocation's  *)
(* own, passed with 0 and only then, complete and safe from a power         *)
(* failure, also when others wrote at the same time.                       *)
ExitTellsTruth ==
  \A w \in Writers : code[w] \in {0, 2} =>
    /\ target.by = w /\ inode[w] = "synced" /\ entrySafe
    /\ (code[w] = 0 <=> target.says = "passed")
    /\ target.says # "error"
=============================================================================
