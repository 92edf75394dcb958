----------------------------- MODULE TrafficReceipt -----------------------------
(***************************************************************************)
(* scripts/smsv2_traffic_receipt.py: an attempt under an evidence label     *)
(* sends one request per scheme from the fixture client, fetches the        *)
(* origin's log and writes the receipt beside the logs it was made from.     *)
(* It may raise or be killed anywhere; then another attempt follows.        *)
(***************************************************************************)
EXTENDS Naturals

CONSTANT MaxAttempts   \* bound: attempts with one --evidence and --label

ASSUME AttemptsAssumption == MaxAttempts \in Nat

VARIABLES
  attempt, doing, \* the last attempt and its next step
  expected,   \* scheme -> --http and --https
  routeOk,    \* ce_default_route_verified
  reply,      \* scheme -> what the client saw
  reached,    \* origin: this attempt's requests in its log
  clientLogs, \* scheme -> attempt whose client log is on disk
  originLog,  \* attempt whose copy of the origin's log is on disk, its requests there
  certs,      \* attempts whose certificate file is on the client
  receipt     \* the label's receipt: attempt, whether it is whole, its verdict

trafficVars == <<attempt, doing, expected, routeOk, reply, reached, clientLogs, originLog,
                 certs, receipt>>

Schemes == {"http", "https"}
NoReceipt == [by |-> 0, whole |-> FALSE, accepted |-> FALSE]

TrafficTypeOK ==
  /\ attempt \in 0..MaxAttempts
  /\ doing \in {"route", "cert", "http", "https", "remove", "fetch", "open", "fill", "end"}
  /\ expected \in [Schemes -> {"allow", "deny"}] /\ routeOk \in BOOLEAN
  /\ reply \in [Schemes -> {"none", "served", "timeout", "other"}]
  /\ reached \subseteq Schemes
  /\ clientLogs \in [Schemes -> 0..MaxAttempts] /\ certs \subseteq 1..MaxAttempts
  /\ originLog \in [by : 0..MaxAttempts, cases : SUBSET Schemes]
  /\ receipt \in [by : 0..MaxAttempts, whole : BOOLEAN, accepted : BOOLEAN]

TrafficInit ==
  /\ attempt = 0 /\ doing = "end" /\ routeOk = FALSE
  /\ expected \in [Schemes -> {"allow", "deny"}]
  /\ reply = [s \in Schemes |-> "none"] /\ reached = {} /\ certs = {}
  /\ clientLogs = [s \in Schemes |-> 0] /\ originLog = [by |-> 0, cases |-> {}]
  /\ receipt = NoReceipt

------------------------------------------------------------------------------
Does(here, there) == doing = here /\ doing' = there

(* Mutant: a label that has a receipt gets another attempt.                *)
BeginAttemptMutant ==
  /\ Does("end", "route")
  /\ attempt < MaxAttempts /\ attempt' = attempt + 1
  /\ reply' = [s \in Schemes |-> "none"] /\ reached' = {}
  /\ UNCHANGED <<expected, routeOk, clientLogs, originLog, certs, receipt>>

(* main: a label that has a receipt is refused, to preserve the first        *)
(* attempt.                                                                *)
BeginAttempt ==
  /\ Does("end", "route")
  /\ attempt < MaxAttempts /\ attempt' = attempt + 1
  /\ receipt = NoReceipt
  /\ reply' = [s \in Schemes |-> "none"] /\ reached' = {}
  /\ UNCHANGED <<expected, routeOk, clientLogs, originLog, certs, receipt>>

RouteToCe ==
  /\ Does("route", "cert")
  /\ routeOk' \in BOOLEAN
  /\ UNCHANGED <<attempt, expected, reply, reached, clientLogs, originLog, certs, receipt>>

(* The certificate goes into a temporary file on the client; until the file  *)
(* is filled nothing would remove it.                                      *)
PutCertificate ==
  /\ Does("cert", "http") \/ Does("cert", "end")
  /\ certs' = certs \cup {attempt}
  /\ UNCHANGED <<attempt, expected, routeOk, reply, reached, clientLogs, originLog, receipt>>

(* One request of client_requests.  A request that timed out may still have  *)
(* reached the origin.                                                     *)
ClientRequest(s) ==
  /\ Does(s, IF s = "http" THEN "https" ELSE "remove")
  /\ \E r \in {"served", "timeout", "other"}, logged \in BOOLEAN :
       /\ r = "served" => logged
       /\ reply' = [reply EXCEPT ![s] = r]
       /\ reached' = IF logged THEN reached \cup {s} ELSE reached
  /\ clientLogs' = [clientLogs EXCEPT ![s] = attempt]
  /\ UNCHANGED <<attempt, expected, routeOk, originLog, certs, receipt>>

(* finally: also when a request raised; it may fail itself.                 *)
RemoveCertificate ==
  /\ \/ Does("remove", "fetch") /\ certs' = certs \ {attempt}
     \/ doing \in Schemes \cup {"remove"} /\ doing' = "end"
        /\ certs' \in {certs, certs \ {attempt}}
  /\ UNCHANGED <<attempt, expected, routeOk, reply, reached, clientLogs, originLog, receipt>>

FetchOriginLog ==
  /\ Does("fetch", "open")
  /\ originLog' = [by |-> attempt, cases |-> reached]
  /\ UNCHANGED <<attempt, expected, routeOk, reply, reached, clientLogs, certs, receipt>>

(* accepted: an allowed request was answered and logged once, a denied one   *)
(* timed out and was not logged, and one was allowed as a control.          *)
Accepted ==
  /\ routeOk
  /\ \A s \in Schemes :
       \/ expected[s] = "allow" /\ reply[s] = "served" /\ s \in originLog.cases
       \/ expected[s] = "deny" /\ reply[s] = "timeout" /\ s \notin originLog.cases
  /\ \E s \in Schemes : expected[s] = "allow"

(* write_text opens the file, then fills it.                                *)
OpenReceipt ==
  /\ Does("open", "fill")
  /\ receipt' = [by |-> attempt, whole |-> FALSE, accepted |-> Accepted]
  /\ UNCHANGED <<attempt, expected, routeOk, reply, reached, clientLogs, originLog, certs>>

FillReceipt ==
  /\ Does("fill", "end")
  /\ receipt' = [receipt EXCEPT !.whole = TRUE]
  /\ UNCHANGED <<attempt, expected, routeOk, reply, reached, clientLogs, originLog, certs>>

(* An ssh, aws or az call raises outside the try block, or a signal kills.   *)
AttemptDies ==
  /\ doing # "end" /\ doing' = "end"
  /\ UNCHANGED <<attempt, expected, routeOk, reply, reached, clientLogs, originLog, certs,
                 receipt>>

TrafficNext ==
  \/ BeginAttempt \/ RouteToCe \/ PutCertificate \/ RemoveCertificate
  \/ FetchOriginLog \/ OpenReceipt \/ FillReceipt \/ AttemptDies
  \/ \E s \in Schemes : ClientRequest(s)

TrafficSpec == TrafficInit /\ [][TrafficNext]_trafficVars

------------------------------------------------------------------------------
(* Properties *)

(* The logs beside a receipt, torn or whole, are those it was made from,     *)
(* also after attempts that died and later ones under the same label: the   *)
(* origin log beside an accepted receipt holds its allowed requests, at      *)
(* least one, and none of its denied ones.                                 *)
EvidenceMatches ==
  receipt # NoReceipt =>
    /\ originLog.by = receipt.by /\ \A s \in Schemes : clientLogs[s] = receipt.by
    /\ receipt.accepted =>
         originLog.cases # {} /\ originLog.cases = {s \in Schemes : expected[s] = "allow"}
=============================================================================
