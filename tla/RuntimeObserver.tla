----------------------------- MODULE RuntimeObserver -----------------------------
(***************************************************************************)
(* The two external data programs that Terraform runs while it applies:     *)
(* terraform/scripts/xc-kvm-bgp-observer.py waits for one BGP session,       *)
(* xc-azure-runtime-interfaces.py for a provisioned node whose NICs it joins *)
(* to the three Azure NICs.  Both look, judge, sleep and look again until   *)
(* their deadline.  Time is counted in ticks.                              *)
(***************************************************************************)
EXTENDS Naturals, Sequences, FiniteSets

CONSTANTS
  Observers,     \* subset of {"bgp", "nic"}: the programs run
  Timeout, Poll, \* timeout_seconds and poll_interval_seconds, 900 and 10
  Request,       \* longest time one API request takes
  Layouts        \* NIC tables of the node, sequences of rows

Roles == {"slo", "sli", "external"}          \* owned MACs, one per role
Devices == {"eth0", "eth1", "eth2"}

(* A NIC row: its name without the a-i- prefix, and its MAC.                *)
Row(device, mac) == [device |-> device, mac |-> mac]
Rows == [device : Devices \cup {"other"}, mac : Roles \cup {"foreign"}]

ASSUME ObserverAssumption ==
  /\ Observers \subseteq {"bgp", "nic"}
  /\ Layouts \subseteq Seq(Rows)
  /\ Timeout \in Nat \ {0} /\ Poll \in Nat \ {0} /\ Request \in Nat

VARIABLES
  observer,   \* which program this is
  layout,     \* the node: its NIC table
  session,    \* F5 XC: the session is Established, the node PROVISIONED
  route,      \* F5 XC: the route has a path from the peer
  since,      \* history: when both became what they are
  now,        \* clock
  looking,    \* the observer's next step
  until,      \* when its request or sleep is over
  sawSession, \* the first answer of this look
  troubled,   \* history: a transport error or an invalid answer was met
  result      \* "none", the NIC rows joined, or why it failed

observerVars == <<observer, layout, session, route, since, now, looking, until, sawSession,
                  troubled, result>>

ObserverTypeOK ==
  /\ observer \in Observers /\ layout \in Layouts
  /\ session \in BOOLEAN /\ route \in BOOLEAN /\ since \in Nat /\ now \in Nat
  /\ looking \in {"first", "second", "judge", "sleep", "end"} /\ until \in Nat
  /\ sawSession \in BOOLEAN /\ troubled \in BOOLEAN
  /\ result \in {"none", "converged", "timeout", "refused"}

ObserverInit ==
  /\ observer \in Observers /\ layout \in Layouts
  /\ session \in BOOLEAN /\ route \in BOOLEAN
  /\ since = 0 /\ now = 0 /\ looking = "first" /\ until = Request
  /\ sawSession = FALSE /\ troubled = FALSE /\ result = "none"

------------------------------------------------------------------------------
(* The deadline loop *)

world == <<observer, layout, session, route, since>>
Converged == session /\ (observer = "bgp" => route)

(* resolve_interfaces: the rows with a CE device name and an owned MAC.      *)
Join(rows) ==
  {i \in DOMAIN rows : rows[i].device # "other" /\ rows[i].mac \in Roles}

(* Mutant: the matching rows are not counted.                              *)
JoinedMutant(rows) ==
  /\ {rows[i].mac : i \in Join(rows)} = Roles
  /\ {rows[i].device : i \in Join(rows)} = Devices
  /\ \A i \in Join(rows) : rows[i].mac = "slo" => rows[i].device = "eth0"

Joined(rows) ==
  /\ Cardinality(Join(rows)) = Cardinality(Roles)
  /\ {rows[i].mac : i \in Join(rows)} = Roles
  /\ {rows[i].device : i \in Join(rows)} = Devices
  /\ \A i \in Join(rows) : rows[i].mac = "slo" => rows[i].device = "eth0"

(* The first request; the NIC program judges its answer at once and gives up *)
(* on a provisioned node that does not join.                               *)
FirstRequest ==
  /\ looking = "first"
  /\ sawSession' = session
  /\ \/ observer = "bgp" /\ looking' = "second" /\ until' = now + Request
        /\ UNCHANGED result
     \/ /\ observer = "nic" /\ UNCHANGED until
        /\ looking' = IF session THEN "end" ELSE "judge"
        /\ result' = IF ~session THEN result
                     ELSE IF Joined(layout) THEN "converged" ELSE "refused"
  /\ UNCHANGED <<world, now, troubled>>

(* The BGP program needs the session Established in the first answer and the *)
(* route in the second.                                                    *)
SecondRequest ==
  /\ looking = "second"
  /\ looking' = IF sawSession /\ route THEN "end" ELSE "judge"
  /\ result' = IF sawSession /\ route THEN "converged" ELSE result
  /\ UNCHANGED <<world, now, until, sawSession, troubled>>

(* HTTP and transport errors and invalid answers are met again; another     *)
(* status, node or kind of answer ends the program.                        *)
RequestFails ==
  /\ looking \in {"first", "second"}
  /\ troubled' = TRUE
  /\ \/ looking' = "judge" /\ UNCHANGED result
     \/ looking' = "end" /\ result' = "refused"
  /\ UNCHANGED <<world, now, until, sawSession>>

(* Mutant: gives up when a whole interval no longer fits.                  *)
CheckDeadlineMutant ==
  /\ looking = "judge"
  /\ \/ now + Poll >= Timeout /\ looking' = "end" /\ result' = "timeout" /\ UNCHANGED until
     \/ /\ now + Poll < Timeout /\ looking' = "sleep" /\ UNCHANGED result
        /\ until' = now + (IF Poll < Timeout - now THEN Poll ELSE Timeout - now)
  /\ UNCHANGED <<world, now, sawSession, troubled>>

CheckDeadline ==
  /\ looking = "judge"
  /\ \/ now >= Timeout /\ looking' = "end" /\ result' = "timeout" /\ UNCHANGED until
     \/ /\ now < Timeout /\ looking' = "sleep" /\ UNCHANGED result
        /\ until' = now + (IF Poll < Timeout - now THEN Poll ELSE Timeout - now)
  /\ UNCHANGED <<world, now, sawSession, troubled>>

LookAgain ==
  /\ looking = "sleep" /\ now = until
  /\ looking' = "first" /\ until' = now + Request
  /\ UNCHANGED <<world, now, sawSession, troubled, result>>

(* Time passes within a request or a sleep, not between two lines.          *)
Tick ==
  /\ looking \in {"first", "second", "sleep"} /\ now < until
  /\ now' = now + 1
  /\ UNCHANGED <<world, looking, until, sawSession, troubled, result>>

(* The session ends, losing its routes, or comes up; a path arrives or goes. *)
SessionChanges ==
  /\ looking # "end"
  /\ session' = ~session /\ route' \in {FALSE, route /\ session'}
  /\ since' = now
  /\ UNCHANGED <<observer, layout, now, looking, until, sawSession, troubled, result>>

RouteChanges ==
  /\ looking # "end" /\ observer = "bgp"
  /\ session /\ route' = ~route /\ since' = now
  /\ UNCHANGED <<observer, layout, session, now, looking, until, sawSession, troubled,
                 result>>

ObserverNext ==
  \/ FirstRequest \/ SecondRequest \/ RequestFails \/ CheckDeadline \/ LookAgain \/ Tick
  \/ SessionChanges \/ RouteChanges

ObserverSpec == ObserverInit /\ [][ObserverNext]_observerVars

------------------------------------------------------------------------------
(* Properties *)

LookTime == IF observer = "bgp" THEN 2 * Request ELSE Request

(* The program ends no later than one look after its deadline; and it does   *)
(* not give up by timeout on what has been there since more than a look      *)
(* before the deadline, unless an answer failed.                           *)
DeadlineKept ==
  /\ now <= Timeout + LookTime
  /\ result = "timeout" /\ Converged /\ ~troubled => since + LookTime >= Timeout

(* Whatever table the node reports, an accepted join gives each of the three *)
(* owned NICs exactly one device and each device one NIC, the SLO at eth0.   *)
JoinIsOneToOne ==
  observer = "nic" /\ result = "converged" =>
    /\ \A m \in Roles : \E d \in Devices : \A i \in DOMAIN layout :
         layout[i].mac = m /\ layout[i].device # "other" => layout[i].device = d
    /\ \A d \in Devices : \E m \in Roles : \A i \in DOMAIN layout :
         layout[i].device = d /\ layout[i].mac \in Roles => layout[i].mac = m
    /\ \E i \in DOMAIN layout : layout[i].mac = "slo" /\ layout[i].device = "eth0"
=============================================================================
