-------------------------------- MODULE VipRelay --------------------------------
(***************************************************************************)
(* What an Azure router promises about the demo's virtual address: its     *)
(* traffic goes to one Customer Edge that the router had learned the       *)
(* address from, the first in order, or nowhere; and it never turns from   *)
(* one edge to another without going nowhere in between.                   *)
(***************************************************************************)
EXTENDS Naturals

CONSTANT Edges   \* Customer Edges, positive numbers in the order of their addresses

VARIABLES
  learned,  \* edges with an active path to the address
  heard,    \* the learned edges the relay last heard of
  forward   \* the edge that gets the traffic, or Nobody

Nobody == 0
First(S) == CHOOSE e \in S : \A f \in S : e <= f

Init ==
  /\ learned \in SUBSET Edges /\ heard \in SUBSET Edges
  /\ forward = Nobody \/ (heard # {} /\ forward = First(heard))

Learn == learned' \in SUBSET Edges /\ UNCHANGED <<heard, forward>>
Hear == heard' \in {learned, {}} /\ UNCHANGED <<learned, forward>>
Stop == forward' = Nobody /\ UNCHANGED <<learned, heard>>
Serve ==
  /\ forward = Nobody /\ heard # {}
  /\ forward' = First(heard)
  /\ UNCHANGED <<learned, heard>>
Restart == learned' = {} /\ forward' = Nobody /\ UNCHANGED heard

Next == Learn \/ Hear \/ Stop \/ Serve \/ Restart

Spec == Init /\ [][Next]_<<learned, heard, forward>>
=============================================================================
