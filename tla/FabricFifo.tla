----------------------------- MODULE FabricFifo -----------------------------
(***************************************************************************)
(* What the fabric promises about packets, without rings: each tile has an *)
(* inbox of bounded length that is first in, first out.  A send or a       *)
(* broadcast delivers one packet to each of its destinations, or is        *)
(* refused and delivers none (docs/fabric.md, Queues and Broadcast).       *)
(***************************************************************************)
EXTENDS Integers, Sequences

CONSTANTS Tiles, Capacity

VARIABLES inbox,    \* per tile, the packets to be received
          refused   \* calls refused since the counters were last reset

FifoInit ==
    /\ inbox = [t \in Tiles |-> <<>>]
    /\ refused = 0

\* One packet from one source, the same but for its target, reaches every tile
\* of the destination set, each of which has room.  The source of a packet for
\* several tiles is none of them.
Deliver(destinations) ==
    /\ \A t \in destinations : Len(inbox[t]) < Capacity
    /\ \A t \in Tiles \ destinations : inbox'[t] = inbox[t]
    /\ \A t \in destinations :
          /\ Len(inbox'[t]) = Len(inbox[t]) + 1
          /\ \A k \in 1..Len(inbox[t]) : inbox'[t][k] = inbox[t][k]
          /\ inbox'[t][Len(inbox[t]) + 1].target = t
    /\ \A t, u \in destinations :
          [inbox'[t][Len(inbox[t]) + 1] EXCEPT !.target = u]
              = inbox'[u][Len(inbox[u]) + 1]
    /\ \A t, u \in destinations :
          t # u => inbox'[t][Len(inbox[t]) + 1].source \notin destinations
    /\ UNCHANGED refused

Take(t) ==
    /\ inbox[t] # <<>>
    /\ inbox' = [inbox EXCEPT ![t] = Tail(@)]
    /\ UNCHANGED refused

\* A call that is refused leaves every inbox as it is.
Refuse == refused' = refused + 1 /\ UNCHANGED inbox

Forget == refused' = 0 /\ UNCHANGED inbox

FifoNext ==
    \/ \E destinations \in SUBSET Tiles : Deliver(destinations)
    \/ \E t \in Tiles : Take(t)
    \/ Refuse \/ Forget

FifoSpec == FifoInit /\ [][FifoNext]_<<inbox, refused>>
=============================================================================
