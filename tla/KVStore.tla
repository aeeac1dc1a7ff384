------------------------------ MODULE KVStore ------------------------------
(***************************************************************************)
(* What the paged KV-MMU promises its callers, with the paging taken away: *)
(* every live session has, per layer, an append-only array of tokens       *)
(* addressed by position.  A read returns exactly what was appended at     *)
(* that address since the session was created, and is refused only where   *)
(* nothing was appended; a position is written once and in order;          *)
(* destroying a session forgets all it held.  An append may be refused     *)
(* (the implementation runs out of pages), but a refused operation changes *)
(* nothing a caller can read.                                              *)
(***************************************************************************)
EXTENDS Naturals

CONSTANTS SessionIds,    \* the session identifiers callers may use
          NumLayers,     \* layers are 0 .. NumLayers - 1
          MaxPositions,  \* positions are 0 .. MaxPositions - 1
          Payloads,      \* what a token's keys and values may be
          Absent         \* "nothing was appended here"

VARIABLES live,          \* the sessions that exist
          val,           \* <<session, layer, position>> -> payload or Absent
          reply          \* what the last operation answered, and for a read or
                         \* a range copy the address it was asked for

storeVars == <<live, val, reply>>

Layers == 0..NumLayers - 1
Positions == 0..MaxPositions - 1
Addresses == SessionIds \X Layers \X Positions

Stored(s, l, p) == s \in live /\ <<s, l, p>> \in Addresses /\ val[<<s, l, p>>] # Absent

\* Where the next token of a session and layer goes.
IsNext(s, l, p) ==
    /\ ~Stored(s, l, p)
    /\ \A q \in Positions : q < p => Stored(s, l, q)

StoreInit ==
    /\ live = {}
    /\ val = [a \in Addresses |-> Absent]
    /\ reply.op = "create"

StoreCreate(s) ==
    /\ s \notin live
    /\ live' = live \cup {s}
    /\ UNCHANGED val

StoreDestroy(s) ==
    /\ s \in live
    /\ live' = live \ {s}
    /\ val' = [a \in Addresses |-> IF a[1] = s THEN Absent ELSE val[a]]

StoreAppend(s, l, p, v) ==
    /\ s \in live
    /\ IsNext(s, l, p)
    /\ val' = [val EXCEPT ![<<s, l, p>>] = v]
    /\ UNCHANGED live

\* The answer to reading n positions from p on: all of them, or a refusal when
\* one of them holds nothing.
RangeStored(s, l, p, n) == \A k \in 0..n - 1 : Stored(s, l, p + k)

StoreAnswer(s, l, p, n) ==
    /\ reply'.addr = <<s, l, p, n>>
    /\ IF n > 0 /\ RangeStored(s, l, p, n)
       THEN /\ reply'.status = "OK"
            /\ reply'.data = [k \in 0..n - 1 |-> val[<<s, l, p + k>>]]
       ELSE reply'.status # "OK"
    /\ UNCHANGED <<live, val>>

\* A change of the stored tokens, announced as a success.
StoreUpdate ==
    /\ reply'.status = "OK"
    /\ \/ /\ reply'.op = "create"
          /\ \E s \in SessionIds : StoreCreate(s)
       \/ /\ reply'.op = "destroy"
          /\ \E s \in SessionIds : StoreDestroy(s)
       \/ /\ reply'.op = "append"
          /\ \E s \in SessionIds, l \in Layers, p \in Positions, v \in Payloads :
                StoreAppend(s, l, p, v)

\* A refused update, a query that names no address at all (a null buffer, a head
\* that does not exist), and the operations that only concern pages and counters.
StoreNoUpdate ==
    /\ \/ reply'.op \in {"create", "destroy", "append"} /\ reply'.status # "OK"
       \/ reply'.op \in {"read", "copy_range"} /\ reply'.addr = <<>> /\ reply'.status # "OK"
       \/ reply'.op \in {"lookup_page", "reset_counters"}
    /\ UNCHANGED <<live, val>>

StoreQuery ==
    /\ reply'.op \in {"read", "copy_range"}
    /\ reply'.addr # <<>>
    /\ StoreAnswer(reply'.addr[1], reply'.addr[2], reply'.addr[3], reply'.addr[4])

StoreNext == StoreUpdate \/ StoreNoUpdate \/ StoreQuery

StoreSpec == StoreInit /\ [][StoreNext]_storeVars
=============================================================================
