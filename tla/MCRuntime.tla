----------------------------- MODULE MCRuntime ------------------------------
(***************************************************************************)
(* Small instances of the tile runtime for TLC.                            *)
(***************************************************************************)
EXTENDS Runtime, TLC

Command(kind) == [kind |-> kind, peer |-> 0, size |-> 0]

\* Commands that block a worker, end it, or use the fabric: sends to a tile and to
\* one that does not exist.
MCCommands ==
    {Command("barrier"), Command("shutdown"), Command("recv")}
        \cup [kind : {"send"}, peer : {0, TileCount}, size : {0}]
=============================================================================
