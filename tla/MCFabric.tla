------------------------------ MODULE MCFabric ------------------------------
(***************************************************************************)
(* Small instances of the fabric for TLC.                                  *)
(***************************************************************************)
EXTENDS Fabric, TLC

\* Groups in two orders, the source among them or not, and with a missing tile
\* before or after one that exists.
SomeGroups == {<<>>, <<1, 2>>, <<2, 1>>, AllTiles, <<1, TileCount>>, <<TileCount, 1>>}

\* A group that names a tile twice, which the preflight does not refuse.
RepeatedGroups == {<<1, 1>>}

\* Two ways to name two tiles, all tiles, and an array of each kind that is refused.
SomeArrays == {<<0, 1>>, <<1, 0>>, AllTiles, <<>>, <<1, 1>>, <<0, TileCount>>, AllTiles \o <<0>>}
=============================================================================
