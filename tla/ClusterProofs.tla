--------------------------- MODULE ClusterProofs ---------------------------
(***************************************************************************)
(* What holds of computations that are spread: over the tiles of one       *)
(* program (Cluster, with the plans of ShardPlan), and over two endpoints  *)
(* (Bridge).                                                               *)
(*                                                                         *)
(* The first part is about plans, for any number of layers and tiles; the  *)
(* second about decode steps, for any plan, capacity of the queues, model  *)
(* and length of the caches; the last about the bridge, for any capacity   *)
(* of the fabrics, and whatever fails: a packet is delivered in order or   *)
(* accounted as lost, and a rendezvous that ends without a fault was one.  *)
(***************************************************************************)
EXTENDS Cluster, Bridge, FiniteSetTheorems, WellFoundedInduction, TLAPS

(***************************************************************************)
(* Plans.                                                                  *)
(***************************************************************************)
LEMMA LeastNumber ==
    ASSUME NEW S, S \subseteq Nat, S # {}
    PROVE  \E m \in S : \A k \in S : m <= k
  <1> DEFINE R == OpToRel(<, Nat)
  <1>1. IsWellFoundedOn(R, Nat)
    BY NatLessThanWellFounded
  <1>2. PICK m \in S : \A k \in S : ~ (<<k, m>> \in R)
    <2> HIDE DEF R
    <2>1. QED
      BY <1>1, WFMin
  <1>3. ASSUME NEW k \in S
        PROVE  m <= k
    <2>1. ~(k < m)
      BY <1>2 DEF OpToRel
    <2>2. QED
      BY <2>1
  <1>4. QED
    BY <1>3

\* One tile's share of r layers among m tiles, each to have q or q + 1.
LEMMA ShareIsFair ==
    ASSUME NEW r \in Nat, NEW m \in Nat \ {0}, NEW q \in Nat,
           q * m <= r, r <= (q + 1) * m
    PROVE  /\ CeilDiv(r, m) \in {q, q + 1}
           /\ CeilDiv(r, m) <= r
           /\ q * (m - 1) <= r - CeilDiv(r, m)
           /\ r - CeilDiv(r, m) <= (q + 1) * (m - 1)
  <1>1. q * m \in Nat /\ (q + 1) * m = q * m + m
    OBVIOUS
  <1>2. q * (m - 1) = q * m - q /\ (q + 1) * (m - 1) = q * m + m - q - 1
    OBVIOUS
  <1>3. q <= q * m
    OBVIOUS
  <1>4. CASE r = q * m
    <2>1. (r + m - 1) \div m = q
      BY <1>4, <1>1, SMTT(30)
    <2>2. QED
      BY <2>1, <1>1, <1>2, <1>3, <1>4 DEF CeilDiv
  <1>5. CASE r > q * m
    <2>1. (r + m - 1) \div m = q + 1
      BY <1>5, <1>1, SMTT(30)
    <2>2. QED
      BY <2>1, <1>1, <1>2, <1>3, <1>5 DEF CeilDiv
  <1>6. QED
    BY <1>1, <1>4, <1>5

\* What the start of a tile is made of: the start of the tile before it.
Recurrence(f, n, layers, tiles) ==
    f = [t \in 0 .. n |->
            IF t = 0 THEN 0
            ELSE f[t - 1] + CeilDiv(layers - f[t - 1], tiles - (t - 1))]

LEMMA RecurrenceHasSolution ==
    ASSUME NEW layers, NEW tiles, NEW n \in Nat
    PROVE  \E f : Recurrence(f, n, layers, tiles)
  <1> DEFINE Without == {k \in Nat : ~ \E f : Recurrence(f, k, layers, tiles)}
  <1>1. SUFFICES ASSUME Without # {}
                 PROVE  FALSE
    OBVIOUS
  <1>2. PICK m \in Without : \A k \in Without : m <= k
    BY <1>1, LeastNumber
  <1>3. CASE m = 0
    <2> DEFINE f == [t \in 0 .. 0 |-> 0]
    <2>1. Recurrence(f, 0, layers, tiles)
      BY DEF Recurrence
    <2>2. QED
      BY <1>2, <1>3, <2>1
  <1>4. CASE m # 0
    <2>1. m - 1 \in Nat /\ m \in Nat /\ m - 1 \notin Without
      BY <1>2, <1>4
    <2>2. PICK f : Recurrence(f, m - 1, layers, tiles)
      BY <2>1
    <2> DEFINE g == [t \in 0 .. m |->
                        IF t = m
                        THEN f[t - 1] + CeilDiv(layers - f[t - 1], tiles - (t - 1))
                        ELSE f[t]]
    <2>3. \A t \in 0 .. m - 1 : g[t] = f[t]
      BY <2>1
    <2>4. ASSUME NEW t \in 0 .. m
          PROVE  g[t] = IF t = 0 THEN 0
                        ELSE g[t - 1] + CeilDiv(layers - g[t - 1], tiles - (t - 1))
      <3>1. CASE t = m
        <4>1. g[m] = f[m - 1] + CeilDiv(layers - f[m - 1], tiles - (m - 1))
          BY <2>1
        <4>2. g[m - 1] = f[m - 1]
          BY <2>1, <2>3
        <4> HIDE DEF g
        <4>3. QED
          BY <3>1, <4>1, <4>2, <1>4
      <3>2. CASE t # m
        <4>1. t \in 0 .. m - 1 /\ (t # 0 => t - 1 \in 0 .. m - 1)
          BY <3>2, <2>1
        <4>2. f[t] = IF t = 0 THEN 0
                     ELSE f[t - 1] + CeilDiv(layers - f[t - 1], tiles - (t - 1))
          BY <2>2, <4>1 DEF Recurrence
        <4> HIDE DEF g
        <4>3. QED
          BY <4>1, <4>2, <2>3
      <3>3. QED
        BY <3>1, <3>2
    <2>5. g = [t \in 0 .. m |-> g[t]]
      OBVIOUS
    <2>6. Recurrence(g, m, layers, tiles)
      <3> HIDE DEF g
      <3>1. QED
        BY <2>4, <2>5 DEF Recurrence
    <2>7. QED
      BY <1>2, <2>6
  <1>5. QED
    BY <1>3, <1>4

LEMMA BoundariesRecur ==
    ASSUME NEW layers, NEW tiles \in Nat
    PROVE  Recurrence(Boundaries(layers, tiles), tiles, layers, tiles)
  <1>1. \E f : Recurrence(f, tiles, layers, tiles)
    BY RecurrenceHasSolution
  <1>2. Boundaries(layers, tiles) = CHOOSE f : Recurrence(f, tiles, layers, tiles)
    BY DEF Boundaries, Recurrence
  <1>3. QED
    BY <1>1, <1>2

LEMMA StepOfRecurrence ==
    ASSUME NEW layers, NEW tiles, NEW n \in Nat, NEW f, Recurrence(f, n, layers, tiles)
    PROVE  /\ f[0] = 0
           /\ \A t \in 0 .. n - 1 : f[t + 1] = f[t] + CeilDiv(layers - f[t], tiles - t)
  <1>1. f[0] = 0
    BY DEF Recurrence
  <1>2. ASSUME NEW t \in 0 .. n - 1
        PROVE  f[t + 1] = f[t] + CeilDiv(layers - f[t], tiles - t)
    <2>1. t + 1 \in 0 .. n /\ t + 1 # 0 /\ (t + 1) - 1 = t
      OBVIOUS
    <2>2. f[t + 1] = f[(t + 1) - 1] + CeilDiv(layers - f[(t + 1) - 1], tiles - ((t + 1) - 1))
      BY <2>1 DEF Recurrence
    <2>3. QED
      BY <2>1, <2>2
  <1>3. QED
    BY <1>1, <1>2

\* Where tile t starts, what is left is enough for q layers on each of the tiles that
\* are left, and not more than q + 1 on each.
LeftOver(f, t, q, layers, tiles) ==
    /\ f[t] \in 0 .. layers
    /\ q * (tiles - t) <= layers - f[t]
    /\ layers - f[t] <= (q + 1) * (tiles - t)

LEMMA LeftOverIsFair ==
    ASSUME NEW layers \in Nat, NEW tiles \in Nat \ {0}, NEW f,
           Recurrence(f, tiles, layers, tiles),
           NEW t \in 0 .. tiles
    PROVE  LeftOver(f, t, layers \div tiles, layers, tiles)
  <1> DEFINE q == layers \div tiles
             Wrong == {k \in 0 .. tiles : ~ LeftOver(f, k, q, layers, tiles)}
  <1>1. q \in Nat /\ q * tiles <= layers /\ layers <= (q + 1) * tiles
    BY SMTT(30)
  <1> HIDE DEF q
  <1>2. SUFFICES ASSUME Wrong # {}
                 PROVE  FALSE
    BY DEF q
  <1>3. PICK m \in Wrong : \A k \in Wrong : m <= k
    <2>1. Wrong \subseteq Nat
      OBVIOUS
    <2> HIDE DEF Wrong
    <2>2. QED
      BY <1>2, <2>1, LeastNumber
  <1>4. CASE m = 0
    <2>1. f[0] = 0
      BY StepOfRecurrence
    <2>2. LeftOver(f, 0, q, layers, tiles)
      BY <2>1, <1>1 DEF LeftOver
    <2>3. QED
      BY <1>3, <1>4, <2>2
  <1>5. CASE m # 0
    <2>1. m - 1 \in 0 .. tiles - 1 /\ m \in 0 .. tiles /\ m - 1 \notin Wrong
      BY <1>3, <1>5
    <2> DEFINE k == m - 1
               r == layers - f[k]
               d == tiles - k
    <2>2. LeftOver(f, k, q, layers, tiles)
      BY <2>1
    <2>3. f[k] \in 0 .. layers /\ r \in Nat /\ d \in Nat \ {0} /\ q * d <= r /\ r <= (q + 1) * d
      BY <2>1, <2>2 DEF LeftOver
    <2>4. f[m] = f[k] + CeilDiv(r, d)
      BY <2>1, StepOfRecurrence
    <2>5. tiles - m = d - 1
      BY <2>1
    <2> HIDE DEF k, d
    <2>6. r \in Nat
      BY <2>3
    <2>7. layers - f[m] = r - CeilDiv(r, d) /\ f[m] \in 0 .. layers
      <3>1. CeilDiv(r, d) \in {q, q + 1} /\ CeilDiv(r, d) <= r
        BY <1>1, <2>3, ShareIsFair
      <3>2. PICK c \in Nat : c = CeilDiv(r, d) /\ c <= r
        BY <3>1, <1>1
      <3>3. QED
        BY <3>2, <2>3, <2>4
    <2>8. q * (d - 1) <= r - CeilDiv(r, d) /\ r - CeilDiv(r, d) <= (q + 1) * (d - 1)
      BY <1>1, <2>3, ShareIsFair
    <2> HIDE DEF r
    <2>9. LeftOver(f, m, q, layers, tiles)
      BY <2>5, <2>7, <2>8 DEF LeftOver
    <2>10. QED
      BY <1>3, <2>9
  <1>6. QED
    BY <1>4, <1>5

\* The tiles of a plan made at run time: consecutive ranges from the first layer to
\* the last, of q or q + 1 layers each.
LEMMA BoundariesFair ==
    ASSUME NEW layers \in Nat, NEW tiles \in Nat \ {0}, NEW f,
           Recurrence(f, tiles, layers, tiles)
    PROVE  /\ f[0] = 0
           /\ f[tiles] = layers
           /\ \A t \in 0 .. tiles : f[t] \in 0 .. layers
           /\ \A t \in TilesOf(tiles) :
                 f[t + 1] - f[t] \in {layers \div tiles, (layers \div tiles) + 1}
  <1> DEFINE q == layers \div tiles
  <1>0. q \in Nat
    BY SMTT(30)
  <1>2. \A t \in 0 .. tiles : LeftOver(f, t, q, layers, tiles)
    BY LeftOverIsFair
  <1> HIDE DEF q
  <1>3. \A t \in 0 .. tiles : f[t] \in 0 .. layers
    BY <1>2 DEF LeftOver
  <1>4. f[tiles] = layers
    <2>1. LeftOver(f, tiles, q, layers, tiles) /\ tiles - tiles = 0 /\ (q + 1) * 0 = 0
      BY <1>2, <1>0
    <2>2. QED
      BY <2>1 DEF LeftOver
  <1>5. /\ f[0] = 0
        /\ \A t \in 0 .. tiles - 1 : f[t + 1] = f[t] + CeilDiv(layers - f[t], tiles - t)
    <2>1. f[0] = 0
      BY StepOfRecurrence
    <2>2. ASSUME NEW t \in 0 .. tiles - 1
          PROVE  f[t + 1] = f[t] + CeilDiv(layers - f[t], tiles - t)
      BY StepOfRecurrence
    <2>3. QED
      BY <2>1, <2>2
  <1>6. ASSUME NEW t \in TilesOf(tiles)
        PROVE  f[t + 1] - f[t] \in {q, q + 1}
    <2>1. t \in 0 .. tiles - 1 /\ t \in 0 .. tiles
      BY DEF TilesOf
    <2>2. f[t + 1] = f[t] + CeilDiv(layers - f[t], tiles - t)
      BY <1>5, <2>1
    <2> DEFINE r == layers - f[t]
               d == tiles - t
    <2>3. f[t] \in Nat /\ r \in Nat /\ d \in Nat \ {0} /\ q * d <= r /\ r <= (q + 1) * d
      BY <2>1, <1>2 DEF LeftOver
    <2> HIDE DEF r, d
    <2>4. CeilDiv(r, d) \in {q, q + 1}
      BY <1>0, <2>3, ShareIsFair
    <2>5. f[t + 1] = f[t] + CeilDiv(r, d)
      BY <2>2 DEF r, d
    <2>6. QED
      BY <2>3, <2>4, <2>5, <1>0
  <1>7. QED
    BY <1>3, <1>4, <1>6, <1>5, Zenon DEF q

LEMMA BoundariesAscend ==
    ASSUME NEW layers \in Nat, NEW tiles \in Nat \ {0}, NEW f,
           Recurrence(f, tiles, layers, tiles),
           NEW t \in 0 .. tiles, NEW u \in 0 .. tiles, t <= u
    PROVE  f[t] <= f[u]
  <1> DEFINE Wrong == {k \in 0 .. tiles : t <= k /\ ~ (f[t] <= f[k])}
             q == layers \div tiles
  <1>0. q \in Nat
    BY SMTT(30)
  <1>1. /\ \A k \in 0 .. tiles : f[k] \in 0 .. layers
        /\ \A k \in TilesOf(tiles) : f[k + 1] - f[k] \in {q, q + 1}
    BY BoundariesFair
  <1> HIDE DEF q
  <1>2. SUFFICES ASSUME Wrong # {}
                 PROVE  FALSE
    OBVIOUS
  <1>3. PICK m \in Wrong : \A k \in Wrong : m <= k
    <2>1. Wrong \subseteq Nat
      OBVIOUS
    <2> HIDE DEF Wrong
    <2>2. QED
      BY <1>2, <2>1, LeastNumber
  <1>4. m # t /\ m \in 0 .. tiles /\ t <= m
    BY <1>1, <1>3
  <1>5. m - 1 \in 0 .. tiles /\ m - 1 \in TilesOf(tiles) /\ m - 1 \notin Wrong /\ t <= m - 1
    BY <1>3, <1>4 DEF TilesOf
  <1>6. f[t] <= f[m - 1] /\ f[m - 1] <= f[m]
    <2>1. f[(m - 1) + 1] - f[m - 1] \in {q, q + 1} /\ (m - 1) + 1 = m
      BY <1>1, <1>4, <1>5
    <2>2. f[m - 1] \in Nat /\ f[m] \in Nat
      BY <1>1, <1>4, <1>5
    <2>3. QED
      BY <1>0, <1>5, <2>1, <2>2
  <1>7. QED
    BY <1>1, <1>3, <1>4, <1>5, <1>6

\* A plan of n layers on so many tiles: consecutive layers on each, each layer on one.
PlanFor(p, n, tiles) ==
    /\ DOMAIN p.tiles = TilesOf(tiles)
    /\ DOMAIN p.layer_to_tile = LayersOf(n)
    /\ \A t \in TilesOf(tiles) :
          /\ p.tiles[t].start \in 0 .. n
          /\ p.tiles[t].end \in 0 .. n
          /\ p.tiles[t].start <= p.tiles[t].end
    /\ \A l \in LayersOf(n) :
          /\ p.layer_to_tile[l] \in TilesOf(tiles)
          /\ \A t \in TilesOf(tiles) :
                l \in LayersIn(p.tiles[t]) <=> p.layer_to_tile[l] = t

LEMMA PlanIsComplete ==
    ASSUME NEW p, NEW n \in Nat, NEW tiles \in Nat \ {0}, PlanFor(p, n, tiles)
    PROVE  PlanComplete(p, n)
  <1>1. DOMAIN p.tiles # {}
    <2>1. 0 \in TilesOf(tiles)
      BY DEF TilesOf
    <2>2. QED
      BY <2>1 DEF PlanFor
  <1>2. ASSUME NEW t \in DOMAIN p.tiles
        PROVE  /\ p.tiles[t].start <= p.tiles[t].end
               /\ p.tiles[t].end <= n
               /\ \A l \in LayersIn(p.tiles[t]) : p.layer_to_tile[l] = t
    <2>1. t \in TilesOf(tiles) /\ p.tiles[t].start \in 0 .. n /\ p.tiles[t].end \in 0 .. n
      BY DEF PlanFor
    <2>2. \A l \in LayersIn(p.tiles[t]) : l \in LayersOf(n)
      BY <2>1 DEF LayersIn, LayersOf
    <2>3. QED
      BY <2>1, <2>2 DEF PlanFor
  <1>3. ASSUME NEW l \in LayersOf(n)
        PROVE  \E t \in DOMAIN p.tiles : l \in LayersIn(p.tiles[t])
    BY DEF PlanFor
  <1>4. QED
    BY <1>1, <1>2, <1>3 DEF PlanComplete, PlanFor

LEMMA TileOfLayer ==
    ASSUME NEW layers \in Nat, NEW tiles \in Nat \ {0}, NEW f,
           Recurrence(f, tiles, layers, tiles), NEW l \in LayersOf(layers)
    PROVE  \E t \in TilesOf(tiles) : f[t] <= l /\ l < f[t + 1]
  <1> DEFINE Beyond == {k \in 0 .. tiles : l < f[k]}
  <1>1. f[0] = 0 /\ f[tiles] = layers /\ \A t \in 0 .. tiles : f[t] \in 0 .. layers
    BY BoundariesFair
  <1>2. Beyond \subseteq Nat /\ tiles \in Beyond
    BY <1>1 DEF LayersOf
  <1>3. PICK m \in Beyond : \A k \in Beyond : m <= k
    <2> HIDE DEF Beyond
    <2>1. QED
      BY <1>2, LeastNumber
  <1>4. m \in 0 .. tiles /\ l < f[m] /\ m # 0 /\ l \in Nat
    BY <1>1, <1>3 DEF LayersOf
  <1>5. m - 1 \in 0 .. tiles /\ m - 1 \in TilesOf(tiles) /\ (m - 1) + 1 = m /\ m - 1 \notin Beyond
    BY <1>3, <1>4 DEF TilesOf
  <1>6. f[m - 1] <= l
    BY <1>1, <1>4, <1>5
  <1>7. QED
    BY <1>4, <1>5, <1>6

LEMMA TileOfLayerIsUnique ==
    ASSUME NEW layers \in Nat, NEW tiles \in Nat \ {0}, NEW f,
           Recurrence(f, tiles, layers, tiles), NEW l \in LayersOf(layers),
           NEW t \in TilesOf(tiles), f[t] <= l, l < f[t + 1],
           NEW u \in TilesOf(tiles), f[u] <= l, l < f[u + 1]
    PROVE  t = u
  <1>1. \A k \in 0 .. tiles : f[k] \in 0 .. layers
    BY BoundariesFair, Zenon
  <1>2. t \in 0 .. tiles /\ u \in 0 .. tiles /\ t + 1 \in 0 .. tiles /\ u + 1 \in 0 .. tiles
    BY DEF TilesOf
  <1>3. t + 1 <= u => f[t + 1] <= f[u]
    BY <1>2, BoundariesAscend
  <1>4. u + 1 <= t => f[u + 1] <= f[t]
    BY <1>2, BoundariesAscend
  <1>5. l \in Nat
    BY DEF LayersOf
  <1>6. QED
    BY <1>1, <1>2, <1>3, <1>4, <1>5

LEMMA BuiltPlanFields ==
    ASSUME NEW layers \in Nat, NEW tiles \in Nat \ {0}
    PROVE  LET p == PlanBuild(layers, tiles)
           IN  \E f : /\ Recurrence(f, tiles, layers, tiles)
                      /\ DOMAIN p.tiles = TilesOf(tiles)
                      /\ DOMAIN p.layer_to_tile = LayersOf(layers)
                      /\ \A t \in TilesOf(tiles) :
                            p.tiles[t].start = f[t] /\ p.tiles[t].end = f[t + 1]
                      /\ \A l \in LayersOf(layers) :
                            p.layer_to_tile[l] = CHOOSE t \in TilesOf(tiles) :
                                                     f[t] <= l /\ l < f[t + 1]
  <1> DEFINE f == Boundaries(layers, tiles)
  <1>1. Recurrence(f, tiles, layers, tiles)
    BY BoundariesRecur
  <1>2. PlanBuild(layers, tiles)
          = [tiles |-> [t \in TilesOf(tiles) |-> [start |-> f[t], end |-> f[t + 1]]],
             layer_to_tile |-> [l \in LayersOf(layers) |->
                 CHOOSE t \in TilesOf(tiles) : f[t] <= l /\ l < f[t + 1]]]
    BY DEF PlanBuild
  <1> HIDE DEF f
  <1>3. QED
    BY <1>1, <1>2

LEMMA BuiltPlanSound ==
    ASSUME NEW layers \in Nat, NEW tiles \in Nat \ {0}
    PROVE  /\ PlanFor(PlanBuild(layers, tiles), layers, tiles)
           /\ InLayerOrder(PlanBuild(layers, tiles))
           /\ \A t, u \in TilesOf(tiles) :
                 Cardinality(LayersIn(PlanBuild(layers, tiles).tiles[t]))
                     <= Cardinality(LayersIn(PlanBuild(layers, tiles).tiles[u])) + 1
  <1> DEFINE p == PlanBuild(layers, tiles)
             q == layers \div tiles
  <1>1. PICK f : /\ Recurrence(f, tiles, layers, tiles)
                 /\ DOMAIN p.tiles = TilesOf(tiles)
                 /\ DOMAIN p.layer_to_tile = LayersOf(layers)
                 /\ \A t \in TilesOf(tiles) :
                       p.tiles[t].start = f[t] /\ p.tiles[t].end = f[t + 1]
                 /\ \A l \in LayersOf(layers) :
                       p.layer_to_tile[l] = CHOOSE t \in TilesOf(tiles) :
                                                f[t] <= l /\ l < f[t + 1]
    BY BuiltPlanFields
  <1>2. q \in Nat
    BY SMTT(30)
  <1>3. /\ \A t \in 0 .. tiles : f[t] \in 0 .. layers
        /\ \A t \in TilesOf(tiles) : f[t + 1] - f[t] \in {q, q + 1}
    BY <1>1, BoundariesFair, Zenon
  <1> HIDE DEF p, q
  <1>4. ASSUME NEW t \in TilesOf(tiles)
        PROVE  /\ t \in 0 .. tiles /\ t + 1 \in 0 .. tiles
               /\ f[t] \in 0 .. layers /\ f[t + 1] \in 0 .. layers /\ f[t] <= f[t + 1]
               /\ \A l \in LayersOf(layers) :
                     l \in LayersIn(p.tiles[t]) <=> f[t] <= l /\ l < f[t + 1]
    <2>1. t \in 0 .. tiles /\ t + 1 \in 0 .. tiles
      BY DEF TilesOf
    <2>2. f[t] \in 0 .. layers /\ f[t + 1] \in 0 .. layers /\ f[t] <= f[t + 1]
      BY <1>2, <1>3, <2>1
    <2>3. QED
      BY <1>1, <2>1, <2>2 DEF LayersIn, LayersOf
  <1>5. ASSUME NEW l \in LayersOf(layers)
        PROVE  /\ p.layer_to_tile[l] \in TilesOf(tiles)
               /\ \A t \in TilesOf(tiles) :
                     l \in LayersIn(p.tiles[t]) <=> p.layer_to_tile[l] = t
    <2>1. \E t \in TilesOf(tiles) : f[t] <= l /\ l < f[t + 1]
      BY <1>1, TileOfLayer
    <2>2. PICK c : c = p.layer_to_tile[l]
      OBVIOUS
    <2>3. c \in TilesOf(tiles) /\ f[c] <= l /\ l < f[c + 1]
      BY <1>1, <2>1, <2>2
    <2>4. \A t \in TilesOf(tiles) : f[t] <= l /\ l < f[t + 1] => t = c
      BY <1>1, <2>3, TileOfLayerIsUnique
    <2>5. QED
      BY <1>4, <2>2, <2>3, <2>4
  <1>6. PlanFor(p, layers, tiles)
    BY <1>1, <1>4, <1>5 DEF PlanFor
  <1>7. InLayerOrder(p)
    <2>1. SUFFICES ASSUME NEW t \in TilesOf(tiles), NEW u \in TilesOf(tiles), t < u,
                          NEW l \in LayersIn(p.tiles[t]), NEW k \in LayersIn(p.tiles[u])
                   PROVE  l < k
      BY <1>1 DEF InLayerOrder
    <2>2. t \in 0 .. tiles /\ u \in 0 .. tiles /\ t + 1 \in 0 .. tiles /\ t + 1 <= u
      BY <2>1 DEF TilesOf
    <2>3. f[t + 1] <= f[u]
      BY <1>1, <2>2, BoundariesAscend
    <2>4. l < f[t + 1] /\ f[u] <= k /\ l \in Int /\ k \in Int
      BY <1>1, <1>4 DEF LayersIn
    <2>5. QED
      BY <1>3, <2>2, <2>3, <2>4
  <1>8. ASSUME NEW t \in TilesOf(tiles)
        PROVE  Cardinality(LayersIn(p.tiles[t])) \in {q, q + 1}
    <2>1. LayersIn(p.tiles[t]) = f[t] .. f[t + 1] - 1
      BY <1>1 DEF LayersIn
    <2>2. PICK a \in Nat, b \in Nat : a = f[t] /\ b = f[t + 1] /\ a <= b /\ b - a \in {q, q + 1}
      BY <1>3, <1>4
    <2>3. Cardinality(a .. b - 1) = IF a > b - 1 THEN 0 ELSE (b - 1) - a + 1
      BY FS_Interval
    <2>4. QED
      BY <1>2, <2>1, <2>2, <2>3
  <1>9. QED
    BY <1>2, <1>6, <1>7, <1>8 DEF p

LEMMA MinAndMaxOf ==
    ASSUME NEW n \in Nat, NEW S, S \subseteq 0 .. n - 1, S # {}
    PROVE  Min(S) \in S /\ Max(S) \in S
  <1>1. \E m \in S : \A k \in S : m =< k
    <2>1. S \subseteq Nat
      OBVIOUS
    <2>2. QED
      BY <2>1, LeastNumber
  <1>2. \E m \in S : \A k \in S : m >= k
    <2> DEFINE Mirror == {n - k : k \in S}
    <2>1. Mirror \subseteq Nat /\ Mirror # {}
      OBVIOUS
    <2>2. PICK d \in Mirror : \A e \in Mirror : d <= e
      <3> HIDE DEF Mirror
      <3>1. QED
        BY <2>1, LeastNumber
    <2>3. PICK m \in S : d = n - m
      BY <2>2
    <2>4. ASSUME NEW k \in S
          PROVE  m >= k
      <3>1. n - m <= n - k
        BY <2>2, <2>3
      <3>2. m \in 0 .. n - 1 /\ k \in 0 .. n - 1
        OBVIOUS
      <3>3. QED
        BY <3>1, <3>2
    <2>5. QED
      BY <2>4
  <1>3. QED
    BY <1>1, <1>2 DEF Min, Max

\* The range made of the layers of a tile, where they are contiguous.
LEMMA RangeHoldsLayers ==
    ASSUME NEW n \in Nat, NEW entries, NEW t,
           LayersOn(entries, t) \subseteq LayersOf(n), Contiguous(LayersOn(entries, t)),
           NEW range, range = RangeOn(entries, t)
    PROVE  /\ range.start \in 0 .. n /\ range.end \in 0 .. n
           /\ range.start <= range.end
           /\ LayersIn(range) = LayersOn(entries, t)
  <1> DEFINE on == LayersOn(entries, t)
  <1>1. CASE on = {}
    <2>1. range = [start |-> 0, end |-> 0]
      BY <1>1 DEF RangeOn
    <2>2. LayersIn(range) = {}
      BY <2>1 DEF LayersIn
    <2>3. QED
      BY <1>1, <2>1, <2>2
  <1>2. CASE on # {}
    <2>1. range = [start |-> Min(on), end |-> Max(on) + 1]
      BY <1>2 DEF RangeOn
    <2>2. Min(on) \in on /\ Max(on) \in on
      <3>1. on \subseteq 0 .. n - 1
        BY DEF LayersOf
      <3> HIDE DEF on
      <3>2. QED
        BY <1>2, <3>1, MinAndMaxOf
    <2>3. on = Min(on) .. Max(on)
      BY <1>2 DEF Contiguous
    <2> HIDE DEF on
    <2>4. PICK a \in 0 .. n - 1, b \in 0 .. n - 1 : a = Min(on) /\ b = Max(on)
      BY <2>2 DEF on, LayersOf
    <2>5. a <= b
      BY <2>2, <2>3, <2>4
    <2>6. range.start = a /\ range.end = b + 1 /\ (b + 1) - 1 = b
      BY <2>1, <2>4
    <2>7. LayersIn(range) = on
      BY <2>3, <2>4, <2>6 DEF LayersIn
    <2>8. QED
      BY <2>4, <2>5, <2>6, <2>7 DEF on
  <1>3. QED
    BY <1>1, <1>2

LEMMA MetaPlanSound ==
    ASSUME NEW n \in Nat, NEW tiles \in Nat \ {0}, NEW proposed,
           FromMetaAccepts(proposed, n, tiles)
    PROVE  PlanFor(PlanFromMeta(proposed, tiles), n, tiles)
  <1> DEFINE p == PlanFromMeta(proposed, tiles)
             entries == proposed.entries
  <1>1. /\ DOMAIN entries = LayersOf(n)
        /\ \A l \in LayersOf(n) : entries[l] \in TilesOf(tiles)
        /\ \A t \in TilesOf(tiles) : Contiguous(LayersOn(entries, t))
    BY DEF FromMetaAccepts
  <1>2. /\ p.layer_to_tile = entries
        /\ DOMAIN p.tiles = TilesOf(tiles)
        /\ \A t \in TilesOf(tiles) : p.tiles[t] = RangeOn(entries, t)
    BY DEF PlanFromMeta
  <1> HIDE DEF p, entries
  <1>3. ASSUME NEW t \in TilesOf(tiles)
        PROVE  /\ p.tiles[t].start \in 0 .. n /\ p.tiles[t].end \in 0 .. n
               /\ p.tiles[t].start <= p.tiles[t].end
               /\ LayersIn(p.tiles[t]) = LayersOn(entries, t)
    <2>1. LayersOn(entries, t) \subseteq LayersOf(n)
      BY <1>1 DEF LayersOn
    <2>2. QED
      BY <1>1, <1>2, <2>1, RangeHoldsLayers
  <1>4. ASSUME NEW l \in LayersOf(n), NEW t \in TilesOf(tiles)
        PROVE  l \in LayersIn(p.tiles[t]) <=> p.layer_to_tile[l] = t
    BY <1>1, <1>2, <1>3 DEF LayersOn
  <1>5. PlanFor(p, n, tiles)
    BY <1>1, <1>2, <1>3, <1>4 DEF PlanFor
  <1>6. QED
    BY <1>5 DEF p

\* A plan made at run time is in layer order and balanced.
Balanced ==
    mode = "runtime" =>
        /\ InLayerOrder(plan)
        /\ \A t, u \in Tiles :
              Cardinality(LayersIn(plan.tiles[t]))
                  <= Cardinality(LayersIn(plan.tiles[u])) + 1

PlanHolds ==
    /\ model.layers \in Nat \ {0}
    /\ TileCount \in Nat \ {0}
    /\ PlanFor(plan, model.layers, TileCount)
    /\ Balanced

LEMMA TilesCounted ==
    ASSUME NEW tiles \in Nat \ {0}, DOMAIN plan.tiles = TilesOf(tiles)
    PROVE  TileCount = tiles
  <1>1. TilesOf(tiles) = 0 .. tiles - 1
    BY DEF TilesOf
  <1>2. Cardinality(0 .. tiles - 1) = IF 0 > tiles - 1 THEN 0 ELSE (tiles - 1) - 0 + 1
    BY FS_Interval
  <1>3. QED
    BY <1>1, <1>2 DEF TileCount

LEMMA ModelFields ==
    ASSUME model \in Models(LayerCounts)
    PROVE  /\ model.layers \in Nat \ {0}
           /\ model.format \in Kinds
  <1>1. PICK n \in LayerCounts :
            model \in [layers: {n}, format: Kinds, broken: SUBSET (0 .. n - 1)]
    BY DEF Models
  <1>2. QED
    BY <1>1, ClusterConfigValid

LEMMA PlanAtCreation == ClusterInit => PlanHolds
  <1> SUFFICES ASSUME ClusterInit
               PROVE  PlanHolds
    OBVIOUS
  <1> DEFINE n == model.layers
  <1>1. n \in Nat \ {0}
    BY ModelFields DEF ClusterInit, InferInit, Created
  <1>2. PICK tiles \in Nat \ {0} : RuntimePlan(tiles) \/ MetadataPlan(tiles)
    BY ClusterConfigValid DEF ClusterInit
  <1>3. CASE RuntimePlan(tiles)
    <2>1. plan = PlanBuild(n, tiles)
      BY <1>3 DEF RuntimePlan
    <2> HIDE DEF n
    <2>2. /\ PlanFor(plan, n, tiles)
          /\ InLayerOrder(plan)
          /\ \A t, u \in TilesOf(tiles) :
                Cardinality(LayersIn(plan.tiles[t]))
                    <= Cardinality(LayersIn(plan.tiles[u])) + 1
      BY <1>1, <2>1, BuiltPlanSound
    <2>3. TileCount = tiles
      BY <2>2, TilesCounted DEF PlanFor
    <2>4. QED
      BY <1>1, <2>2, <2>3 DEF PlanHolds, Balanced, Tiles, n
  <1>4. CASE MetadataPlan(tiles)
    <2>1. PICK proposed : FromMetaAccepts(proposed, n, tiles) /\ plan = PlanFromMeta(proposed, tiles)
      BY <1>4 DEF MetadataPlan
    <2>2. mode # "runtime"
      BY <1>4 DEF MetadataPlan
    <2> HIDE DEF n
    <2>3. PlanFor(plan, n, tiles)
      BY <1>1, <2>1, MetaPlanSound
    <2>4. TileCount = tiles
      BY <2>3, TilesCounted DEF PlanFor
    <2>5. QED
      BY <1>1, <2>2, <2>3, <2>4 DEF PlanHolds, Balanced, n
  <1>5. QED
    BY <1>2, <1>3, <1>4

\* No call changes the model, the plan or how it was made.
LEMMA PlanIsFixed == [ClusterNext]_clusterVars => UNCHANGED <<model, plan, mode>>
  <1> SUFFICES ASSUME [ClusterNext]_clusterVars
               PROVE  UNCHANGED <<model, plan, mode>>
    OBVIOUS
  <1>1. CASE Caller
    BY <1>1 DEF Caller, CallDecodeToken, CallGenerate
  <1>2. ASSUME NEW kind \in Kinds, ClusterSetBackend(kind)
        PROVE  UNCHANGED <<model, plan, mode>>
    BY <1>2 DEF ClusterSetBackend
  <1>3. CASE HostSends
    BY <1>3 DEF HostSends, context
  <1>4. CASE TileReceives
    BY <1>4 DEF TileReceives, context
  <1>5. CASE TileRunsLayer
    BY <1>5 DEF TileRunsLayer, context
  <1>6. CASE TileSends
    BY <1>6 DEF TileSends, context
  <1>7. CASE LastTileProjects
    BY <1>7 DEF LastTileProjects, context
  <1>8. CASE HostReceives
    BY <1>8 DEF HostReceives
  <1>9. CASE UNCHANGED clusterVars
    BY <1>9 DEF clusterVars, inferVars
  <1>10. QED
    BY <1>1, <1>2, <1>3, <1>4, <1>5, <1>6, <1>7, <1>8, <1>9 DEF ClusterNext

LEMMA PlanKept == PlanHolds /\ [ClusterNext]_clusterVars => PlanHolds'
  BY PlanIsFixed DEF PlanHolds, Balanced, TileCount, Tiles

LEMMA PlanHoldsIsSound == PlanHolds => PlanSound
  <1> SUFFICES ASSUME PlanHolds
               PROVE  PlanSound
    OBVIOUS
  <1> DEFINE n == model.layers
  <1>1. n \in Nat \ {0} /\ TileCount \in Nat \ {0} /\ PlanFor(plan, n, TileCount)
    BY DEF PlanHolds
  <1>2. PlanComplete(plan, n)
    <2> HIDE DEF n
    <2>1. QED
      BY <1>1, PlanIsComplete
  <1>3. ASSUME NEW l \in Layers
        PROVE  {t \in Tiles : l \in LayersIn(plan.tiles[t])} = {plan.layer_to_tile[l]}
    <2>1. l \in LayersOf(n)
      BY DEF Layers, LayersOf
    <2>2. plan.layer_to_tile[l] \in Tiles
      BY <1>1, <2>1 DEF PlanFor, Tiles
    <2>3. \A t \in Tiles : l \in LayersIn(plan.tiles[t]) <=> plan.layer_to_tile[l] = t
      BY <1>1, <2>1 DEF PlanFor, Tiles
    <2>4. QED
      BY <2>2, <2>3
  <1>4. QED
    BY <1>2, <1>3 DEF PlanSound, PlanHolds, Balanced

(***************************************************************************)
(* Every layer of a model is on exactly one tile, the layers of a tile are *)
(* consecutive, and decode accepts every plan a context was created with,  *)
(* whether it was made at run time or taken from metadata; plans made at   *)
(* run time are in layer order, and their tiles differ by one layer at     *)
(* most (att1_shard_plan_build, att1_shard_plan_from_meta).                *)
(***************************************************************************)
THEOREM PlansAreSound == ClusterSpec => []PlanSound
  <1>1. ClusterSpec => []PlanHolds
    BY PlanAtCreation, PlanKept, PTL DEF ClusterSpec
  <1>2. QED
    BY <1>1, PlanHoldsIsSound, PTL

(***************************************************************************)
(* Packets.                                                                *)
(***************************************************************************)
Endpoints == Tiles \union {Host}

\* No packet waits; the only one that waits is p, for endpoint d.
Quiet(f) == f = [t \in Endpoints |-> <<>>]
Only(f, d, p) == f = [t \in Endpoints |-> IF t = d THEN <<p>> ELSE <<>>]
Packet(type, payload) == [type |-> type, payload |-> payload]

\* Where the call is, and the one packet that is under way.
Moves ==
    /\ phase \in {"idle", "receive", "layers", "sample"}
    /\ tile \in Tiles
    /\ phase \in {"idle", "layers"} => Quiet(fabric)
    /\ phase = "receive" => Only(fabric, tile, Packet("ACTIVATION", hidden))
    /\ phase = "sample" => Only(fabric, Host, Packet("LOGITS", hidden))

TileCounters ==
    [activations_received : Nat, activations_sent : Nat, layers_run : Nat, logits_sent : Nat]

CountersMatch ==
    /\ position \in Nat
    /\ counters \in [Tiles -> TileCounters]
    /\ \A t \in Tiles \ {LastTile} :
          counters[t].activations_sent
              = counters[t + 1].activations_received
                    + (IF phase = "receive" /\ tile = t + 1 THEN 1 ELSE 0)
    /\ counters[LastTile].logits_sent >= position + (IF phase = "sample" THEN 1 ELSE 0)

TrafficInv == PlanHolds /\ Moves /\ CountersMatch

LEMMA TileFacts ==
    ASSUME PlanHolds
    PROVE  /\ TileCount \in Nat \ {0} /\ Host \in Nat /\ LastTile \in Nat
           /\ Tiles \subseteq Nat /\ 0 \in Tiles /\ LastTile \in Tiles
           /\ Host \notin Tiles
           /\ \A t \in Tiles : /\ t <= LastTile
                               /\ t # LastTile => t + 1 \in Tiles /\ t < LastTile
  <1>1. TileCount \in Nat \ {0}
    BY DEF PlanHolds
  <1>2. Tiles = 0 .. TileCount - 1 /\ Host = TileCount /\ LastTile = TileCount - 1
    BY DEF Tiles, TilesOf, Host, LastTile
  <1>3. QED
    BY <1>1, <1>2

LEMMA SendIntoQuiet ==
    ASSUME Quiet(fabric), NEW d \in Endpoints, NEW type, NEW payload
    PROVE  /\ HasRoom(d)
           /\ Only(Sent(d, type, payload), d, Packet(type, payload))
  <1>1. fabric = [t \in Endpoints |-> <<>>]
    BY DEF Quiet
  <1>2. HasRoom(d)
    BY <1>1, ClusterConfigValid DEF HasRoom
  <1>3. Append(fabric[d], Packet(type, payload)) = <<Packet(type, payload)>>
    BY <1>1
  <1>4. Sent(d, type, payload) = [fabric EXCEPT ![d] = <<Packet(type, payload)>>]
    BY <1>3 DEF Sent, Packet
  <1>5. QED
    BY <1>1, <1>2, <1>4 DEF Only

LEMMA TakeTheOnly ==
    ASSUME NEW d \in Endpoints, NEW type, NEW payload,
           Only(fabric, d, Packet(type, payload))
    PROVE  /\ fabric[d] # <<>>
           /\ Arrived(d, type)
           /\ Payload(d) = payload
           /\ Quiet(Taken(d))
  <1>1. fabric[d] = <<Packet(type, payload)>>
    BY DEF Only
  <1>2. Head(fabric[d]) = Packet(type, payload) /\ Tail(fabric[d]) = <<>> /\ fabric[d] # <<>>
    BY <1>1
  <1>3. Arrived(d, type) /\ Payload(d) = payload
    BY <1>2 DEF Arrived, Payload, Packet
  <1>4. Taken(d) = [fabric EXCEPT ![d] = <<>>]
    BY <1>2 DEF Taken
  <1>5. QED
    BY <1>2, <1>3, <1>4 DEF Only, Quiet

LEMMA EndpointsKept ==
    ASSUME plan' = plan
    PROVE  /\ Tiles' = Tiles /\ Host' = Host /\ LastTile' = LastTile
           /\ TileCount' = TileCount /\ Endpoints' = Endpoints
  BY DEF Tiles, Host, LastTile, TileCount, Endpoints

\* A call that fails, with no packet under way.
LEMMA FailIsQuiet ==
    ASSUME TrafficInv, Fail, UNCHANGED <<plan, tile>>, Quiet(fabric)'
    PROVE  Moves'
  <1>1. phase' = "idle" /\ tile' = tile /\ Tiles' = Tiles
    BY EndpointsKept DEF Fail
  <1>2. QED
    BY <1>1 DEF Moves, TrafficInv

LEMMA MovesAtCreation == ClusterInit => Moves
  <1> SUFFICES ASSUME ClusterInit
               PROVE  Moves
    OBVIOUS
  <1>1. phase = "idle" /\ tile = 0 /\ fabric = [t \in Tiles \union {Host} |-> <<>>]
    BY DEF ClusterInit, InferInit
  <1>2. 0 \in Tiles
    BY PlanAtCreation, TileFacts
  <1>3. QED
    BY <1>1, <1>2 DEF Moves, Quiet, Endpoints

LEMMA MovesKept ==
    ASSUME TrafficInv, [ClusterNext]_clusterVars
    PROVE  Moves'
  <1>0. plan' = plan /\ PlanHolds /\ Moves
    BY PlanIsFixed DEF TrafficInv
  <1>1. Tiles' = Tiles /\ Host' = Host /\ LastTile' = LastTile /\ Endpoints' = Endpoints
    BY <1>0, EndpointsKept
  <1>2. /\ 0 \in Tiles /\ LastTile \in Tiles
        /\ \A t \in Tiles : t # LastTile => t + 1 \in Tiles /\ t < LastTile
        /\ Tiles \subseteq Endpoints /\ Host \in Endpoints
        /\ Tiles \subseteq Nat /\ LastTile \in Nat
    BY <1>0, TileFacts DEF Endpoints
  <1>3. CASE Caller
    BY <1>0, <1>1, <1>3 DEF Caller, CallDecodeToken, CallGenerate, Moves, Quiet, Only, Idle
  <1>4. ASSUME NEW kind \in Kinds, ClusterSetBackend(kind)
        PROVE  Moves'
    BY <1>0, <1>1, <1>4 DEF ClusterSetBackend, Moves, Quiet, Only
  <1>5. CASE HostSends
    <2>1. phase = "idle" /\ Quiet(fabric)
      BY <1>0, <1>5 DEF HostSends, Moves
    <2>2. CASE fabric' = Sent(0, "ACTIVATION", Embedding(Token)) /\ phase' = "receive" /\ tile' = 0
      <3>1. hidden' = Embedding(Token)
        BY <1>5, <2>2 DEF HostSends, Fail
      <3>2. Only(fabric', tile', Packet("ACTIVATION", hidden'))
        BY <1>2, <2>1, <2>2, <3>1, SendIntoQuiet
      <3>3. QED
        BY <1>1, <1>2, <2>2, <3>2 DEF Moves, Only
    <2>3. CASE Fail /\ UNCHANGED <<fabric, tile>>
      <3>1. Quiet(fabric)'
        BY <1>1, <2>1, <2>3 DEF Quiet
      <3>2. QED
        BY <1>0, <2>3, <3>1, FailIsQuiet
    <2>4. QED
      BY <1>5, <2>2, <2>3 DEF HostSends
  <1>6. CASE TileReceives
    <2>1. phase = "receive" /\ tile \in Endpoints /\ Only(fabric, tile, Packet("ACTIVATION", hidden))
      BY <1>0, <1>2, <1>6 DEF TileReceives, Moves
    <2>2. fabric[tile] # <<>> /\ Arrived(tile, "ACTIVATION") /\ Quiet(Taken(tile))
      BY <2>1, TakeTheOnly
    <2>3. fabric' = Taken(tile) /\ phase' = "layers" /\ tile' = tile
      BY <1>6, <2>2 DEF TileReceives
    <2>4. QED
      BY <1>0, <1>1, <2>2, <2>3 DEF Moves, Quiet
  <1>7. CASE TileRunsLayer
    <2>1. phase = "layers" /\ fabric' = fabric /\ tile' = tile
      BY <1>7 DEF TileRunsLayer
    <2>2. phase' \in {"layers", "idle"}
      BY <1>7 DEF TileRunsLayer, Fail
    <2>3. QED
      BY <1>0, <1>1, <2>1, <2>2 DEF Moves, Quiet
  <1>8. CASE TileSends
    <2>1. phase = "layers" /\ tile < LastTile /\ tile \in Tiles /\ Quiet(fabric) /\ hidden' = hidden
      BY <1>0, <1>8 DEF TileSends, Moves
    <2>2. tile + 1 \in Tiles /\ tile + 1 \in Endpoints
      BY <1>2, <2>1
    <2>3. HasRoom(tile + 1) /\ Only(Sent(tile + 1, "ACTIVATION", hidden), tile + 1,
                                   Packet("ACTIVATION", hidden))
      BY <2>1, <2>2, SendIntoQuiet
    <2>4. fabric' = Sent(tile + 1, "ACTIVATION", hidden) /\ tile' = tile + 1 /\ phase' = "receive"
      BY <1>8, <2>3 DEF TileSends
    <2>5. Only(fabric', tile', Packet("ACTIVATION", hidden'))
      BY <2>1, <2>3, <2>4
    <2>6. QED
      BY <1>1, <2>2, <2>4, <2>5 DEF Moves, Only
  <1>9. CASE LastTileProjects
    <2>1. phase = "layers" /\ tile' = tile /\ hidden' = hidden /\ Quiet(fabric)
      BY <1>0, <1>9 DEF LastTileProjects, Moves
    <2>2. CASE fabric' = Sent(Host, "LOGITS", hidden) /\ phase' = "sample"
      <3>1. Only(fabric', Host, Packet("LOGITS", hidden'))
        BY <1>2, <2>1, <2>2, SendIntoQuiet
      <3>2. QED
        BY <1>0, <1>1, <2>1, <2>2, <3>1 DEF Moves, Only
    <2>3. CASE Fail /\ fabric' = fabric
      <3>1. Quiet(fabric)'
        BY <1>1, <2>1, <2>3 DEF Quiet
      <3>2. QED
        BY <1>0, <2>1, <2>3, <3>1, FailIsQuiet
    <2>4. QED
      BY <1>9, <2>2, <2>3 DEF LastTileProjects
  <1>10. CASE HostReceives
    <2>1. phase = "sample" /\ tile' = tile /\ Only(fabric, Host, Packet("LOGITS", hidden))
      BY <1>0, <1>10 DEF HostReceives, Moves
    <2>2. fabric[Host] # <<>> /\ Quiet(Taken(Host))
      BY <1>2, <2>1, TakeTheOnly
    <2>3. fabric' = Taken(Host) /\ phase' = "idle"
      BY <1>10, <2>2 DEF HostReceives, Fail
    <2>4. QED
      BY <1>0, <1>1, <2>1, <2>2, <2>3 DEF Moves, Quiet
  <1>11. CASE UNCHANGED clusterVars
    BY <1>0, <1>1, <1>11 DEF clusterVars, inferVars, Moves, Quiet, Only
  <1>12. QED
    BY <1>3, <1>4, <1>5, <1>6, <1>7, <1>8, <1>9, <1>10, <1>11 DEF ClusterNext

LEMMA CountAdds ==
    ASSUME counters \in [Tiles -> TileCounters], NEW t \in Tiles,
           NEW field \in {"activations_received", "activations_sent", "layers_run", "logits_sent"}
    PROVE  /\ Count(t, field) \in [Tiles -> TileCounters]
           /\ Count(t, field)[t][field] = counters[t][field] + 1
           /\ \A g \in {"activations_received", "activations_sent", "layers_run", "logits_sent"} :
                 g # field => Count(t, field)[t][g] = counters[t][g]
           /\ \A u \in Tiles : u # t => Count(t, field)[u] = counters[u]
  BY DEF Count, TileCounters

\* The two accounts a packet is in, before and after.
LEMMA CountersAfter ==
    ASSUME UNCHANGED plan, position' \in Nat,
           counters' \in [Tiles -> TileCounters],
           \A t \in Tiles \ {LastTile} :
               counters'[t].activations_sent
                   = counters'[t + 1].activations_received
                         + (IF phase' = "receive" /\ tile' = t + 1 THEN 1 ELSE 0),
           counters'[LastTile].logits_sent >= position' + (IF phase' = "sample" THEN 1 ELSE 0)
    PROVE  CountersMatch'
  BY EndpointsKept DEF CountersMatch

LEMMA CountersAtCreation == ClusterInit => CountersMatch
  <1> SUFFICES ASSUME ClusterInit
               PROVE  CountersMatch
    OBVIOUS
  <1>1. phase = "idle" /\ position = 0 /\ counters = [t \in Tiles |-> ZeroTileCounters]
    BY DEF ClusterInit, InferInit
  <1>2. LastTile \in Tiles /\ \A t \in Tiles : t # LastTile => t + 1 \in Tiles
    BY PlanAtCreation, TileFacts
  <1>3. QED
    BY <1>1, <1>2 DEF CountersMatch, ZeroTileCounters, TileCounters

\* A step that counts nothing and does not pass the activation on.
LEMMA CountersUntouched ==
    ASSUME TrafficInv, UNCHANGED <<plan, counters, tile>>, position' \in Nat,
           (phase' = "receive") <=> (phase = "receive"),
           position' + (IF phase' = "sample" THEN 1 ELSE 0)
               <= position + (IF phase = "sample" THEN 1 ELSE 0)
    PROVE  CountersMatch'
  <1>1. LastTile \in Tiles /\ CountersMatch
    BY TileFacts DEF TrafficInv
  <1>2. PICK k \in Nat : k = counters[LastTile].logits_sent
    BY <1>1 DEF CountersMatch, TileCounters
  <1>3. position \in Nat
    BY <1>1 DEF CountersMatch
  <1>6. k >= position + (IF phase = "sample" THEN 1 ELSE 0)
    BY <1>1, <1>2 DEF CountersMatch
  <1>4. counters'[LastTile].logits_sent >= position' + (IF phase' = "sample" THEN 1 ELSE 0)
    <2> DEFINE now == IF phase = "sample" THEN 1 ELSE 0
               then == IF phase' = "sample" THEN 1 ELSE 0
    <2>0. now \in Nat /\ then \in Nat
      OBVIOUS
    <2>1. k >= position + now /\ position' + then <= position + now
      BY <1>6
    <2> HIDE DEF now, then
    <2>2. PICK p \in Nat, q \in Nat : p = position /\ q = position'
      BY <1>3
    <2>3. k >= position' + then
      <3>1. k >= p + now /\ q + then <= p + now
        BY <2>1, <2>2
      <3>2. k >= q + then
        BY <2>0, <3>1
      <3>3. QED
        BY <2>2, <3>2
    <2>4. QED
      BY <1>2, <2>3 DEF then
  <1>5. QED
    BY <1>1, <1>4, CountersAfter DEF CountersMatch

LEMMA CountersKept ==
    ASSUME TrafficInv, [ClusterNext]_clusterVars
    PROVE  CountersMatch'
  <1>0. plan' = plan /\ PlanHolds /\ Moves /\ CountersMatch /\ position \in Nat
    BY PlanIsFixed DEF TrafficInv, CountersMatch
  <1>1. /\ Tiles \subseteq Nat /\ LastTile \in Tiles /\ tile \in Tiles
        /\ \A t \in Tiles : t # LastTile => t + 1 \in Tiles /\ t < LastTile
    BY <1>0, TileFacts DEF Moves
  <1>2. counters \in [Tiles -> TileCounters]
    BY <1>0 DEF CountersMatch
  <1>3. CASE Caller
    <2>1. UNCHANGED <<plan, counters, tile, position, phase>>
      BY <1>3 DEF Caller, CallDecodeToken, CallGenerate
    <2>2. QED
      BY <1>0, <2>1, CountersUntouched
  <1>4. ASSUME NEW kind \in Kinds, ClusterSetBackend(kind)
        PROVE  CountersMatch'
    BY <1>0, <1>4, CountersUntouched DEF ClusterSetBackend
  <1>5. CASE HostSends
    <2>1. phase = "idle" /\ UNCHANGED <<counters, position>> /\ phase' \in {"idle", "receive"}
          /\ (phase' = "receive" => tile' = 0)
      BY <1>5 DEF HostSends, Fail, context
    <2>2. \A t \in Tiles : tile' = t + 1 => phase' # "receive"
      BY <1>1, <2>1
    <2>3. QED
      BY <1>0, <1>2, <2>1, <2>2, CountersAfter DEF CountersMatch
  <1>6. CASE TileReceives
    <2>1. phase = "receive" /\ tile \in Endpoints /\ Only(fabric, tile, Packet("ACTIVATION", hidden))
      BY <1>0, <1>6 DEF TileReceives, Moves, Endpoints
    <2>2. Arrived(tile, "ACTIVATION")
      BY <2>1, TakeTheOnly
    <2>3. counters' = Count(tile, "activations_received") /\ phase' = "layers" /\ position' = position
      BY <1>6, <2>2 DEF TileReceives, context
    <2> DEFINE c == Count(tile, "activations_received")
    <2>4. /\ c \in [Tiles -> TileCounters]
          /\ c[tile].activations_received = counters[tile].activations_received + 1
          /\ \A t \in Tiles : /\ c[t].activations_sent = counters[t].activations_sent
                              /\ c[t].logits_sent = counters[t].logits_sent
                              /\ t # tile => c[t] = counters[t]
      BY <1>1, <1>2, CountAdds
    <2> HIDE DEF c
    <2>5. ASSUME NEW t \in Tiles \ {LastTile}
          PROVE  c[t].activations_sent = c[t + 1].activations_received
      <3>1. t + 1 \in Tiles
        BY <1>1
      <3>2. PICK s \in Nat, r \in Nat :
                s = counters[t].activations_sent /\ r = counters[t + 1].activations_received
        BY <1>2, <3>1 DEF TileCounters
      <3>3. s = r + (IF tile = t + 1 THEN 1 ELSE 0)
        BY <1>0, <2>1, <3>2 DEF CountersMatch
      <3>4. c[t].activations_sent = s
        BY <2>4, <3>2
      <3>5. c[t + 1].activations_received = r + (IF tile = t + 1 THEN 1 ELSE 0)
        BY <2>4, <3>1, <3>2
      <3>6. QED
        BY <3>3, <3>4, <3>5
    <2>6. c[LastTile].logits_sent = counters[LastTile].logits_sent
          /\ counters[LastTile].logits_sent >= position
      <3>1. PICK k \in Nat : k = counters[LastTile].logits_sent
        BY <1>1, <1>2 DEF TileCounters
      <3>2. k >= position + 0
        BY <1>0, <2>1, <3>1 DEF CountersMatch
      <3>3. QED
        BY <1>0, <1>1, <2>4, <3>1, <3>2
    <2>7. \A t \in Tiles \ {LastTile} :
              counters'[t].activations_sent
                   = counters'[t + 1].activations_received
                         + (IF phase' = "receive" /\ tile' = t + 1 THEN 1 ELSE 0)
      <3>1. SUFFICES ASSUME NEW t \in Tiles \ {LastTile}
                     PROVE  c[t].activations_sent = c[t + 1].activations_received + 0
        BY <2>3 DEF c
      <3>2. c[t + 1].activations_received \in Nat
        BY <1>1, <2>4 DEF TileCounters
      <3>3. QED
        BY <2>5, <3>2
    <2>8. counters'[LastTile].logits_sent >= position' + (IF phase' = "sample" THEN 1 ELSE 0)
      BY <1>0, <2>3, <2>6 DEF c
    <2>9. counters' \in [Tiles -> TileCounters]
      BY <2>3, <2>4 DEF c
    <2>10. QED
      BY <1>0, <2>3, <2>7, <2>8, <2>9, CountersAfter
  <1>7. CASE TileRunsLayer
    <2>1. phase = "layers" /\ position' = position /\ tile' = tile /\ phase' \in {"layers", "idle"}
      BY <1>7 DEF TileRunsLayer, context, Fail
    <2>2. CASE counters' = counters
      BY <1>0, <2>1, <2>2, CountersUntouched
    <2>3. CASE counters' = Count(tile, "layers_run")
      <3> DEFINE c == Count(tile, "layers_run")
      <3>1. /\ c \in [Tiles -> TileCounters]
            /\ \A t \in Tiles : /\ c[t].activations_sent = counters[t].activations_sent
                                /\ c[t].activations_received = counters[t].activations_received
                                /\ c[t].logits_sent = counters[t].logits_sent
        BY <1>1, <1>2, CountAdds
      <3> HIDE DEF c
      <3>2. counters' = c
        BY <2>3 DEF c
      <3>3. QED
        BY <1>0, <1>1, <2>1, <3>1, <3>2, CountersAfter DEF CountersMatch
    <2>4. QED
      BY <1>7, <2>2, <2>3 DEF TileRunsLayer
  <1>8. CASE TileSends
    <2>1. phase = "layers" /\ tile < LastTile /\ position' = position
      BY <1>8 DEF TileSends, context
    <2>2. CASE Fail /\ UNCHANGED <<counters, tile>>
      BY <1>0, <2>1, <2>2, CountersUntouched DEF Fail
    <2>3. CASE counters' = Count(tile, "activations_sent") /\ tile' = tile + 1 /\ phase' = "receive"
      <3> DEFINE c == Count(tile, "activations_sent")
      <3>1. /\ c \in [Tiles -> TileCounters]
            /\ c[tile].activations_sent = counters[tile].activations_sent + 1
            /\ \A t \in Tiles : /\ c[t].activations_received = counters[t].activations_received
                                /\ c[t].logits_sent = counters[t].logits_sent
                                /\ t # tile => c[t] = counters[t]
        BY <1>1, <1>2, CountAdds
      <3> HIDE DEF c
      <3>2. counters' = c
        BY <2>3 DEF c
      <3>3. ASSUME NEW t \in Tiles \ {LastTile}
            PROVE  c[t].activations_sent
                       = c[t + 1].activations_received + (IF tile' = t + 1 THEN 1 ELSE 0)
        <4>1. t + 1 \in Tiles /\ (tile + 1 = t + 1 <=> tile = t)
          BY <1>1
        <4>2. PICK s \in Nat, r \in Nat :
                  s = counters[t].activations_sent /\ r = counters[t + 1].activations_received
          BY <1>2, <4>1 DEF TileCounters
        <4>3. s = r + 0
          BY <1>0, <2>1, <4>2 DEF CountersMatch
        <4>4. c[t].activations_sent = s + (IF tile = t THEN 1 ELSE 0)
          BY <3>1, <4>2
        <4>5. c[t + 1].activations_received = r
          BY <3>1, <4>1, <4>2
        <4>6. QED
          BY <2>3, <4>1, <4>3, <4>4, <4>5
      <3>4. c[LastTile].logits_sent >= position
        <4>1. PICK k \in Nat : k = counters[LastTile].logits_sent
          BY <1>1, <1>2 DEF TileCounters
        <4>2. k >= position + 0
          BY <1>0, <2>1, <4>1 DEF CountersMatch
        <4>3. c[LastTile].logits_sent = k
          BY <1>1, <3>1, <4>1
        <4>4. QED
          BY <1>0, <4>2, <4>3
      <3>5. QED
        BY <1>0, <2>1, <2>3, <3>1, <3>2, <3>3, <3>4, CountersAfter
    <2>4. QED
      BY <1>8, <2>2, <2>3 DEF TileSends
  <1>9. CASE LastTileProjects
    <2>1. phase = "layers" /\ tile = LastTile /\ tile' = tile /\ position' = position
      BY <1>9 DEF LastTileProjects, context
    <2>2. CASE Fail /\ UNCHANGED counters
      BY <1>0, <2>1, <2>2, CountersUntouched DEF Fail
    <2>3. CASE counters' = Count(tile, "logits_sent") /\ phase' = "sample"
      <3> DEFINE c == Count(tile, "logits_sent")
      <3>1. /\ c \in [Tiles -> TileCounters]
            /\ c[tile].logits_sent = counters[tile].logits_sent + 1
            /\ \A t \in Tiles : /\ c[t].activations_sent = counters[t].activations_sent
                                /\ c[t].activations_received = counters[t].activations_received
        BY <1>1, <1>2, CountAdds
      <3> HIDE DEF c
      <3>2. counters' = c
        BY <2>3 DEF c
      <3>3. c[LastTile].logits_sent >= position + 1
        <4>1. PICK k \in Nat : k = counters[LastTile].logits_sent
          BY <1>1, <1>2 DEF TileCounters
        <4>2. k >= position + 0
          BY <1>0, <2>1, <4>1 DEF CountersMatch
        <4>3. QED
          BY <1>0, <2>1, <3>1, <4>1, <4>2
      <3>4. \A t \in Tiles \ {LastTile} :
                c[t].activations_sent = c[t + 1].activations_received + 0
        BY <1>0, <1>1, <2>1, <3>1 DEF CountersMatch
      <3>5. QED
        BY <1>0, <2>1, <2>3, <3>1, <3>2, <3>3, <3>4, CountersAfter
    <2>4. QED
      BY <1>9, <2>2, <2>3 DEF LastTileProjects
  <1>10. CASE HostReceives
    <2>1. phase = "sample" /\ phase' = "idle" /\ position' \in {position, position + 1}
          /\ UNCHANGED <<counters, tile>>
      BY <1>10 DEF HostReceives, Fail
    <2>2. position' + 0 <= position + 1 /\ position' \in Nat
      <3>1. PICK p \in Nat : p = position
        BY <1>0
      <3>2. position' = p \/ position' = p + 1
        BY <2>1, <3>1
      <3>3. QED
        BY <3>1, <3>2
    <2>3. QED
      BY <1>0, <2>1, <2>2, CountersUntouched
  <1>11. CASE UNCHANGED clusterVars
    BY <1>0, <1>11, CountersUntouched DEF clusterVars, inferVars
  <1>12. QED
    BY <1>3, <1>4, <1>5, <1>6, <1>7, <1>8, <1>9, <1>10, <1>11 DEF ClusterNext

LEMMA TrafficIsDrained == TrafficInv => FabricDrained
  <1> SUFFICES ASSUME TrafficInv, phase = "idle"
               PROVE  /\ \A t \in DOMAIN fabric : fabric[t] = <<>>
                      /\ \A t \in Tiles \ {LastTile} :
                            counters[t].activations_sent = counters[t + 1].activations_received
                      /\ counters[LastTile].logits_sent >= position
    BY DEF FabricDrained
  <1>1. PlanHolds /\ Moves /\ CountersMatch /\ counters \in [Tiles -> TileCounters]
    BY DEF TrafficInv, CountersMatch
  <1>2. LastTile \in Tiles /\ \A t \in Tiles : t # LastTile => t + 1 \in Tiles
    BY <1>1, TileFacts
  <1>3. \A t \in DOMAIN fabric : fabric[t] = <<>>
    BY <1>1 DEF Moves, Quiet
  <1>4. ASSUME NEW t \in Tiles \ {LastTile}
        PROVE  counters[t].activations_sent = counters[t + 1].activations_received
    <2>1. PICK r \in Nat : r = counters[t + 1].activations_received
      BY <1>1, <1>2 DEF TileCounters
    <2>2. counters[t].activations_sent = r + 0
      BY <1>1, <2>1 DEF CountersMatch
    <2>3. QED
      BY <2>1, <2>2
  <1>5. counters[LastTile].logits_sent >= position
    <2>1. PICK p \in Nat : p = position
      BY <1>1 DEF CountersMatch
    <2>2. counters[LastTile].logits_sent >= p + 0
      BY <1>1, <2>1 DEF CountersMatch
    <2>3. QED
      BY <2>1, <2>2
  <1>6. QED
    BY <1>3, <1>4, <1>5

LEMMA TrafficInductive == ClusterSpec => []TrafficInv
  <1>1. ClusterInit => TrafficInv
    BY PlanAtCreation, MovesAtCreation, CountersAtCreation DEF TrafficInv
  <1>2. TrafficInv /\ [ClusterNext]_clusterVars => TrafficInv'
    BY PlanKept, MovesKept, CountersKept DEF TrafficInv
  <1>3. QED
    BY <1>1, <1>2, PTL DEF ClusterSpec

(***************************************************************************)
(* Between calls no packet waits in the fabric of the context and every    *)
(* tile has received what the tile before it has sent, whatever failed and *)
(* whichever plan is in use: a decode step never picks up a packet of an   *)
(* earlier one (att1_cluster_infer_decode_token).                          *)
(***************************************************************************)
THEOREM NothingStaysBehind == ClusterSpec => []FabricDrained
  BY TrafficInductive, TrafficIsDrained, PTL

(***************************************************************************)
(* Plans in layer order: every plan made at run time, and those of shard   *)
(* metadata where the tiles ascend with the layers.                        *)
(***************************************************************************)
MetadataInOrder ==
    \A n \in LayerCounts, tiles \in TileCounts :
        \A meta \in Metas(n) :
            FromMetaAccepts(MetaPlanBuild(meta), n, tiles)
                => InLayerOrder(PlanFromMeta(MetaPlanBuild(meta), tiles))

Activations == [token : Vocabulary, applied : Seq(Nat \X Kinds)]
Depth == Len(hidden.applied)
InOrder(a) == \A i \in 1 .. Len(a.applied) : a.applied[i][1] = i - 1

\* The layers that have run: those of the tiles before, and of this tile those
\* before the layer.
RanUpTo ==
    /\ phase = "receive" => \A l \in Layers : l < Depth <=> plan.layer_to_tile[l] < tile
    /\ phase = "layers" =>
          /\ layer \in plan.tiles[tile].start .. plan.tiles[tile].end
          /\ \A l \in Layers :
                l < Depth <=> \/ plan.layer_to_tile[l] < tile
                              \/ plan.layer_to_tile[l] = tile /\ l < layer
    /\ phase = "sample" => Depth = model.layers /\ logits = hidden

Progress ==
    /\ hidden \in Activations /\ InOrder(hidden)
    /\ Depth <= model.layers
    /\ backend \in Kinds
    /\ RanUpTo

OrderInv == TrafficInv /\ InLayerOrder(plan) /\ Progress

LEMMA OrderAtCreation ==
    ASSUME MetadataInOrder, ClusterInit
    PROVE  InLayerOrder(plan)
  <1>1. PlanHolds /\ model.layers \in LayerCounts
    <2>1. PICK n \in LayerCounts :
              model \in [layers: {n}, format: Kinds, broken: SUBSET (0 .. n - 1)]
      BY DEF ClusterInit, InferInit, Created, Models
    <2>2. QED
      BY <2>1, PlanAtCreation
  <1>2. PICK tiles \in TileCounts : RuntimePlan(tiles) \/ MetadataPlan(tiles)
    BY DEF ClusterInit
  <1>3. CASE RuntimePlan(tiles)
    BY <1>1, <1>3 DEF RuntimePlan, PlanHolds, Balanced
  <1>4. CASE MetadataPlan(tiles)
    BY <1>1, <1>4 DEF MetadataPlan, MetadataInOrder
  <1>5. QED
    BY <1>2, <1>3, <1>4

LEMMA EmbeddingIsEmpty ==
    ASSUME NEW token \in Vocabulary
    PROVE  /\ Embedding(token) \in Activations /\ InOrder(Embedding(token))
           /\ Len(Embedding(token).applied) = 0
           /\ Embedding(token).token = token
  <1>1. <<>> \in Seq(Nat \X Kinds) /\ Len(<<>>) = 0
    OBVIOUS
  <1>2. Embedding(token) = [token |-> token, applied |-> <<>>]
    BY DEF Embedding
  <1>3. QED
    BY <1>1, <1>2 DEF Activations, InOrder

LEMMA ThroughAddsLayer ==
    ASSUME NEW a \in Activations, InOrder(a), NEW l \in Nat, l = Len(a.applied),
           NEW kind \in Kinds
    PROVE  /\ Through(a, l, kind) \in Activations /\ InOrder(Through(a, l, kind))
           /\ Len(Through(a, l, kind).applied) = l + 1
           /\ Through(a, l, kind).token = a.token
  <1> DEFINE b == Through(a, l, kind)
  <1>1. PICK token \in Vocabulary, s \in Seq(Nat \X Kinds) :
            a = [token |-> token, applied |-> s]
    BY DEF Activations
  <1> DEFINE r == Append(s, <<l, kind>>)
  <1>2. b = [token |-> token, applied |-> r]
    <2>1. a.applied = s
      BY <1>1
    <2>2. Through(a, l, kind) = [a EXCEPT !.applied = r]
      BY <2>1, Zenon DEF Through
    <2> HIDE DEF r
    <2>3. QED
      BY <1>1, <2>2
  <1>3. Append(s, <<l, kind>>) \in Seq(Nat \X Kinds) /\ Len(Append(s, <<l, kind>>)) = l + 1
        /\ l = Len(s) /\ <<l, kind>> \in Nat \X Kinds
    BY <1>1
  <1>4. \A i \in 1 .. l + 1 :
            Append(s, <<l, kind>>)[i] = IF i = l + 1 THEN <<l, kind>> ELSE s[i]
    BY <1>3
  <1>5. \A i \in 1 .. l : s[i][1] = i - 1
    BY <1>1 DEF InOrder
  <1>6. b.applied = Append(s, <<l, kind>>) /\ b.token = a.token
    BY <1>1, <1>2
  <1>7. b \in Activations
    <2>1. r \in Seq(Nat \X Kinds)
      BY <1>3
    <2> HIDE DEF r
    <2>2. QED
      BY <1>2, <2>1 DEF Activations
  <1> HIDE DEF b
  <1>8. InOrder(b)
    <2>1. ASSUME NEW i \in 1 .. l + 1
          PROVE  b.applied[i][1] = i - 1
      <3>1. CASE i = l + 1
        <4>1. b.applied[i] = <<l, kind>>
          BY <1>4, <1>6, <3>1
        <4>2. QED
          BY <3>1, <4>1
      <3>2. CASE i # l + 1
        <4>1. i \in 1 .. l
          BY <3>2
        <4>2. b.applied[i] = s[i]
          BY <1>4, <1>6, <3>2
        <4>3. QED
          BY <1>5, <4>1, <4>2
      <3>3. QED
        BY <3>1, <3>2
    <2>2. Len(b.applied) = l + 1
      BY <1>3, <1>6
    <2>3. QED
      BY <2>1, <2>2 DEF InOrder
  <1>9. QED
    BY <1>3, <1>6, <1>7, <1>8 DEF b

LEMMA PlacesOfLayers ==
    ASSUME PlanHolds
    PROVE  /\ model.layers \in Nat \ {0} /\ Layers \subseteq Nat
           /\ \A t \in Tiles : /\ plan.tiles[t].start \in Nat /\ plan.tiles[t].end \in Nat
                               /\ plan.tiles[t].start <= plan.tiles[t].end
                               /\ plan.tiles[t].end <= model.layers
           /\ \A l \in Layers : /\ plan.layer_to_tile[l] \in Tiles
                                /\ \A t \in Tiles :
                                      plan.layer_to_tile[l] = t
                                          <=> plan.tiles[t].start <= l /\ l < plan.tiles[t].end
  <1> DEFINE n == model.layers
  <1>1. n \in Nat \ {0} /\ PlanFor(plan, n, TileCount)
    BY DEF PlanHolds
  <1>2. Layers = LayersOf(n) /\ Layers = 0 .. n - 1 /\ Layers \subseteq Nat
    BY <1>1 DEF Layers, LayersOf
  <1> HIDE DEF n
  <1>3. \A t \in Tiles : /\ plan.tiles[t].start \in Nat /\ plan.tiles[t].end \in Nat
                         /\ plan.tiles[t].start <= plan.tiles[t].end
                         /\ plan.tiles[t].end <= n
    BY <1>1 DEF PlanFor, Tiles
  <1>4. ASSUME NEW l \in Layers
        PROVE  /\ plan.layer_to_tile[l] \in Tiles
               /\ \A t \in Tiles :
                     plan.layer_to_tile[l] = t
                         <=> plan.tiles[t].start <= l /\ l < plan.tiles[t].end
    <2>1. /\ plan.layer_to_tile[l] \in Tiles
          /\ \A t \in Tiles : l \in LayersIn(plan.tiles[t]) <=> plan.layer_to_tile[l] = t
      BY <1>1, <1>2 DEF PlanFor, Tiles
    <2>2. \A t \in Tiles : l \in LayersIn(plan.tiles[t])
                              <=> plan.tiles[t].start <= l /\ l < plan.tiles[t].end
      BY <1>2, <1>3 DEF LayersIn
    <2>3. QED
      BY <2>1, <2>2
  <1>5. QED
    BY <1>1, <1>2, <1>3, <1>4 DEF n

LEMMA TilesAscend ==
    ASSUME PlanHolds, InLayerOrder(plan), NEW l \in Layers, NEW k \in Layers, l < k
    PROVE  plan.layer_to_tile[l] <= plan.layer_to_tile[k]
  <1>1. PICK t \in Tiles, u \in Tiles : t = plan.layer_to_tile[l] /\ u = plan.layer_to_tile[k]
    BY PlacesOfLayers
  <1>2. l \in LayersIn(plan.tiles[t]) /\ k \in LayersIn(plan.tiles[u])
    <2>1. l \in LayersOf(model.layers) /\ k \in LayersOf(model.layers)
      BY DEF Layers, LayersOf
    <2>2. QED
      BY <1>1, <2>1 DEF PlanHolds, PlanFor, Tiles
  <1>3. t \in DOMAIN plan.tiles /\ u \in DOMAIN plan.tiles
    BY DEF PlanHolds, PlanFor, Tiles
  <1>4. t \in Nat /\ u \in Nat /\ l \in Nat /\ k \in Nat
    BY TileFacts, PlacesOfLayers
  <1>5. ~ (u < t)
    BY <1>2, <1>3, <1>4 DEF InLayerOrder
  <1>6. QED
    BY <1>1, <1>4, <1>5

\* The layer to run next is the one the activation is due for.
LEMMA LayerIsDepth ==
    ASSUME OrderInv, phase = "layers", layer < plan.tiles[tile].end
    PROVE  /\ layer \in Layers /\ layer = Depth /\ plan.layer_to_tile[layer] = tile
  <1>1. PlanHolds /\ InLayerOrder(plan) /\ tile \in Tiles
    BY DEF OrderInv, TrafficInv, Moves
  <1>2. PICK s \in Nat, e \in Nat, n \in Nat \ {0} :
            s = plan.tiles[tile].start /\ e = plan.tiles[tile].end /\ e <= n /\ n = model.layers
    BY <1>1, PlacesOfLayers
  <1>3. layer \in s .. e /\ Depth \in Nat /\ Depth <= n
    BY <1>2 DEF OrderInv, Progress, RanUpTo, Depth, Activations
  <1>4. layer \in Layers /\ layer \in Nat /\ Layers = 0 .. n - 1
    BY <1>2, <1>3 DEF Layers
  <1>5. plan.layer_to_tile[layer] = tile
    BY <1>1, <1>2, <1>3, <1>4, PlacesOfLayers
  <1>6. \A l \in Layers :
            l < Depth <=> \/ plan.layer_to_tile[l] < tile
                          \/ plan.layer_to_tile[l] = tile /\ l < layer
    BY DEF OrderInv, Progress, RanUpTo
  <1>7. tile \in Nat /\ \A l \in Layers : plan.layer_to_tile[l] \in Nat
    BY <1>1, TileFacts, PlacesOfLayers
  <1>8. ~ (layer < Depth)
    BY <1>4, <1>5, <1>6, <1>7
  <1>9. ~ (Depth < layer)
    <2>1. SUFFICES ASSUME Depth < layer
                   PROVE  FALSE
      OBVIOUS
    <2>2. Depth \in Layers
      BY <1>3, <1>4, <2>1
    <2>3. plan.layer_to_tile[Depth] <= tile
      BY <1>1, <1>4, <1>5, <2>1, <2>2, TilesAscend
    <2>4. Depth < Depth
      BY <1>6, <1>7, <2>1, <2>2, <2>3
    <2>5. QED
      BY <1>3, <2>4
  <1>10. QED
    BY <1>3, <1>4, <1>5, <1>8, <1>9

\* Where the last tile is through, all layers have run.
LEMMA AllHaveRun ==
    ASSUME OrderInv, phase = "layers", layer >= plan.tiles[tile].end, tile = LastTile
    PROVE  Depth = model.layers
  <1>1. PlanHolds /\ tile \in Tiles
    BY DEF OrderInv, TrafficInv, Moves
  <1>2. PICK s \in Nat, e \in Nat, n \in Nat \ {0} :
            s = plan.tiles[tile].start /\ e = plan.tiles[tile].end /\ e <= n /\ n = model.layers
    BY <1>1, PlacesOfLayers
  <1>3. layer = e /\ Depth \in Nat /\ Depth <= n
    BY <1>2 DEF OrderInv, Progress, RanUpTo, Depth, Activations
  <1>4. SUFFICES ASSUME Depth < n
                 PROVE  FALSE
    BY <1>2, <1>3
  <1>5. Depth \in Layers
    BY <1>2, <1>3, <1>4 DEF Layers
  <1>6. PICK u \in Tiles : u = plan.layer_to_tile[Depth]
    BY <1>1, <1>5, PlacesOfLayers
  <1>7. u \in Nat /\ tile \in Nat /\ u <= tile
    BY <1>1, <1>6, TileFacts
  <1>8. u = tile => Depth < e
    BY <1>1, <1>2, <1>5, <1>6, PlacesOfLayers
  <1>9. Depth < Depth
    BY <1>3, <1>5, <1>6, <1>7, <1>8 DEF OrderInv, Progress, RanUpTo
  <1>10. QED
    BY <1>3, <1>9

\* What a layer does to its cache: nothing and fails, or it appends one entry at the
\* position, and may fail all the same.
Appends(block, kind, cache, h, l, pos) ==
    \/ ~ block.ok /\ block.cache = cache
    \/ pos = Len(cache) /\ block.cache = Append(cache, Through(h, l, kind))

LEMMA BlockOutcomes ==
    ASSUME NEW m, NEW kind \in Kinds, NEW cache, NEW h, NEW l, NEW pos,
           NEW block \in RunBlock(m, kind, cache, h, l, pos)
    PROVE  Appends(block, kind, cache, h, l, pos)
  <1> DEFINE attended == Attention(kind, cache, h, l, pos)
             Outcome(b) == Appends(b, kind, cache, h, l, pos)
  <1>1. \A a \in attended : /\ Outcome(a) /\ Outcome([a EXCEPT !.ok = FALSE])
    <2> DEFINE r == Append(cache, Through(h, l, kind))
               full == [ok |-> FALSE, cache |-> cache]
               room == [ok |-> TRUE, cache |-> r]
    <2>1. KvAppend(cache, Through(h, l, kind)) \in {full, room}
      BY DEF KvAppend
    <2>2. PICK appended \in {full, room} : appended = KvAppend(cache, Through(h, l, kind))
      BY <2>1
    <2>3. attended = {full} \union (IF pos # Len(cache) THEN {}
                                    ELSE {appended, [appended EXCEPT !.ok = FALSE]})
      BY <2>2, Zenon DEF Attention
    <2> HIDE DEF r, attended
    <2>4. QED
      BY <2>2, <2>3 DEF r, Appends
  <1>2. block \in attended \union {[a EXCEPT !.ok = FALSE] : a \in attended}
        \/ block = [ok |-> FALSE, cache |-> cache]
    BY DEF RunBlock, BlockF32, BlockQ8, BlockQ4, AttentionQ8, AttentionQ4, Kinds
  <1>3. Outcome([ok |-> FALSE, cache |-> cache])
    BY DEF Appends
  <1> HIDE DEF attended, Outcome
  <1>4. Outcome(block)
    BY <1>1, <1>2, <1>3
  <1>5. QED
    BY <1>4 DEF Outcome

\* Steps that leave the activation alone and after which no call is under way.
LEMMA ProgressIdle ==
    ASSUME OrderInv, UNCHANGED <<model, plan, hidden>>, phase' = "idle", backend' \in Kinds
    PROVE  Progress'
  BY DEF OrderInv, Progress, RanUpTo, Depth, InOrder

LEMMA ProgressKept ==
    ASSUME OrderInv, [ClusterNext]_clusterVars
    PROVE  Progress'
  <1>0. /\ UNCHANGED <<model, plan>> /\ PlanHolds /\ Moves /\ tile \in Tiles /\ Progress
        /\ Layers' = Layers
    BY PlanIsFixed DEF OrderInv, TrafficInv, Moves, Layers
  <1>1. /\ model.layers \in Nat \ {0} /\ Layers \subseteq Nat
        /\ Tiles \subseteq Nat /\ 0 \in Tiles /\ LastTile \in Nat
        /\ \A t \in Tiles : t # LastTile => t + 1 \in Tiles /\ t < LastTile
    BY <1>0, PlacesOfLayers, TileFacts
  <1>2. hidden \in Activations /\ InOrder(hidden) /\ Depth \in Nat /\ Depth <= model.layers
        /\ backend \in Kinds
    BY <1>0 DEF Progress, Activations, Depth
  <1>3. CASE Caller
    <2>1. UNCHANGED <<hidden, backend>> /\ phase' = "idle"
      BY <1>3 DEF Caller, CallDecodeToken, CallGenerate, Idle
    <2>2. QED
      BY <1>0, <1>2, <2>1, ProgressIdle
  <1>4. ASSUME NEW kind \in Kinds, ClusterSetBackend(kind)
        PROVE  Progress'
    <2>1. hidden' = hidden /\ phase' = "idle" /\ backend' \in Kinds
      BY <1>2, <1>4 DEF ClusterSetBackend, Idle
    <2>2. QED
      BY <1>0, <2>1, ProgressIdle
  <1>5. CASE HostSends
    <2>1. \/ hidden' = Embedding(Token) /\ Starts
          \/ hidden' = hidden /\ Fail /\ backend' = backend
      BY <1>5 DEF HostSends, context
    <2>2. CASE hidden' = Embedding(Token) /\ Starts
      <3>1. hidden' = Embedding(Token) /\ Token \in Vocabulary
        BY <2>2 DEF Starts
      <3>2. /\ hidden' \in Activations /\ InOrder(hidden') /\ Len(hidden'.applied) = 0
        BY <3>1, EmbeddingIsEmpty
      <3>3. phase' = "idle" \/ (phase' = "receive" /\ tile' = 0)
        BY <1>5 DEF HostSends, Fail
      <3>4. ASSUME NEW l \in Layers
            PROVE  ~ (l < 0) /\ ~ (plan.layer_to_tile[l] < 0)
        <4>1. PICK k \in Nat : k = plan.layer_to_tile[l]
          BY <1>0, <1>1, PlacesOfLayers
        <4>2. QED
          BY <1>1, <4>1
      <3>5. RanUpTo'
        BY <1>0, <3>2, <3>3, <3>4 DEF RanUpTo, Depth
      <3>6. backend' = backend
        BY <1>5 DEF HostSends, context
      <3>7. 0 <= model.layers
        BY <1>1
      <3>8. QED
        BY <1>0, <1>2, <3>2, <3>5, <3>6, <3>7 DEF Progress, InOrder, Depth
    <2>3. CASE hidden' = hidden /\ Fail /\ backend' = backend
      BY <1>0, <1>2, <2>3, ProgressIdle DEF Fail
    <2>4. QED
      BY <2>1, <2>2, <2>3
  <1>6. CASE TileReceives
    <2>1. phase = "receive" /\ tile \in Endpoints /\ Only(fabric, tile, Packet("ACTIVATION", hidden))
      BY <1>0, <1>6 DEF TileReceives, Moves, Endpoints
    <2>2. Arrived(tile, "ACTIVATION") /\ Payload(tile) = hidden
      BY <2>1, TakeTheOnly
    <2>3. /\ hidden' = hidden /\ layer' = plan.tiles[tile].start /\ phase' = "layers"
          /\ backend' = backend /\ tile' = tile
      BY <1>6, <2>2 DEF TileReceives, context
    <2>4. PICK s \in Nat, e \in Nat :
              s = plan.tiles[tile].start /\ e = plan.tiles[tile].end /\ s <= e
      BY <1>0, PlacesOfLayers
    <2>5. \A l \in Layers : ~ (plan.layer_to_tile[l] = tile /\ l < s)
      BY <1>0, <1>1, <2>4, PlacesOfLayers
    <2>6. \A l \in Layers : l < Depth <=> plan.layer_to_tile[l] < tile
      BY <1>0, <2>1 DEF Progress, RanUpTo
    <2>7. RanUpTo'
      <3>1. layer' \in plan'.tiles[tile'].start .. plan'.tiles[tile'].end
        BY <1>0, <2>3, <2>4
      <3>2. \A l \in Layers :
                l < Depth <=> \/ plan.layer_to_tile[l] < tile
                              \/ plan.layer_to_tile[l] = tile /\ l < layer'
        BY <2>3, <2>4, <2>5, <2>6
      <3>3. QED
        BY <1>0, <2>3, <3>1, <3>2 DEF RanUpTo, Depth
    <2>8. QED
      BY <1>0, <1>2, <2>3, <2>7 DEF Progress, InOrder, Depth
  <1>7. CASE TileRunsLayer
    <2>1. phase = "layers" /\ layer < plan.tiles[tile].end /\ tile' = tile /\ backend' = backend
      BY <1>7 DEF TileRunsLayer, context
    <2>2. layer \in Layers /\ layer = Depth /\ plan.layer_to_tile[layer] = tile
      BY <2>1, LayerIsDepth
    <2>3. CASE Fail /\ hidden' = hidden
      BY <1>0, <1>2, <2>1, <2>3, ProgressIdle DEF Fail
    <2>4. CASE hidden' = Through(hidden, layer, backend) /\ layer' = layer + 1 /\ phase' = phase
      <3>1. PICK d \in Nat : d = Depth /\ d = layer
        BY <1>2, <2>2
      <3>2. /\ hidden' \in Activations /\ InOrder(hidden') /\ Len(hidden'.applied) = d + 1
        <4>1. d = Len(hidden.applied) /\ hidden' = Through(hidden, d, backend)
          BY <2>4, <3>1 DEF Depth
        <4>2. /\ Through(hidden, d, backend) \in Activations
              /\ InOrder(Through(hidden, d, backend))
              /\ Len(Through(hidden, d, backend).applied) = d + 1
          BY <1>2, <4>1, ThroughAddsLayer
        <4>3. QED
          BY <4>1, <4>2
      <3>3. PICK s \in Nat, e \in Nat, n \in Nat :
                s = plan.tiles[tile].start /\ e = plan.tiles[tile].end /\ n = model.layers /\ e <= n
        BY <1>0, <1>1, PlacesOfLayers
      <3>4. s <= d /\ d < e /\ d + 1 <= n
        BY <1>0, <2>1, <2>2, <3>1, <3>3, PlacesOfLayers
      <3>5. ASSUME NEW l \in Layers
            PROVE  l < d + 1 <=> \/ plan.layer_to_tile[l] < tile
                                 \/ plan.layer_to_tile[l] = tile /\ l < d + 1
        <4>1. l < d <=> \/ plan.layer_to_tile[l] < tile
                        \/ plan.layer_to_tile[l] = tile /\ l < d
          BY <1>0, <2>1, <3>1 DEF Progress, RanUpTo
        <4>2. l \in Nat /\ (l < d + 1 <=> l < d \/ l = d)
          BY <1>1
        <4>3. plan.layer_to_tile[d] = tile
          BY <2>2, <3>1
        <4>4. CASE l = d
          BY <4>2, <4>3, <4>4
        <4>5. CASE l # d
          BY <4>1, <4>2, <4>5
        <4>6. QED
          BY <4>4, <4>5
      <3>6. RanUpTo'
        <4>1. layer' \in plan'.tiles[tile'].start .. plan'.tiles[tile'].end
          BY <1>0, <2>1, <2>4, <3>1, <3>3, <3>4
        <4>2. layer' = d + 1 /\ Depth' = d + 1 /\ phase' = "layers"
          BY <2>1, <2>4, <3>1, <3>2 DEF Depth
        <4>3. QED
          BY <1>0, <2>1, <3>5, <4>1, <4>2 DEF RanUpTo
      <3>7. QED
        BY <1>0, <1>2, <2>1, <3>2, <3>3, <3>4, <3>6 DEF Progress, InOrder, Depth
    <2>5. QED
      BY <1>7, <2>3, <2>4 DEF TileRunsLayer
  <1>8. CASE TileSends
    <2>1. /\ phase = "layers" /\ layer >= plan.tiles[tile].end /\ tile < LastTile
          /\ UNCHANGED <<hidden, backend, layer>>
      BY <1>8 DEF TileSends, context
    <2>2. CASE Fail
      BY <1>0, <1>2, <2>1, <2>2, ProgressIdle DEF Fail
    <2>3. CASE tile' = tile + 1 /\ phase' = "receive"
      <3>1. PICK s \in Nat, e \in Nat :
                s = plan.tiles[tile].start /\ e = plan.tiles[tile].end /\ s <= e
        BY <1>0, PlacesOfLayers
      <3>2. layer = e
        BY <1>0, <2>1, <3>1 DEF Progress, RanUpTo
      <3>3. ASSUME NEW l \in Layers
            PROVE  l < Depth <=> plan.layer_to_tile[l] < tile + 1
        <4>1. plan.layer_to_tile[l] = tile => l < e
          BY <1>0, <3>1, PlacesOfLayers
        <4>2. l < Depth <=> \/ plan.layer_to_tile[l] < tile
                            \/ plan.layer_to_tile[l] = tile /\ l < e
          BY <1>0, <2>1, <3>2 DEF Progress, RanUpTo
        <4>3. plan.layer_to_tile[l] \in Nat /\ tile \in Nat
          BY <1>0, <1>1, PlacesOfLayers
        <4>4. QED
          BY <4>1, <4>2, <4>3
      <3>4. RanUpTo'
        BY <1>0, <2>1, <2>3, <3>3 DEF RanUpTo, Depth
      <3>5. QED
        BY <1>0, <1>2, <2>1, <3>4 DEF Progress, InOrder, Depth
    <2>4. QED
      BY <1>8, <2>2, <2>3 DEF TileSends
  <1>9. CASE LastTileProjects
    <2>1. /\ phase = "layers" /\ layer >= plan.tiles[tile].end /\ tile = LastTile
          /\ UNCHANGED <<hidden, backend>>
      BY <1>9 DEF LastTileProjects, context
    <2>2. CASE Fail
      BY <1>0, <1>2, <2>1, <2>2, ProgressIdle DEF Fail
    <2>3. CASE logits' = hidden /\ phase' = "sample"
      <3>1. Depth = model.layers
        BY <2>1, AllHaveRun
      <3>2. RanUpTo'
        BY <1>0, <2>1, <2>3, <3>1 DEF RanUpTo, Depth
      <3>3. QED
        BY <1>0, <1>2, <2>1, <3>2 DEF Progress, InOrder, Depth
    <2>4. QED
      BY <1>9, <2>2, <2>3 DEF LastTileProjects
  <1>10. CASE HostReceives
    <2>1. phase' = "idle" /\ UNCHANGED <<hidden, backend>>
      BY <1>10 DEF HostReceives, Fail
    <2>2. QED
      BY <1>0, <1>2, <2>1, ProgressIdle
  <1>11. CASE UNCHANGED clusterVars
    BY <1>0, <1>11 DEF clusterVars, inferVars, Progress, RanUpTo, Depth, InOrder
  <1>12. QED
    BY <1>3, <1>4, <1>5, <1>6, <1>7, <1>8, <1>9, <1>10, <1>11 DEF ClusterNext

LEMMA OrderInductive ==
    ASSUME MetadataInOrder
    PROVE  ClusterSpec => []OrderInv
  <1>1. ClusterInit => OrderInv
    <2> SUFFICES ASSUME ClusterInit
                 PROVE  OrderInv
      OBVIOUS
    <2>1. TrafficInv /\ InLayerOrder(plan)
      BY PlanAtCreation, MovesAtCreation, CountersAtCreation, OrderAtCreation DEF TrafficInv
    <2>2. phase = "idle" /\ hidden = Embedding(0) /\ backend \in Kinds
      BY DEF ClusterInit, InferInit, Created, Kinds
    <2>3. 0 \in Vocabulary
      BY TransformerAssumption DEF Vocabulary
    <2>4. /\ hidden \in Activations /\ InOrder(hidden) /\ Len(hidden.applied) = 0
      BY <2>2, <2>3, EmbeddingIsEmpty
    <2>5. 0 <= model.layers
      BY <2>1, PlacesOfLayers DEF TrafficInv
    <2>6. QED
      BY <2>1, <2>2, <2>4, <2>5 DEF OrderInv, Progress, RanUpTo, Depth
  <1>2. OrderInv /\ [ClusterNext]_clusterVars => OrderInv'
    <2> SUFFICES ASSUME OrderInv, [ClusterNext]_clusterVars
                 PROVE  OrderInv'
      OBVIOUS
    <2>1. TrafficInv'
      BY PlanKept, MovesKept, CountersKept DEF OrderInv, TrafficInv
    <2>2. InLayerOrder(plan)'
      BY PlanIsFixed DEF OrderInv, InLayerOrder
    <2>3. QED
      BY <2>1, <2>2, ProgressKept DEF OrderInv
  <1>3. QED
    BY <1>1, <1>2, PTL DEF ClusterSpec

(***************************************************************************)
(* The refinement.                                                         *)
(***************************************************************************)
LEMMA PreparesAlike ==
    ASSUME NEW kind \in Kinds
    PROVE  ClusterPrepares(kind) <=> Preparable(model, kind)
  BY DEF ClusterPrepares, Preparable, ClusterPreparesQ8, ClusterPreparesQ4, ClusterFileQ8,
         ClusterRuntimeQ8, ClusterLayerInFile, PreparesQ8, PreparesQ4, FromFileQ8, RuntimeQ8,
         HasAllLayers, HasLayer, Layers, Kinds

\* The operators Infer takes from Transformer are the same in the instance.
LEMMA SameNames ==
    /\ Single!NoRequest = NoRequest
    /\ Single!Vocabulary = Vocabulary
    /\ Single!Kinds = Kinds
    /\ Single!Quantized = Quantized
    /\ Single!KvInit = KvInit
    /\ Single!Layers = Layers
  BY DEF NoRequest, Single!NoRequest, Vocabulary, Single!Vocabulary, Kinds, Single!Kinds,
         Quantized, Single!Quantized, KvInit, Single!KvInit, Layers, Single!Layers

LEMMA SameModels == Single!Models(LayerCounts) = Models(LayerCounts)
  BY SameNames DEF Models, Single!Models

LEMMA SameEmbedding == ASSUME NEW token PROVE Single!Embedding(token) = Embedding(token)
  BY DEF Embedding, Single!Embedding

LEMMA SameThrough ==
    ASSUME NEW h, NEW l, NEW kind
    PROVE  Single!Through(h, l, kind) = Through(h, l, kind)
  BY DEF Through, Single!Through

LEMMA SameAdvanced ==
    ASSUME NEW r, NEW next
    PROVE  Single!Advanced(r, next) = Advanced(r, next)
  BY DEF Advanced, Single!Advanced

LEMMA SameDecodable ==
    ASSUME NEW m, NEW kind, NEW made
    PROVE  Single!Decodable(m, kind, made) <=> Decodable(m, kind, made)
  BY DEF Decodable, Single!Decodable

LEMMA SamePreparable ==
    ASSUME NEW m, NEW kind
    PROVE  /\ Single!Preparable(m, kind) <=> Preparable(m, kind)
           /\ Single!ValidDecoderQ4(m) <=> ValidDecoderQ4(m)
  BY DEF Preparable, Single!Preparable, PreparesQ8, PreparesQ4, Single!PreparesQ8,
         Single!PreparesQ4, FromFileQ8, Single!FromFileQ8, RuntimeQ8, Single!RuntimeQ8,
         HasAllLayers, Single!HasAllLayers, HasLayer, Single!HasLayer,
         ValidDecoderQ4, Single!ValidDecoderQ4

LEMMA SameAttention ==
    ASSUME NEW kind, NEW cache, NEW h, NEW l, NEW pos
    PROVE  Single!Attention(kind, cache, h, l, pos) = Attention(kind, cache, h, l, pos)
  BY DEF Attention, Single!Attention, KvAppend, Single!KvAppend, Through, Single!Through

LEMMA SameRunBlock ==
    ASSUME NEW m, NEW kind, NEW cache, NEW h, NEW l, NEW pos
    PROVE  Single!RunBlock(m, kind, cache, h, l, pos) = RunBlock(m, kind, cache, h, l, pos)
  BY SameAttention
  DEF RunBlock, Single!RunBlock, BlockF32, Single!BlockF32, BlockQ8, Single!BlockQ8,
      BlockQ4, Single!BlockQ4, AttentionQ8, Single!AttentionQ8, AttentionQ4,
      Single!AttentionQ4, HasLayer, Single!HasLayer

LEMMA SameStarts == Single!Starts <=> Starts
  BY SameNames, SameDecodable DEF Starts, Single!Starts, Token, Single!Token

LEMMA ClusterStepIsSingleStep ==
    ASSUME OrderInv, [ClusterNext]_clusterVars
    PROVE  [Single!InferNext \/ StepRefused]_Single!inferVars
  <1>0. /\ UNCHANGED <<model, plan>> /\ PlanHolds /\ Moves /\ tile \in Tiles /\ Progress
    BY PlanIsFixed DEF OrderInv, TrafficInv, Moves
  <1>1. CASE Caller
    <2>1. ASSUME NEW token \in 0 .. VocabSize, CallDecodeToken(token)
          PROVE  Single!CallDecodeToken(token)
      BY <2>1, SameNames DEF CallDecodeToken, Single!CallDecodeToken, Idle, Single!Idle
    <2>2. ASSUME NEW prompt \in Prompts, NEW want \in Wants, CallGenerate(prompt, want)
          PROVE  Single!CallGenerate(prompt, want)
      BY <2>2, SameNames DEF CallGenerate, Single!CallGenerate, Idle, Single!Idle
    <2>3. QED
      BY <1>1, <2>1, <2>2 DEF Caller, Single!InferNext
  <1>2. ASSUME NEW kind \in Kinds, ClusterSetBackend(kind)
        PROVE  Single!SetBackend(kind)
    BY <1>2, PreparesAlike, SamePreparable, SameNames
    DEF ClusterSetBackend, Single!SetBackend, Idle, Single!Idle
  <1>3. CASE HostSends
    <2>1. phase = "idle" /\ Quiet(fabric) /\ 0 \in Endpoints
      BY <1>0, <1>3, TileFacts DEF HostSends, Moves, Endpoints
    <2>2. HasRoom(0)
      BY <2>1, SendIntoQuiet
    <2>3. /\ request.feed # <<>> /\ UNCHANGED <<context, kv, logits>>
          /\ \/ /\ Starts /\ hidden' = Embedding(Token)
                /\ phase' = "receive" /\ UNCHANGED <<request, status>>
             \/ hidden' = hidden /\ Fail
      BY <1>3, <2>2 DEF HostSends
    <2>4. CASE /\ Starts /\ hidden' = Embedding(Token)
               /\ phase' = "receive" /\ UNCHANGED <<request, status>>
      <3>1. Single!Starts /\ Single!Embedding(Single!Token) = Embedding(Token)
        BY <2>4, SameStarts, SameEmbedding DEF Token, Single!Token
      <3>2. Single!DecodeBegin
        BY <2>1, <2>3, <2>4, <3>1 DEF Single!DecodeBegin, context
      <3>3. QED
        BY <3>2 DEF Single!InferNext
    <2>5. CASE hidden' = hidden /\ Fail
      BY <2>1, <2>3, <2>5 DEF StepRefused, context
    <2>6. QED
      BY <2>3, <2>4, <2>5
  <1>4. CASE TileReceives
    <2>1. phase = "receive" /\ tile \in Endpoints /\ Only(fabric, tile, Packet("ACTIVATION", hidden))
      BY <1>0, <1>4 DEF TileReceives, Moves, Endpoints
    <2>2. Arrived(tile, "ACTIVATION") /\ Payload(tile) = hidden
      BY <2>1, TakeTheOnly
    <2>3. /\ hidden' = hidden /\ phase' = "layers"
          /\ UNCHANGED <<request, status, kv, logits, context>>
      BY <1>4, <2>2 DEF TileReceives
    <2>4. QED
      BY <2>1, <2>3 DEF context, Single!inferVars
  <1>5. CASE TileRunsLayer
    <2>1. phase = "layers" /\ layer < plan.tiles[tile].end
      BY <1>5 DEF TileRunsLayer
    <2>2. layer \in Layers /\ layer = Depth
      BY <2>1, LayerIsDepth
    <2>3. Single!Layer = layer /\ Single!Layers = Layers
      BY <2>2 DEF Depth, Single!Layer, Single!Layers, Layers
    <2>4. PICK block \in RunBlock(model, backend, kv[layer], hidden, layer, position) :
              /\ kv' = [kv EXCEPT ![layer] = block.cache]
              /\ IF block.ok
                 THEN /\ hidden' = Through(hidden, layer, backend)
                      /\ UNCHANGED <<phase, request, status>>
                 ELSE Fail /\ UNCHANGED hidden
      BY <1>5 DEF TileRunsLayer
    <2>5. UNCHANGED <<model, backend, ready, position, logits>>
      BY <1>5 DEF TileRunsLayer, context
    <2>6. Single!RunLayer
      <3>1. block \in Single!RunBlock(model, backend, kv[layer], hidden, layer, position)
            /\ Single!Through(hidden, layer, backend) = Through(hidden, layer, backend)
        BY <2>4, SameRunBlock, SameThrough
      <3>2. phase' = phase \/ phase' = "idle"
        BY <2>4 DEF Fail
      <3>3. IF block.ok
            THEN /\ hidden' = Single!Through(hidden, layer, backend)
                 /\ UNCHANGED <<IF phase = "receive" THEN "layers" ELSE phase, request, status>>
            ELSE Single!Fail /\ UNCHANGED hidden
        BY <2>1, <2>4, <3>1 DEF Fail, Single!Fail
      <3>4. QED
        BY <2>1, <2>2, <2>3, <2>4, <2>5, <3>1, <3>3 DEF Single!RunLayer
    <2>7. QED
      BY <2>6 DEF Single!InferNext
  <1>6. CASE TileSends
    <2>1. phase = "layers" /\ tile < LastTile /\ Quiet(fabric)
      BY <1>0, <1>6 DEF TileSends, Moves
    <2>2. tile + 1 \in Endpoints
      BY <1>0, <2>1, TileFacts DEF Endpoints
    <2>3. HasRoom(tile + 1)
      BY <2>1, <2>2, SendIntoQuiet
    <2>4. /\ phase' = "receive" /\ UNCHANGED <<request, status, kv, hidden, logits, context>>
      BY <1>6, <2>3 DEF TileSends
    <2>5. QED
      BY <2>1, <2>4 DEF context, Single!inferVars
  <1>7. CASE LastTileProjects
    <2>1. phase = "layers" /\ layer >= plan.tiles[tile].end /\ tile = LastTile
      BY <1>7 DEF LastTileProjects
    <2>2. Depth = model.layers
      BY <2>1, AllHaveRun
    <2>3. Single!Layer \notin Single!Layers
      <3>1. model.layers \in Nat
        BY <1>0, PlacesOfLayers
      <3>2. QED
        BY <2>2, <3>1 DEF Depth, Single!Layer, Single!Layers
    <2>4. Single!Project
      BY <1>7, <2>1, <2>3 DEF LastTileProjects, Single!Project, context, Fail, Single!Fail
    <2>5. QED
      BY <2>4 DEF Single!InferNext
  <1>8. CASE HostReceives
    <2>1. phase = "sample" /\ Host \in Endpoints /\ Only(fabric, Host, Packet("LOGITS", hidden))
      BY <1>0, <1>8 DEF HostReceives, Moves, Endpoints
    <2>2. Arrived(Host, "LOGITS") /\ Payload(Host) = hidden
      BY <2>1, TakeTheOnly
    <2>3. logits' = logits
      BY <1>0, <1>8, <2>1, <2>2 DEF HostReceives, Progress, RanUpTo
    <2>4. Single!Sample
      BY <1>8, <2>1, <2>2, <2>3, SameNames, SameAdvanced
      DEF HostReceives, Single!Sample, Fail, Single!Fail
    <2>5. QED
      BY <2>4 DEF Single!InferNext
  <1>9. CASE UNCHANGED clusterVars
    BY <1>9 DEF clusterVars, inferVars, Single!inferVars
  <1>10. QED
    BY <1>1, <1>2, <1>3, <1>4, <1>5, <1>6, <1>7, <1>8, <1>9, SameNames DEF ClusterNext, Single!InferNext

(***************************************************************************)
(* Where metadata plans are in layer order, the cluster answers as the     *)
(* single tile does: each of its steps is a step of att1_infer_decode_token *)
(* or concerns packets only, for any number of tiles and layers, and with  *)
(* the same failures but one: a step that is refused before it begins.     *)
(***************************************************************************)
THEOREM ClusterAnswersAsOne ==
    ASSUME MetadataInOrder
    PROVE  ClusterSpec => ImplementsInfer
  <1>1. ClusterInit => Single!InferInit
    BY SameNames, SameModels, SameEmbedding, SamePreparable
    DEF ClusterInit, InferInit, Single!InferInit, Created, Single!Created
  <1>2. OrderInv /\ [ClusterNext]_clusterVars
            => [Single!InferNext \/ StepRefused]_Single!inferVars
    BY ClusterStepIsSingleStep
  <1>3. QED
    BY <1>1, <1>2, OrderInductive, PTL DEF ClusterSpec, ImplementsInfer

(***************************************************************************)
(* The caches.                                                             *)
(***************************************************************************)
\* An entry of layer l's cache: an activation that has been through the layers up to l.
EntryOf(e, l) == e \in Activations /\ InOrder(e) /\ Len(e.applied) = l + 1

CacheHolds(l) ==
    /\ kv[l] \in Seq(Activations)
    /\ Len(kv[l]) \in {position, position + 1}
    /\ \A i \in 1 .. Len(kv[l]) :
          /\ EntryOf(kv[l][i], l)
          /\ i <= position => kv[l][i].token = kv[0][i].token

\* Layer l holds an entry of the token under way.
HasEntry(l) == Len(kv[l]) = position + 1 /\ kv[l][position + 1].token = hidden.token

CachesHold ==
    /\ kv = [l \in Layers |-> kv[l]]
    /\ \A l \in Layers : CacheHolds(l)
    /\ phase # "idle" => \A l \in Layers : l < Depth => HasEntry(l)

CachesInv == OrderInv /\ CachesHold

\* Steps that change no cache and no position, and no activation within a step.
LEMMA CachesUntouched ==
    ASSUME CachesInv, UNCHANGED <<model, kv, position>>,
           phase' = "idle" \/ (phase # "idle" /\ hidden' = hidden)
    PROVE  CachesHold'
  <1>1. CachesHold /\ Layers' = Layers
    BY DEF CachesInv, Layers
  <1>2. \A l \in Layers : CacheHolds(l)'
    BY <1>1 DEF CachesHold, CacheHolds
  <1>3. phase' # "idle" => \A l \in Layers : l < Depth' => HasEntry(l)'
    BY <1>1 DEF CachesHold, HasEntry, Depth
  <1>4. QED
    BY <1>1, <1>2, <1>3 DEF CachesHold

\* An entry that joins the cache of the layer that runs.
LEMMA EntryJoins ==
    ASSUME CachesInv, phase = "layers", layer < plan.tiles[tile].end, UNCHANGED model,
           position' = position, position = Len(kv[layer]),
           kv' = [kv EXCEPT ![layer] = Append(kv[layer], Through(hidden, layer, backend))]
    PROVE  /\ \A l \in Layers : CacheHolds(l)'
           /\ kv' = [l \in Layers |-> kv'[l]]
           /\ \A l \in Layers : l # layer => kv'[l] = kv[l]
           /\ Len(kv'[layer]) = position + 1
           /\ kv'[layer][position + 1].token = hidden.token
  <1> DEFINE entry == Through(hidden, layer, backend)
  <1>1. layer \in Layers /\ layer = Depth /\ CachesHold /\ position \in Nat
    BY LayerIsDepth DEF CachesInv, OrderInv, TrafficInv, CountersMatch
  <1>2. layer \in Nat /\ EntryOf(entry, layer) /\ entry.token = hidden.token
    <2>1. hidden \in Activations /\ InOrder(hidden) /\ backend \in Kinds
      BY DEF CachesInv, OrderInv, Progress
    <2>2. layer \in Nat /\ layer = Len(hidden.applied)
      BY <1>1, PlacesOfLayers DEF Depth, CachesInv, OrderInv, TrafficInv
    <2>3. QED
      BY <2>1, <2>2, ThroughAddsLayer DEF EntryOf
  <1>3. PICK c \in Seq(Activations) : c = kv[layer] /\ Len(c) = position
    BY <1>1 DEF CachesHold, CacheHolds
  <1> HIDE DEF entry
  <1>4. PICK r : r = Append(c, entry)
    OBVIOUS
  <1>5. /\ r \in Seq(Activations) /\ Len(r) = position + 1
        /\ r[position + 1] = entry
        /\ \A i \in 1 .. position : r[i] = c[i]
    BY <1>2, <1>3, <1>4 DEF EntryOf
  <1>6. kv' = [kv EXCEPT ![layer] = r]
    BY <1>3, <1>4 DEF entry
  <1>7. /\ DOMAIN kv' = Layers /\ kv'[layer] = r
        /\ \A l \in Layers : l # layer => kv'[l] = kv[l]
    BY <1>1, <1>6 DEF CachesHold
  <1>8. 0 \in Layers
    BY PlacesOfLayers DEF CachesInv, OrderInv, TrafficInv, Layers
  <1>9. \A i \in 1 .. position : kv'[0][i] = kv[0][i]
    <2>1. CASE layer = 0
      BY <1>3, <1>5, <1>7, <2>1
    <2>2. CASE layer # 0
      BY <1>7, <1>8, <2>2
    <2>3. QED
      BY <2>1, <2>2
  <1>10. ASSUME NEW l \in Layers
         PROVE  CacheHolds(l)'
    <2>1. CASE l = layer
      <3>1. kv'[l] = r
        BY <1>7, <2>1
      <3>2. ASSUME NEW i \in 1 .. position + 1
            PROVE  EntryOf(r[i], l) /\ (i <= position => r[i].token = kv'[0][i].token)
        <4>1. CASE i = position + 1
          BY <1>1, <1>2, <1>5, <2>1, <4>1
        <4>2. CASE i # position + 1
          <5>1. i \in 1 .. position /\ r[i] = kv[l][i] /\ kv'[0][i] = kv[0][i]
            <6>1. i \in 1 .. position
              BY <1>1, <4>2
            <6>2. QED
              BY <1>3, <1>5, <1>9, <2>1, <6>1
          <5>2. i \in 1 .. Len(kv[l]) /\ CacheHolds(l)
            BY <1>1, <1>3, <2>1, <5>1 DEF CachesHold
          <5>3. EntryOf(kv[l][i], l) /\ (i <= position => kv[l][i].token = kv[0][i].token)
            BY <5>2 DEF CacheHolds
          <5>4. QED
            BY <5>1, <5>3
        <4>3. QED
          BY <4>1, <4>2
      <3>3. \A i \in 1 .. Len(kv'[l]) :
                EntryOf(kv'[l][i], l) /\ (i <= position' => kv'[l][i].token = kv'[0][i].token)
        BY <1>5, <3>1, <3>2
      <3>4. kv'[l] \in Seq(Activations) /\ Len(kv'[l]) \in {position', position' + 1}
        BY <1>5, <3>1
      <3>5. QED
        BY <3>3, <3>4 DEF CacheHolds
    <2>2. CASE l # layer
      <3>1. kv'[l] = kv[l] /\ CacheHolds(l)
        BY <1>1, <1>7, <2>2 DEF CachesHold
      <3>2. ASSUME NEW i \in 1 .. Len(kv[l])
            PROVE  EntryOf(kv[l][i], l) /\ (i <= position => kv[l][i].token = kv'[0][i].token)
        <4>1. i <= position => i \in 1 .. position
          BY <1>1, <3>1 DEF CacheHolds
        <4>2. QED
          BY <1>9, <3>1, <4>1 DEF CacheHolds
      <3>3. kv'[l] \in Seq(Activations) /\ Len(kv'[l]) \in {position', position' + 1}
        BY <3>1 DEF CacheHolds
      <3>4. QED
        BY <3>1, <3>2, <3>3 DEF CacheHolds
    <2>3. QED
      BY <2>1, <2>2
  <1>11. QED
    BY <1>2, <1>5, <1>7, <1>10

LEMMA CachesKept ==
    ASSUME CachesInv, [ClusterNext]_clusterVars
    PROVE  CachesHold'
  <1>0. /\ UNCHANGED <<model, plan>> /\ PlanHolds /\ Moves /\ tile \in Tiles /\ Progress
        /\ OrderInv /\ CachesHold /\ position \in Nat /\ Layers' = Layers
    BY PlanIsFixed DEF CachesInv, OrderInv, TrafficInv, Moves, CountersMatch, Layers
  <1>00. Layers \subseteq Nat /\ 0 \in Layers
    BY <1>0, PlacesOfLayers DEF Layers
  <1>1. CASE Caller
    <2>1. UNCHANGED <<model, kv, position>> /\ phase' = "idle"
      BY <1>1 DEF Caller, CallDecodeToken, CallGenerate, Idle
    <2>2. QED
      BY <2>1, CachesUntouched
  <1>2. ASSUME NEW kind \in Kinds, ClusterSetBackend(kind)
        PROVE  CachesHold'
    <2>1. UNCHANGED <<model, kv, position>> /\ phase' = "idle"
      BY <1>2 DEF ClusterSetBackend, Idle
    <2>2. QED
      BY <2>1, CachesUntouched
  <1>3. CASE HostSends
    <2>1. UNCHANGED <<model, kv, position>>
      BY <1>3 DEF HostSends, context
    <2>2. CASE phase' = "idle"
      BY <2>1, <2>2, CachesUntouched
    <2>3. CASE phase' # "idle"
      <3>1. Starts /\ hidden' = Embedding(Token)
        BY <1>3, <2>3 DEF HostSends, Fail
      <3>2. Depth' = 0
        BY <3>1, EmbeddingIsEmpty DEF Depth, Starts
      <3>3. \A l \in Layers : ~ (l < 0)
        BY <1>00
      <3>4. \A l \in Layers : CacheHolds(l)'
        BY <1>0, <2>1 DEF CachesHold, CacheHolds
      <3>5. QED
        BY <1>0, <2>1, <3>2, <3>3, <3>4 DEF CachesHold
    <2>4. QED
      BY <2>2, <2>3
  <1>4. CASE TileReceives
    <2>1. phase = "receive" /\ tile \in Endpoints /\ Only(fabric, tile, Packet("ACTIVATION", hidden))
      BY <1>0, <1>4 DEF TileReceives, Moves, Endpoints
    <2>2. Arrived(tile, "ACTIVATION") /\ Payload(tile) = hidden
      BY <2>1, TakeTheOnly
    <2>3. hidden' = hidden /\ UNCHANGED <<model, kv, position>>
      BY <1>4, <2>2 DEF TileReceives, context
    <2>4. QED
      BY <2>1, <2>3, CachesUntouched
  <1>5. CASE TileRunsLayer
    <2>1. phase = "layers" /\ layer < plan.tiles[tile].end /\ UNCHANGED <<model, position>>
      BY <1>5 DEF TileRunsLayer, context
    <2>2. layer \in Layers /\ layer = Depth /\ layer \in Nat /\ backend \in Kinds
      BY <1>0, <1>00, <2>1, LayerIsDepth DEF Progress
    <2>3. PICK block \in RunBlock(model, backend, kv[layer], hidden, layer, position) :
              /\ kv' = [kv EXCEPT ![layer] = block.cache]
              /\ IF block.ok
                 THEN /\ hidden' = Through(hidden, layer, backend)
                      /\ UNCHANGED <<phase, request, status>>
                 ELSE Fail /\ UNCHANGED hidden
      BY <1>5 DEF TileRunsLayer
    <2>4. \/ ~ block.ok /\ block.cache = kv[layer]
          \/ position = Len(kv[layer])
             /\ block.cache = Append(kv[layer], Through(hidden, layer, backend))
      <3>1. Appends(block, backend, kv[layer], hidden, layer, position)
        BY <2>2, BlockOutcomes
      <3>2. QED
        BY <3>1 DEF Appends
    <2>5. CASE ~ block.ok /\ block.cache = kv[layer]
      <3>1. kv' = kv
        <4>1. kv' = [kv EXCEPT ![layer] = kv[layer]]
          BY <2>3, <2>5
        <4>2. kv = [l \in Layers |-> kv[l]]
          BY <1>0 DEF CachesHold
        <4>3. QED
          BY <2>2, <4>1, <4>2
      <3>2. phase' = "idle"
        BY <2>3, <2>5 DEF Fail
      <3>3. QED
        BY <2>1, <3>1, <3>2, CachesUntouched
    <2>6. CASE /\ position = Len(kv[layer])
               /\ block.cache = Append(kv[layer], Through(hidden, layer, backend))
      <3>1. /\ \A l \in Layers : CacheHolds(l)'
            /\ kv' = [l \in Layers |-> kv'[l]]
            /\ \A l \in Layers : l # layer => kv'[l] = kv[l]
            /\ Len(kv'[layer]) = position + 1
            /\ kv'[layer][position + 1].token = hidden.token
        BY <2>1, <2>3, <2>6, EntryJoins
      <3>2. CASE block.ok
        <4>1. hidden' = Through(hidden, layer, backend)
          BY <2>3, <3>2
        <4>2. Depth' = layer + 1 /\ hidden'.token = hidden.token
          BY <1>0, <2>2, <4>1, ThroughAddsLayer DEF Progress, Depth
        <4>3. ASSUME NEW l \in Layers, l < layer + 1
              PROVE  HasEntry(l)'
          <5>1. CASE l = layer
            BY <2>1, <3>1, <4>2, <5>1 DEF HasEntry
          <5>2. CASE l # layer
            <6>1. l < Depth
              BY <1>00, <2>2, <4>3, <5>2
            <6>2. HasEntry(l)
              BY <1>0, <2>1, <6>1 DEF CachesHold
            <6>3. QED
              BY <2>1, <3>1, <4>2, <5>2, <6>2 DEF HasEntry
          <5>3. QED
            BY <5>1, <5>2
        <4>4. QED
          BY <1>0, <3>1, <4>2, <4>3 DEF CachesHold
      <3>3. CASE ~ block.ok
        <4>1. phase' = "idle"
          BY <2>3, <3>3 DEF Fail
        <4>2. QED
          BY <1>0, <3>1, <4>1 DEF CachesHold
      <3>4. QED
        BY <3>2, <3>3
    <2>7. QED
      BY <2>4, <2>5, <2>6
  <1>6. CASE TileSends
    <2>1. phase = "layers" /\ hidden' = hidden /\ UNCHANGED <<model, kv, position>>
      BY <1>6 DEF TileSends, context
    <2>2. QED
      BY <2>1, CachesUntouched
  <1>7. CASE LastTileProjects
    <2>1. phase = "layers" /\ hidden' = hidden /\ UNCHANGED <<model, kv, position>>
      BY <1>7 DEF LastTileProjects, context
    <2>2. QED
      BY <2>1, CachesUntouched
  <1>8. CASE HostReceives
    <2>1. phase = "sample" /\ phase' = "idle" /\ UNCHANGED <<model, kv>>
      BY <1>8 DEF HostReceives, Fail
    <2>2. CASE position' = position
      BY <2>1, <2>2, CachesUntouched
    <2>3. CASE position' = position + 1
      <3>1. \A l \in Layers : HasEntry(l)
        <4>1. Depth = model.layers
          BY <1>0, <2>1 DEF Progress, RanUpTo
        <4>2. \A l \in Layers : l < model.layers
          BY <1>0, PlacesOfLayers DEF Layers
        <4>3. QED
          BY <1>0, <2>1, <4>1, <4>2 DEF CachesHold
      <3>2. ASSUME NEW l \in Layers
            PROVE  CacheHolds(l)'
        <4>1. CacheHolds(l) /\ HasEntry(l) /\ HasEntry(0)
          BY <1>0, <1>00, <3>1 DEF CachesHold
        <4>2. ASSUME NEW i \in 1 .. Len(kv[l])
              PROVE  EntryOf(kv[l][i], l) /\ kv[l][i].token = kv[0][i].token
          <5>1. i <= position \/ i = position + 1
            BY <1>0, <4>1 DEF HasEntry
          <5>2. QED
            BY <4>1, <5>1 DEF CacheHolds, HasEntry
        <4>3. QED
          BY <1>0, <2>1, <2>3, <4>1, <4>2 DEF CacheHolds, HasEntry
      <3>3. QED
        BY <1>0, <2>1, <3>2 DEF CachesHold
    <2>4. QED
      BY <1>8, <2>2, <2>3 DEF HostReceives
  <1>9. CASE UNCHANGED clusterVars
    BY <1>0, <1>9, CachesUntouched DEF clusterVars, inferVars
  <1>10. QED
    BY <1>1, <1>2, <1>3, <1>4, <1>5, <1>6, <1>7, <1>8, <1>9 DEF ClusterNext

LEMMA CachesAreInAgreement == CachesInv => CachesAgree
  <1> SUFFICES ASSUME CachesInv
               PROVE  CachesAgree
    OBVIOUS
  <1>1. CachesHold /\ PlanHolds /\ Progress /\ position \in Nat
    BY DEF CachesInv, OrderInv, TrafficInv, CountersMatch
  <1>2. ASSUME NEW l \in Layers
        PROVE  /\ Len(kv[l]) \in {position, position + 1}
               /\ \A i \in DOMAIN kv[l] :
                     /\ LayersOfEntry(kv[l][i]) = [k \in 1 .. l + 1 |-> k - 1]
                     /\ i <= position => kv[l][i].token = kv[0][i].token
    <2>1. CacheHolds(l)
      BY <1>1 DEF CachesHold
    <2>2. DOMAIN kv[l] = 1 .. Len(kv[l])
      BY <2>1 DEF CacheHolds
    <2>3. ASSUME NEW e, EntryOf(e, l)
          PROVE  LayersOfEntry(e) = [k \in 1 .. l + 1 |-> k - 1]
      <3>1. DOMAIN e.applied = 1 .. l + 1
        BY <2>3 DEF EntryOf, Activations
      <3>2. \A k \in 1 .. l + 1 : e.applied[k][1] = k - 1
        BY <2>3 DEF EntryOf, InOrder
      <3>3. QED
        BY <3>1, <3>2 DEF LayersOfEntry
    <2>4. QED
      BY <2>1, <2>2, <2>3 DEF CacheHolds
  <1>3. phase = "sample" =>
            \A l \in Layers :
                Len(kv[l]) = position + 1 /\ kv[l][position + 1].token = hidden.token
    <2>1. SUFFICES ASSUME phase = "sample", NEW l \in Layers
                   PROVE  HasEntry(l)
      BY DEF HasEntry
    <2>2. l < Depth
      BY <1>1, <2>1, PlacesOfLayers DEF Progress, RanUpTo, Layers
    <2>3. QED
      BY <1>1, <2>1, <2>2 DEF CachesHold
  <1>4. QED
    BY <1>2, <1>3 DEF CachesAgree

(***************************************************************************)
(* Where metadata plans are in layer order, the caches of all layers hold  *)
(* the same tokens up to the position, each computed through exactly the   *)
(* layers before it, and behind it at most the entry of one step; the host *)
(* answers only where all layers hold the token it answers, so that no     *)
(* failed step ever lets a torn context answer (att1_kv_cache_append,      *)
(* att1_cluster_infer_decode_token).                                       *)
(***************************************************************************)
THEOREM CachesStayTogether ==
    ASSUME MetadataInOrder
    PROVE  ClusterSpec => []CachesAgree
  <1>1. ClusterInit => CachesHold
    <2> SUFFICES ASSUME ClusterInit
                 PROVE  CachesHold
      OBVIOUS
    <2>1. kv = [l \in Layers |-> <<>>] /\ position = 0 /\ phase = "idle"
      BY DEF ClusterInit, InferInit, KvInit
    <2>2. \A l \in Layers : CacheHolds(l)
      BY <2>1 DEF CacheHolds
    <2>3. QED
      BY <2>1, <2>2 DEF CachesHold
  <1>2. OrderInv /\ CachesHold /\ [ClusterNext]_clusterVars => CachesHold'
    BY CachesKept DEF CachesInv
  <1>3. OrderInv /\ CachesHold => CachesAgree
    BY CachesAreInAgreement DEF CachesInv
  <1>4. QED
    BY <1>1, <1>2, <1>3, OrderInductive, PTL DEF ClusterSpec

----------------------------------------------------------------------------
(***************************************************************************)
(* The bridge.                                                             *)
(***************************************************************************)
EndRecords ==
    [local : Seq(Ends \X Nat), proxy : Seq(Nat), round : SUBSET Ports, completed : Nat]
BridgeRecords == [arrived : SUBSET Ends, relayed : Nat, completed : Nat]
Logs == [sent : [Ends -> Nat], joined : [Ends -> Nat], delivered : [Ends -> Seq(Nat)],
         failed : Nat, faults : Nat]
Worlds == [ends : [Ends -> EndRecords], bridge : BridgeRecords, log : Logs]

\* The packets of end e that were delivered, and those that wait at its proxy.
Delivered(w, e) == w.log.delivered[e]
Queue(w, e) == w.ends[e].proxy

(***************************************************************************)
(* The packets of one direction: delivered d, waiting q, of n sent.        *)
(***************************************************************************)
Ascending(s, n) ==
    (\A i \in DOMAIN s : s[i] \in 1..n) /\ (\A i, j \in DOMAIN s : i < j => s[i] < s[j])
InFlow(d, q, n) ==
    /\ Ascending(d, n) /\ Ascending(q, n)
    /\ \A i \in DOMAIN d, j \in DOMAIN q : d[i] < q[j]

LEMMA FlowEnqueue ==
    ASSUME NEW d \in Seq(Nat), NEW q \in Seq(Nat), NEW n \in Nat, InFlow(d, q, n)
    PROVE  InFlow(d, Append(q, n + 1), n + 1)
  <1> DEFINE r == Append(q, n + 1)
  <1>1. /\ Len(q) \in Nat /\ DOMAIN q = 1..Len(q) /\ DOMAIN r = 1..Len(q) + 1
        /\ DOMAIN d = 1..Len(d) /\ Len(d) \in Nat
    OBVIOUS
  <1>2. /\ \A i \in DOMAIN q : r[i] = q[i]
        /\ r[Len(q) + 1] = n + 1
        /\ \A i \in DOMAIN r : i \in DOMAIN q \/ i = Len(q) + 1
    BY <1>1
  <1> HIDE DEF r
  <1>3. \A i \in DOMAIN r : r[i] \in 1..n + 1
    BY <1>1, <1>2 DEF InFlow, Ascending
  <1>4. \A i, j \in DOMAIN r : i < j => r[i] < r[j]
    <2> TAKE i, j \in DOMAIN r
    <2> HAVE i < j
    <2>1. i \in DOMAIN q
      BY <1>1, <1>2
    <2>2. CASE j \in DOMAIN q
      BY <1>2, <2>1, <2>2 DEF InFlow, Ascending
    <2>3. CASE j = Len(q) + 1
      BY <1>2, <2>1, <2>3 DEF InFlow, Ascending
    <2>4. QED
      BY <1>2, <2>2, <2>3
  <1>5. \A i \in DOMAIN d, j \in DOMAIN r : d[i] < r[j]
    <2> TAKE i \in DOMAIN d, j \in DOMAIN r
    <2>1. d[i] \in 1..n /\ d[i] < n + 1
      BY DEF InFlow, Ascending
    <2>2. CASE j \in DOMAIN q
      BY <1>2, <2>2 DEF InFlow
    <2>3. CASE j = Len(q) + 1
      BY <1>2, <2>1, <2>3
    <2>4. QED
      BY <1>2, <2>2, <2>3
  <1>6. \A i \in DOMAIN d : d[i] \in 1..n + 1
    BY DEF InFlow, Ascending
  <1>7. QED
    BY <1>3, <1>4, <1>5, <1>6 DEF InFlow, Ascending, r

\* Between the proxy and the peer, the packet is behind all that were delivered and
\* ahead of all that wait.
LEMMA FlowTake ==
    ASSUME NEW d \in Seq(Nat), NEW q \in Seq(Nat), NEW n \in Nat, InFlow(d, q, n), q # <<>>
    PROVE  /\ Tail(q) \in Seq(Nat) /\ Head(q) \in Nat
           /\ Len(Tail(q)) = Len(q) - 1
           /\ InFlow(d, Tail(q), n) /\ InFlow(Append(d, Head(q)), Tail(q), n)
  <1> DEFINE p == Head(q)
             t == Tail(q)
             c == Append(d, p)
  <1>1. /\ Len(q) \in Nat \ {0} /\ DOMAIN q = 1..Len(q)
        /\ p = q[1] /\ 1 \in DOMAIN q /\ p \in Nat
        /\ t \in Seq(Nat) /\ Len(t) = Len(q) - 1 /\ DOMAIN t = 1..Len(q) - 1
        /\ \A i \in DOMAIN t : i + 1 \in DOMAIN q /\ t[i] = q[i + 1]
    OBVIOUS
  <1>2. /\ Len(d) \in Nat /\ DOMAIN d = 1..Len(d) /\ DOMAIN c = 1..Len(d) + 1
        /\ \A i \in DOMAIN d : c[i] = d[i]
        /\ c[Len(d) + 1] = p
        /\ \A i \in DOMAIN c : i \in DOMAIN d \/ i = Len(d) + 1
    BY <1>1
  <1> HIDE DEF p, t, c
  <1>3. \A i \in DOMAIN t : t[i] \in 1..n /\ p < t[i]
    <2> TAKE i \in DOMAIN t
    <2>1. i + 1 \in DOMAIN q /\ t[i] = q[i + 1] /\ 1 < i + 1
      BY <1>1
    <2>2. QED
      BY <1>1, <2>1 DEF InFlow, Ascending
  <1>4. \A i, j \in DOMAIN t : i < j => t[i] < t[j]
    <2> TAKE i, j \in DOMAIN t
    <2> HAVE i < j
    <2>1. /\ i + 1 \in DOMAIN q /\ t[i] = q[i + 1] /\ j + 1 \in DOMAIN q /\ t[j] = q[j + 1]
          /\ i + 1 < j + 1
      BY <1>1
    <2>2. QED
      BY <2>1 DEF InFlow, Ascending
  <1>5. \A i \in DOMAIN d : d[i] < p
    BY <1>1 DEF InFlow
  <1>6. \A i \in DOMAIN d, j \in DOMAIN t : d[i] < t[j]
    BY <1>1 DEF InFlow
  <1>7. p \in 1..n
    BY <1>1 DEF InFlow, Ascending
  <1>8. Ascending(c, n)
    <2>1. \A i \in DOMAIN c : c[i] \in 1..n
      BY <1>2, <1>7 DEF InFlow, Ascending
    <2>2. ASSUME NEW i \in DOMAIN c, NEW j \in DOMAIN c, i < j
          PROVE  c[i] < c[j]
      <3>1. i \in DOMAIN d
        BY <1>2, <2>2
      <3>2. CASE j \in DOMAIN d
        BY <1>2, <2>2, <3>1, <3>2 DEF InFlow, Ascending
      <3>3. CASE j = Len(d) + 1
        BY <1>2, <1>5, <3>1, <3>3
      <3>4. QED
        BY <1>2, <3>2, <3>3
    <2>3. QED
      BY <2>1, <2>2 DEF Ascending
  <1>9. \A i \in DOMAIN c, j \in DOMAIN t : c[i] < t[j]
    BY <1>2, <1>3, <1>6
  <1>10. QED
    BY <1>1, <1>3, <1>4, <1>6, <1>8, <1>9 DEF InFlow, Ascending, p, t, c

(***************************************************************************)
(* Invariants of a state during a call.  lost counts the packets the call  *)
(* has taken from a proxy and not delivered, lag those it has delivered    *)
(* and not counted.                                                        *)
(***************************************************************************)
Lost(w, e) == w.log.sent[e] - Len(Delivered(w, e)) - Len(Queue(w, e))
Total(w) == Len(Delivered(w, "a")) + Len(Delivered(w, "b"))

Flows(w) == \A e \in Ends : InFlow(Delivered(w, e), Queue(w, e), w.log.sent[e])
Accounts(w, lost, lag) ==
    /\ Lost(w, "a") + Lost(w, "b") <= w.log.failed + lost
    /\ w.bridge.relayed + lag <= Total(w)
    /\ w.log.faults = 0 => w.bridge.relayed + lag = Total(w)
Relayed(w, lost, lag) == Flows(w) /\ Accounts(w, lost, lag)

\* What the marks and counters of the bridge say of the fabrics, whatever failed,
Marked(w, e) ==
    /\ w.ends[e].round # Ports
    /\ w.bridge.completed <= w.ends[e].completed
    /\ w.bridge.completed <= w.log.joined[e]
    /\ e \in w.bridge.arrived =>
          /\ w.bridge.completed + 1 <= w.log.joined[e]
          /\ "local" \in w.ends[e].round \/ w.bridge.completed + 1 <= w.ends[e].completed
\* and what they say before anything was lost.
Exact(w) ==
    w.log.faults = 0 =>
        /\ w.bridge.arrived = {e \in Ends : "local" \in w.ends[e].round}
        /\ \A e \in Ends : w.ends[e].completed = w.bridge.completed /\ "proxy" \notin w.ends[e].round
Met(w) ==
    /\ \A e \in Ends : Marked(w, e)
    /\ Exact(w)
    /\ w.log.faults = 0 => w.bridge.arrived # Ends

\* The outcome of a call, and of a part of one that is free to go on.
Good(o) ==
    /\ o.world \in Worlds
    /\ Met(o.world)
    /\ Relayed(o.world, IF o.ok THEN 0 ELSE 1, 0)

LEMMA WorldFields ==
    ASSUME NEW w \in Worlds
    PROVE  /\ w = [ends |-> w.ends, bridge |-> w.bridge, log |-> w.log]
           /\ w.ends \in [Ends -> EndRecords] /\ w.bridge \in BridgeRecords /\ w.log \in Logs
           /\ w.bridge.relayed \in Nat /\ w.bridge.completed \in Nat /\ w.bridge.arrived \in SUBSET Ends
           /\ w.log.failed \in Nat /\ w.log.faults \in Nat
           /\ w.log.sent \in [Ends -> Nat] /\ w.log.joined \in [Ends -> Nat]
           /\ w.log.delivered \in [Ends -> Seq(Nat)]
           /\ \A e \in Ends :
                /\ Delivered(w, e) \in Seq(Nat) /\ Queue(w, e) \in Seq(Nat)
                /\ Len(Delivered(w, e)) \in Nat /\ Len(Queue(w, e)) \in Nat
                /\ w.log.sent[e] \in Nat /\ w.log.joined[e] \in Nat
                /\ w.ends[e] \in EndRecords
                /\ w.ends[e].local \in Seq(Ends \X Nat) /\ w.ends[e].completed \in Nat
                /\ w.ends[e].round \in SUBSET Ports
  <1>1. /\ w = [ends |-> w.ends, bridge |-> w.bridge, log |-> w.log]
        /\ w.ends \in [Ends -> EndRecords] /\ w.bridge \in BridgeRecords /\ w.log \in Logs
    BY DEF Worlds
  <1>2. w.bridge.relayed \in Nat /\ w.bridge.completed \in Nat /\ w.bridge.arrived \in SUBSET Ends
    BY <1>1 DEF BridgeRecords
  <1>3. /\ w.log.failed \in Nat /\ w.log.faults \in Nat
        /\ w.log.sent \in [Ends -> Nat] /\ w.log.joined \in [Ends -> Nat]
        /\ w.log.delivered \in [Ends -> Seq(Nat)]
    BY <1>1 DEF Logs
  <1>4. ASSUME NEW e \in Ends
        PROVE  /\ Delivered(w, e) \in Seq(Nat) /\ Queue(w, e) \in Seq(Nat)
               /\ Len(Delivered(w, e)) \in Nat /\ Len(Queue(w, e)) \in Nat
               /\ w.log.sent[e] \in Nat /\ w.log.joined[e] \in Nat
               /\ w.ends[e] \in EndRecords
               /\ w.ends[e].local \in Seq(Ends \X Nat) /\ w.ends[e].completed \in Nat
               /\ w.ends[e].round \in SUBSET Ports
    <2>1. w.ends[e] \in EndRecords
      BY <1>1
    <2>2. Delivered(w, e) \in Seq(Nat) /\ w.log.sent[e] \in Nat /\ w.log.joined[e] \in Nat
      BY <1>3 DEF Delivered
    <2>3. /\ Queue(w, e) \in Seq(Nat) /\ w.ends[e].local \in Seq(Ends \X Nat)
          /\ w.ends[e].completed \in Nat /\ w.ends[e].round \in SUBSET Ports
      BY <2>1 DEF EndRecords, Queue
    <2>4. Len(Delivered(w, e)) \in Nat /\ Len(Queue(w, e)) \in Nat
      BY <2>2, <2>3
    <2>5. QED
      BY <2>1, <2>2, <2>3, <2>4
  <1>5. QED
    BY <1>1, <1>2, <1>3, <1>4

\* Parts of the bridge that leave each other's state alone.
SamePackets(w, v) ==
    /\ \A e \in Ends : /\ Delivered(v, e) = Delivered(w, e) /\ Queue(v, e) = Queue(w, e)
                       /\ v.log.sent[e] = w.log.sent[e]
    /\ v.bridge.relayed = w.bridge.relayed /\ v.log.failed = w.log.failed
    /\ v.log.faults = 0 => w.log.faults = 0
SameBarrier(w, v) ==
    /\ \A e \in Ends : /\ v.ends[e].round = w.ends[e].round
                       /\ v.ends[e].completed = w.ends[e].completed
                       /\ v.log.joined[e] = w.log.joined[e]
    /\ v.bridge.arrived = w.bridge.arrived /\ v.bridge.completed = w.bridge.completed
    /\ v.log.faults = 0 => w.log.faults = 0

LEMMA PacketsFrame ==
    ASSUME NEW w, NEW v, SamePackets(w, v), NEW lost, NEW lag, Relayed(w, lost, lag)
    PROVE  Relayed(v, lost, lag)
  <1>1. Flows(v)
    BY DEF Relayed, Flows, SamePackets
  <1>2. "a" \in Ends /\ "b" \in Ends
    BY DEF Ends
  <1>3. Lost(v, "a") = Lost(w, "a") /\ Lost(v, "b") = Lost(w, "b") /\ Total(v) = Total(w)
    BY <1>2 DEF SamePackets, Lost, Total
  <1>4. QED
    BY <1>1, <1>3 DEF Relayed, Accounts, SamePackets

LEMMA BarrierFrame ==
    ASSUME NEW w, NEW v, SameBarrier(w, v), Met(w)
    PROVE  Met(v)
  <1>1. \A e \in Ends : Marked(v, e)
    BY DEF Met, Marked, SameBarrier
  <1>2. Exact(v)
    BY DEF Met, Exact, SameBarrier
  <1>3. QED
    BY <1>1, <1>2 DEF Met, SameBarrier

(***************************************************************************)
(* A call that goes wrong.                                                 *)
(***************************************************************************)
LEMMA FaultyOutcomes ==
    ASSUME NEW w \in Worlds, NEW o \in Faulty(w)
    PROVE  /\ o.world \in Worlds /\ ~o.ok
           /\ o.world.ends = w.ends /\ o.world.bridge = w.bridge
           /\ o.world.log \in Logs /\ o.world.log = [w.log EXCEPT !.faults = w.log.faults + 1]
           /\ o.world.log.faults # 0
           /\ SamePackets(w, o.world) /\ SameBarrier(w, o.world)
  <1> DEFINE l == [w.log EXCEPT !.faults = w.log.faults + 1]
             v == [w EXCEPT !.log = l]
  <1>1. o = Failed(v)
    BY WorldFields DEF Faulty
  <1>2. /\ l \in Logs /\ l.faults = w.log.faults + 1 /\ l.faults # 0
        /\ l.sent = w.log.sent /\ l.joined = w.log.joined /\ l.delivered = w.log.delivered
        /\ l.failed = w.log.failed
    <2>1. w.log \in Logs /\ w.log.faults \in Nat
      BY WorldFields
    <2>2. PICK k \in Nat : k = w.log.faults + 1 /\ k # 0
      BY <2>1
    <2>3. l = [w.log EXCEPT !.faults = k]
      BY <2>2
    <2> HIDE DEF l
    <2>4. QED
      BY <2>1, <2>2, <2>3 DEF Logs
  <1> HIDE DEF l
  <1>3. v \in Worlds /\ v.ends = w.ends /\ v.bridge = w.bridge /\ v.log = l
    BY <1>2, WorldFields DEF Worlds
  <1> HIDE DEF v
  <1>4. o.world = v /\ ~o.ok
    BY <1>1 DEF Failed
  <1>5. SamePackets(w, v) /\ SameBarrier(w, v)
    BY <1>2, <1>3, WorldFields DEF SamePackets, SameBarrier, Delivered, Queue
  <1>6. QED
    BY <1>2, <1>3, <1>4, <1>5 DEF l

\* A fault forgives what the call has not accounted for.
LEMMA FaultForgives ==
    ASSUME NEW w \in Worlds, NEW o \in Faulty(w), NEW lost \in {0, 1}, NEW lag \in {0, 1},
           Relayed(w, lost, lag), Met(w)
    PROVE  Good(o)
  <1>1. /\ o.world \in Worlds /\ ~o.ok /\ o.world.log.faults # 0
        /\ SamePackets(w, o.world) /\ SameBarrier(w, o.world)
    BY FaultyOutcomes
  <1>2. Met(o.world) /\ Relayed(o.world, lost, lag)
    BY <1>1, BarrierFrame, PacketsFrame
  <1> DEFINE v == o.world
             t == Total(v)
             m == Lost(v, "a") + Lost(v, "b")
  <1>3. v.bridge.relayed \in Nat /\ v.log.failed \in Nat /\ t \in Nat /\ m \in Int
    <2>1. /\ v.bridge.relayed \in Nat /\ v.log.failed \in Nat
          /\ \A e \in Ends : /\ Len(Delivered(v, e)) \in Nat /\ Len(Queue(v, e)) \in Nat
                             /\ v.log.sent[e] \in Nat
      BY <1>1, WorldFields
    <2>2. "a" \in Ends /\ "b" \in Ends
      BY DEF Ends
    <2>3. /\ Len(Delivered(v, "a")) \in Nat /\ Len(Delivered(v, "b")) \in Nat
          /\ Lost(v, "a") \in Int /\ Lost(v, "b") \in Int
      BY <2>1, <2>2 DEF Lost
    <2>4. QED
      BY <2>1, <2>3 DEF Total
  <1>4. Accounts(v, 1, 0)
    <2>1. m <= v.log.failed + lost /\ v.bridge.relayed + lag <= t
      BY <1>2 DEF Relayed, Accounts
    <2> HIDE DEF m, t
    <2>2. m <= v.log.failed + 1 /\ v.bridge.relayed + 0 <= t
      BY <1>3, <2>1
    <2>3. QED
      BY <1>1, <2>2 DEF Accounts, m, t
  <1>5. QED
    BY <1>1, <1>2, <1>4 DEF Good, Relayed

(***************************************************************************)
(* One packet through the bridge: taken from its proxy, put to the peer,   *)
(* counted.                                                                *)
(***************************************************************************)
\* The packet p of end e is between the proxy and the peer.
Held(w, e, p) ==
    InFlow(Append(Delivered(w, e), p), Queue(w, e), w.log.sent[e])

\* The three steps.
Took(w, e) == [w EXCEPT !.ends[e].proxy = Tail(@)]
Put(w, e, p) == [w EXCEPT !.ends[Peer(e)].local = Append(@, <<e, p>>),
                          !.log.delivered[e] = Append(@, p)]
Counted(w) == [w EXCEPT !.bridge.relayed = @ + 1]

LEMMA EndsAre == "a" \in Ends /\ "b" \in Ends /\ \A e \in Ends : e = "a" \/ e = "b"
  BY DEF Ends

LEMMA CountTypes ==
    ASSUME NEW w \in Worlds
    PROVE  /\ w.bridge.relayed \in Nat /\ w.log.failed \in Nat
           /\ Lost(w, "a") \in Int /\ Lost(w, "b") \in Int
           /\ Len(Delivered(w, "a")) \in Nat /\ Len(Delivered(w, "b")) \in Nat
           /\ Total(w) \in Nat
  <1>1. /\ w.bridge.relayed \in Nat /\ w.log.failed \in Nat
        /\ \A e \in Ends : /\ Len(Delivered(w, e)) \in Nat /\ Len(Queue(w, e)) \in Nat
                           /\ w.log.sent[e] \in Nat
    BY WorldFields
  <1>2. ASSUME NEW e \in Ends
        PROVE  Lost(w, e) \in Int
    <2> DEFINE c == w.log.sent[e]  b == Len(Delivered(w, e))  a == Len(Queue(w, e))
    <2>1. c \in Nat /\ b \in Nat /\ a \in Nat
      BY <1>1
    <2>2. Lost(w, e) = c - b - a
      BY DEF Lost
    <2> HIDE DEF a, b, c
    <2>3. QED
      BY <2>1, <2>2
  <1>3. Len(Delivered(w, "a")) \in Nat /\ Len(Delivered(w, "b")) \in Nat
    BY <1>1, EndsAre
  <1>4. QED
    BY <1>1, <1>2, <1>3, EndsAre DEF Total

\* A change to what is lost, delivered or counted, in one direction.
LEMMA AccountsMove ==
    ASSUME NEW w \in Worlds, NEW v \in Worlds, NEW e \in Ends,
           NEW lost \in Nat, NEW lag \in Nat, NEW lost2 \in Nat, NEW lag2 \in Nat,
           Accounts(w, lost, lag),
           \A x \in Ends : x # e => Lost(v, x) = Lost(w, x)
                                   /\ Delivered(v, x) = Delivered(w, x),
           Lost(v, e) - lost2 = Lost(w, e) - lost,
           Len(Delivered(v, e)) - v.bridge.relayed - lag2
               = Len(Delivered(w, e)) - w.bridge.relayed - lag,
           v.log.failed = w.log.failed, v.log.faults = w.log.faults
    PROVE  Accounts(v, lost2, lag2)
  <1> DEFINE va == Lost(v, "a")  vb == Lost(v, "b")
             wa == Lost(w, "a")  wb == Lost(w, "b")
             dva == Len(Delivered(v, "a"))  dvb == Len(Delivered(v, "b"))
             dwa == Len(Delivered(w, "a"))  dwb == Len(Delivered(w, "b"))
             rv == v.bridge.relayed  rw == w.bridge.relayed  fd == w.log.failed
  <1>1. /\ va \in Int /\ vb \in Int /\ wa \in Int /\ wb \in Int
        /\ dva \in Nat /\ dvb \in Nat /\ dwa \in Nat /\ dwb \in Nat
        /\ rv \in Nat /\ rw \in Nat /\ fd \in Nat
    BY CountTypes
  <1>2. \/ va - lost2 = wa - lost /\ vb = wb
        \/ vb - lost2 = wb - lost /\ va = wa
    BY EndsAre
  <1>3. \/ dva - rv - lag2 = dwa - rw - lag /\ dvb = dwb
        \/ dvb - rv - lag2 = dwb - rw - lag /\ dva = dwa
    BY EndsAre
  <1>4. /\ wa + wb <= fd + lost /\ rw + lag <= dwa + dwb
        /\ w.log.faults = 0 => rw + lag = dwa + dwb
    BY DEF Accounts, Total
  <1> HIDE DEF va, vb, wa, wb, dva, dvb, dwa, dwb, rv, rw, fd
  <1>5. va + vb <= fd + lost2
    BY <1>1, <1>2, <1>4
  <1>6. rv + lag2 <= dva + dvb /\ (rw + lag = dwa + dwb => rv + lag2 = dva + dvb)
    BY <1>1, <1>3, <1>4
  <1>7. QED
    BY <1>4, <1>5, <1>6 DEF Accounts, Total, va, vb, dva, dvb, rv, fd

LEMMA TakePacket ==
    ASSUME NEW w \in Worlds, NEW e \in Ends, Queue(w, e) # <<>>, Relayed(w, 0, 0),
           NEW v, v = Took(w, e)
    PROVE  /\ v \in Worlds /\ SameBarrier(w, v)
           /\ Relayed(v, 1, 0)
           /\ Head(Queue(w, e)) \in Nat /\ Held(v, e, Head(Queue(w, e)))
  <1> DEFINE q == Queue(w, e)
             d == Delivered(w, e)
             n == w.log.sent[e]
             en == [w.ends[e] EXCEPT !.proxy = Tail(q)]
             es == [w.ends EXCEPT ![e] = en]
  <1>1. v = [w EXCEPT !.ends = es]
    BY DEF Queue, Took
  <1>2. q \in Seq(Nat) /\ d \in Seq(Nat) /\ n \in Nat /\ w.ends[e] \in EndRecords
    BY WorldFields
  <1>3. /\ Tail(q) \in Seq(Nat) /\ Head(q) \in Nat /\ Len(Tail(q)) = Len(q) - 1
        /\ InFlow(d, Tail(q), n) /\ InFlow(Append(d, Head(q)), Tail(q), n)
    <2>1. InFlow(d, q, n)
      BY DEF Relayed, Flows
    <2>2. q # <<>>
      OBVIOUS
    <2> HIDE DEF q, d, n
    <2>3. QED
      BY <1>2, <2>1, <2>2, FlowTake
  <1> HIDE DEF q
  <1>4. /\ en \in EndRecords /\ en.proxy = Tail(q) /\ en.round = w.ends[e].round
        /\ en.completed = w.ends[e].completed
    BY <1>2, <1>3 DEF EndRecords
  <1> HIDE DEF en
  <1>5. /\ es \in [Ends -> EndRecords] /\ es[e] = en
        /\ \A x \in Ends : x # e => es[x] = w.ends[x]
    BY <1>4, WorldFields
  <1> HIDE DEF es
  <1>6. v \in Worlds /\ v.ends = es /\ v.bridge = w.bridge /\ v.log = w.log
    BY <1>1, <1>5, WorldFields DEF Worlds
  <1>7. SameBarrier(w, v)
    BY <1>4, <1>5, <1>6 DEF SameBarrier
  <1>8. /\ Queue(v, e) = Tail(q) /\ v.log.sent[e] = n
        /\ \A x \in Ends : Delivered(v, x) = Delivered(w, x)
        /\ \A x \in Ends : x # e => Queue(v, x) = Queue(w, x)
    BY <1>4, <1>5, <1>6 DEF Queue, Delivered
  <1>9. Flows(v)
    <2>1. ASSUME NEW x \in Ends
          PROVE  InFlow(Delivered(v, x), Queue(v, x), v.log.sent[x])
      <3>1. CASE x = e
        BY <1>3, <1>8, <3>1
      <3>2. CASE x # e
        BY <1>6, <1>8, <3>2 DEF Relayed, Flows
      <3>3. QED
        BY <3>1, <3>2
    <2>2. QED
      BY <2>1 DEF Flows
  <1>10. Accounts(v, 1, 0)
    <2>1. \A x \in Ends : x # e => Lost(v, x) = Lost(w, x) /\ Delivered(v, x) = Delivered(w, x)
      BY <1>6, <1>8 DEF Lost
    <2>2. Lost(v, e) - 1 = Lost(w, e) - 0
      <3>1. Len(Queue(v, e)) = Len(Queue(w, e)) - 1 /\ Delivered(v, e) = Delivered(w, e)
            /\ v.log.sent[e] = w.log.sent[e]
        BY <1>3, <1>8 DEF q
      <3>2. /\ Len(Queue(w, e)) \in Nat /\ Len(Delivered(w, e)) \in Nat /\ w.log.sent[e] \in Nat
        BY WorldFields
      <3> DEFINE a == Len(Queue(w, e))  b == Len(Delivered(w, e))  c == w.log.sent[e]
      <3>3. Lost(w, e) = c - b - a /\ Lost(v, e) = c - b - (a - 1)
        BY <3>1 DEF Lost
      <3> HIDE DEF a, b, c
      <3>4. a \in Nat /\ b \in Nat /\ c \in Nat
        BY <3>2 DEF a, b, c
      <3>5. QED
        BY <3>3, <3>4
    <2>3. Len(Delivered(v, e)) - v.bridge.relayed - 0 = Len(Delivered(w, e)) - w.bridge.relayed - 0
      BY <1>6, <1>8
    <2>4. v.log.failed = w.log.failed /\ v.log.faults = w.log.faults
      BY <1>6
    <2>5. Accounts(w, 0, 0) /\ 0 \in Nat /\ 1 \in Nat
      BY DEF Relayed
    <2>6. QED
      BY <1>6, <2>1, <2>2, <2>3, <2>4, <2>5, AccountsMove
  <1>11. Held(v, e, Head(q))
    BY <1>3, <1>8 DEF Held
  <1>12. QED
    BY <1>3, <1>6, <1>7, <1>9, <1>10, <1>11 DEF Relayed, q

LEMMA DeliverPacket ==
    ASSUME NEW w \in Worlds, NEW e \in Ends, NEW p \in Nat, Relayed(w, 1, 0), Held(w, e, p),
           NEW v, v = Put(w, e, p)
    PROVE  /\ v \in Worlds /\ SameBarrier(w, v)
           /\ Relayed(v, 0, 1)
  <1> DEFINE to == Peer(e)
             q == Queue(w, e)
             d == Delivered(w, e)
             n == w.log.sent[e]
             en == [w.ends[to] EXCEPT !.local = Append(@, <<e, p>>)]
             es == [w.ends EXCEPT ![to] = en]
             dl == [w.log.delivered EXCEPT ![e] = Append(d, p)]
             lg == [w.log EXCEPT !.delivered = dl]
  <1>1. v = [w EXCEPT !.ends = es, !.log = lg]
    BY DEF Delivered, Put
  <1>2. /\ q \in Seq(Nat) /\ d \in Seq(Nat) /\ n \in Nat /\ to \in Ends /\ w.ends[to] \in EndRecords
        /\ w.ends[to].local \in Seq(Ends \X Nat)
    BY WorldFields DEF Peer, Ends
  <1>3. Append(d, p) \in Seq(Nat) /\ Len(Append(d, p)) = Len(d) + 1
    BY <1>2
  <1>4. Append(w.ends[to].local, <<e, p>>) \in Seq(Ends \X Nat)
    <2>1. <<e, p>> \in Ends \X Nat
      OBVIOUS
    <2>2. QED
      BY <1>2, <2>1
  <1> HIDE DEF to, d
  <1>5. /\ en \in EndRecords /\ en.proxy = w.ends[to].proxy /\ en.round = w.ends[to].round
        /\ en.completed = w.ends[to].completed
    BY <1>2, <1>4 DEF EndRecords
  <1>6. /\ dl \in [Ends -> Seq(Nat)] /\ dl[e] = Append(d, p)
        /\ \A x \in Ends : x # e => dl[x] = w.log.delivered[x]
    <2>1. w.log.delivered \in [Ends -> Seq(Nat)]
      BY WorldFields
    <2>2. QED
      BY <1>3, <2>1
  <1> HIDE DEF en, dl
  <1>7. es \in [Ends -> EndRecords] /\ \A x \in Ends : es[x] = IF x = to THEN en ELSE w.ends[x]
    BY <1>2, <1>5, WorldFields
  <1>8. /\ lg \in Logs /\ lg.delivered = dl /\ lg.sent = w.log.sent /\ lg.joined = w.log.joined
        /\ lg.failed = w.log.failed /\ lg.faults = w.log.faults
    <2>1. w.log \in Logs
      BY WorldFields
    <2>2. QED
      BY <1>6, <2>1 DEF Logs
  <1> HIDE DEF es, lg
  <1>9. v \in Worlds /\ v.ends = es /\ v.bridge = w.bridge /\ v.log = lg
    BY <1>1, <1>7, <1>8, WorldFields DEF Worlds
  <1>10. SameBarrier(w, v)
    BY <1>5, <1>7, <1>8, <1>9 DEF SameBarrier
  <1>11. /\ Delivered(v, e) = Append(d, p)
         /\ \A x \in Ends : x # e => Delivered(v, x) = Delivered(w, x)
         /\ \A x \in Ends : Queue(v, x) = Queue(w, x) /\ v.log.sent[x] = w.log.sent[x]
    BY <1>5, <1>6, <1>7, <1>8, <1>9 DEF Queue, Delivered
  <1>12. Flows(v)
    <2>1. ASSUME NEW x \in Ends
          PROVE  InFlow(Delivered(v, x), Queue(v, x), v.log.sent[x])
      <3>1. CASE x = e
        BY <1>11, <3>1 DEF Held, d
      <3>2. CASE x # e
        BY <1>11, <3>2 DEF Relayed, Flows
      <3>3. QED
        BY <3>1, <3>2
    <2>2. QED
      BY <2>1 DEF Flows
  <1>13. Accounts(v, 0, 1)
    <2> DEFINE a == Len(Queue(w, e))  b == Len(Delivered(w, e))  c == w.log.sent[e]
               r == w.bridge.relayed
    <2>1. /\ Lost(w, e) = c - b - a /\ Lost(v, e) = c - (b + 1) - a
          /\ Len(Delivered(v, e)) = b + 1 /\ v.bridge.relayed = r
      BY <1>3, <1>9, <1>11 DEF Lost, d
    <2>2. a \in Nat /\ b \in Nat /\ c \in Nat /\ r \in Nat
      BY WorldFields
    <2>3. \A x \in Ends : x # e => Lost(v, x) = Lost(w, x) /\ Delivered(v, x) = Delivered(w, x)
      BY <1>11 DEF Lost
    <2>4. v.log.failed = w.log.failed /\ v.log.faults = w.log.faults
      BY <1>8, <1>9
    <2> HIDE DEF a, b, c, r
    <2>5. Lost(v, e) - 0 = Lost(w, e) - 1
      BY <2>1, <2>2
    <2>6. b + 1 - r - 1 = b - r - 0
      BY <2>2
    <2>7. Len(Delivered(v, e)) - v.bridge.relayed - 1 = Len(Delivered(w, e)) - w.bridge.relayed - 0
      <3>1. PICK m : m = Len(Delivered(v, e)) /\ m = b + 1
        BY <2>1
      <3>2. PICK k : k = v.bridge.relayed /\ k = r
        BY <2>1
      <3>3. m - k - 1 = b - r - 0
        BY <2>2, <3>1, <3>2
      <3>4. Len(Delivered(v, e)) - v.bridge.relayed - 1 = b - r - 0
        BY <3>1, <3>2, <3>3, Zenon
      <3>5. QED
        BY <3>4, Zenon DEF b, r
    <2>8. Accounts(w, 1, 0) /\ 0 \in Nat /\ 1 \in Nat
      BY DEF Relayed
    <2>9. QED
      BY <1>9, <2>3, <2>4, <2>5, <2>7, <2>8, AccountsMove
  <1>14. QED
    BY <1>9, <1>10, <1>12, <1>13 DEF Relayed

LEMMA CountPacket ==
    ASSUME NEW w \in Worlds, Relayed(w, 0, 1),
           NEW v, v = Counted(w)
    PROVE  v \in Worlds /\ SameBarrier(w, v) /\ Relayed(v, 0, 0)
  <1>1. PICK k \in Nat : k = w.bridge.relayed + 1
    BY WorldFields
  <1> DEFINE br == [w.bridge EXCEPT !.relayed = k]
  <1>2. v = [w EXCEPT !.bridge = br]
    BY <1>1 DEF Counted
  <1>3. /\ br \in BridgeRecords /\ br.relayed = k /\ br.arrived = w.bridge.arrived
        /\ br.completed = w.bridge.completed
    <2>1. w.bridge \in BridgeRecords
      BY WorldFields
    <2>2. QED
      BY <2>1 DEF BridgeRecords
  <1> HIDE DEF br
  <1>4. v \in Worlds /\ v.ends = w.ends /\ v.bridge = br /\ v.log = w.log
    BY <1>2, <1>3, WorldFields DEF Worlds
  <1>5. SameBarrier(w, v)
    BY <1>3, <1>4 DEF SameBarrier
  <1>6. \A x \in Ends : Delivered(v, x) = Delivered(w, x) /\ Queue(v, x) = Queue(w, x)
    BY <1>4 DEF Delivered, Queue
  <1>7. Flows(v)
    BY <1>4, <1>6 DEF Relayed, Flows
  <1>8. Accounts(v, 0, 0)
    <2>1. /\ Lost(v, "a") = Lost(w, "a") /\ Lost(v, "b") = Lost(w, "b") /\ Total(v) = Total(w)
          /\ v.log.failed = w.log.failed /\ v.log.faults = w.log.faults
      BY <1>4, <1>6, EndsAre DEF Lost, Total
    <2>2. v.bridge.relayed + 0 = w.bridge.relayed + 1
      BY <1>1, <1>3, <1>4
    <2>3. QED
      BY <2>1, <2>2 DEF Relayed, Accounts
  <1>9. QED
    BY <1>4, <1>5, <1>7, <1>8 DEF Relayed

LEMMA EnqueuePacket ==
    ASSUME NEW w \in Worlds, NEW e \in Ends, Relayed(w, 0, 0), NEW v, v = Enqueued(w, e)
    PROVE  v \in Worlds /\ SameBarrier(w, v) /\ Relayed(v, 0, 0)
  <1> DEFINE q == Queue(w, e)
             d == Delivered(w, e)
             n == w.log.sent[e]
             en == [w.ends[e] EXCEPT !.proxy = Append(q, n + 1)]
             es == [w.ends EXCEPT ![e] = en]
             st == [w.log.sent EXCEPT ![e] = n + 1]
             lg == [w.log EXCEPT !.sent = st]
  <1>1. v = [w EXCEPT !.ends = es, !.log = lg]
    BY DEF Queue, Enqueued
  <1>2. /\ q \in Seq(Nat) /\ d \in Seq(Nat) /\ n \in Nat /\ w.ends[e] \in EndRecords
        /\ w.log.sent \in [Ends -> Nat]
    BY WorldFields
  <1>3. n + 1 \in Nat /\ Append(q, n + 1) \in Seq(Nat) /\ Len(Append(q, n + 1)) = Len(q) + 1
    BY <1>2
  <1>4. InFlow(d, Append(q, n + 1), n + 1)
    <2>1. InFlow(d, q, n)
      BY DEF Relayed, Flows
    <2> HIDE DEF d, q, n
    <2>2. QED
      BY <1>2, <2>1, FlowEnqueue
  <1> HIDE DEF q
  <1>5. st \in [Ends -> Nat] /\ st[e] = n + 1 /\ \A x \in Ends : x # e => st[x] = w.log.sent[x]
    BY <1>2, <1>3
  <1>6. /\ en \in EndRecords /\ en.proxy = Append(q, n + 1) /\ en.round = w.ends[e].round
        /\ en.completed = w.ends[e].completed
    BY <1>2, <1>3 DEF EndRecords
  <1> HIDE DEF en, st
  <1>7. es \in [Ends -> EndRecords] /\ \A x \in Ends : es[x] = IF x = e THEN en ELSE w.ends[x]
    BY <1>6, WorldFields
  <1>8. /\ lg \in Logs /\ lg.delivered = w.log.delivered /\ lg.sent = st
        /\ lg.joined = w.log.joined /\ lg.failed = w.log.failed /\ lg.faults = w.log.faults
    <2>1. w.log \in Logs
      BY WorldFields
    <2>2. QED
      BY <1>5, <2>1 DEF Logs
  <1> HIDE DEF es, lg
  <1>9. v \in Worlds /\ v.ends = es /\ v.bridge = w.bridge /\ v.log = lg
    BY <1>1, <1>7, <1>8, WorldFields DEF Worlds
  <1>10. SameBarrier(w, v)
    BY <1>6, <1>7, <1>8, <1>9 DEF SameBarrier
  <1>11. /\ Queue(v, e) = Append(q, n + 1) /\ v.log.sent[e] = n + 1
         /\ \A x \in Ends : Delivered(v, x) = Delivered(w, x)
         /\ \A x \in Ends : x # e => Queue(v, x) = Queue(w, x) /\ v.log.sent[x] = w.log.sent[x]
    BY <1>5, <1>6, <1>7, <1>8, <1>9 DEF Queue, Delivered
  <1>12. Flows(v)
    <2>1. ASSUME NEW x \in Ends
          PROVE  InFlow(Delivered(v, x), Queue(v, x), v.log.sent[x])
      <3>1. CASE x = e
        BY <1>4, <1>11, <3>1
      <3>2. CASE x # e
        BY <1>11, <3>2 DEF Relayed, Flows
      <3>3. QED
        BY <3>1, <3>2
    <2>2. QED
      BY <2>1 DEF Flows
  <1>13. Accounts(v, 0, 0)
    <2> DEFINE a == Len(Queue(w, e))  b == Len(Delivered(w, e))
    <2>1. /\ Lost(w, e) = n - b - a /\ Lost(v, e) = (n + 1) - b - (a + 1)
      BY <1>3, <1>11 DEF Lost, q
    <2>2. a \in Nat /\ b \in Nat /\ n \in Nat
      BY WorldFields
    <2>3. \A x \in Ends : x # e => Lost(v, x) = Lost(w, x) /\ Delivered(v, x) = Delivered(w, x)
      BY <1>11 DEF Lost
    <2>4. v.log.failed = w.log.failed /\ v.log.faults = w.log.faults
      BY <1>8, <1>9
    <2>5. Len(Delivered(v, e)) - v.bridge.relayed - 0 = Len(Delivered(w, e)) - w.bridge.relayed - 0
      BY <1>9, <1>11
    <2> HIDE DEF a, b, n
    <2>6. Lost(v, e) - 0 = Lost(w, e) - 0
      BY <2>1, <2>2
    <2>7. Accounts(w, 0, 0) /\ 0 \in Nat
      BY DEF Relayed
    <2>8. QED
      BY <1>9, <2>3, <2>4, <2>5, <2>6, <2>7, AccountsMove
  <1>14. QED
    BY <1>9, <1>10, <1>12, <1>13 DEF Relayed

(***************************************************************************)
(* The calls of the relay, outcome by outcome.                             *)
(***************************************************************************)
LEMMA WeakerAccounts ==
    ASSUME NEW w \in Worlds, Relayed(w, 0, 0)
    PROVE  Relayed(w, 1, 0)
  <1> DEFINE m == Lost(w, "a") + Lost(w, "b")
             f == w.log.failed
  <1>1. m \in Int /\ f \in Nat
    BY CountTypes
  <1>2. m <= f + 0
    BY DEF Relayed, Accounts
  <1> HIDE DEF m, f
  <1>3. m <= f + 1
    BY <1>1, <1>2
  <1>4. QED
    BY <1>3 DEF Relayed, Accounts, m, f

LEMMA ForwardedGood ==
    ASSUME NEW w \in Worlds, NEW e \in Ends, NEW p \in Nat,
           Relayed(w, 1, 0), Held(w, e, p), Met(w), NEW o \in Forwarded(w, e, p)
    PROVE  Good(o)
  <1>0. PICK v : v = Put(w, e, p)
    OBVIOUS
  <1>1. CASE o = Failed(w)
    <2>1. ~o.ok /\ o.world = w
      BY <1>1 DEF Failed
    <2>2. QED
      BY <2>1 DEF Good
  <1>2. CASE o \in Faulty(w)
    BY <1>2, FaultForgives
  <1>3. v \in Worlds /\ Relayed(v, 0, 1) /\ Met(v)
    BY <1>0, DeliverPacket, BarrierFrame
  <1>4. CASE o \in Faulty(v)
    BY <1>3, <1>4, FaultForgives
  <1>5. CASE o = Ok(Counted(v))
    <2>1. PICK u : u = Counted(v)
      OBVIOUS
    <2>2. u \in Worlds /\ Relayed(u, 0, 0) /\ Met(u)
      BY <1>3, <2>1, CountPacket, BarrierFrame
    <2>3. o.ok /\ o.world = u
      BY <1>5, <2>1 DEF Ok
    <2>4. QED
      BY <2>2, <2>3 DEF Good
  <1>6. \/ o = Failed(w) \/ o \in Faulty(w) \/ o \in Faulty(v)
        \/ o = Ok(Counted(v))
    <2>1. CASE Len(w.ends[Peer(e)].local) >= Capacity
      BY <2>1 DEF Forwarded
    <2>2. CASE ~(Len(w.ends[Peer(e)].local) >= Capacity)
      <3>1. o \in Then(Called(w, v), LAMBDA u : {Ok(Counted(u))})
        BY <1>0, <2>2 DEF Forwarded, Put, Counted
      <3>2. \/ o \in Called(w, v) /\ ~o.ok
            \/ \E x \in Called(w, v) : x.ok /\ o \in {Ok(Counted(x.world))}
        BY <3>1, Zenon DEF Then
      <3>3. CASE o \in Called(w, v) /\ ~o.ok
        BY <3>3 DEF Called, Ok
      <3>4. CASE \E x \in Called(w, v) : x.ok /\ o \in {Ok(Counted(x.world))}
        <4>1. PICK x \in Called(w, v) : x.ok /\ o = Ok(Counted(x.world))
          BY <3>4
        <4>2. x.world = v
          BY <4>1 DEF Called, Faulty, Failed, Ok
        <4>3. QED
          BY <4>1, <4>2
      <3>5. QED
        BY <3>2, <3>3, <3>4
    <2>3. QED
      BY <2>1, <2>2
  <1>7. QED
    BY <1>1, <1>2, <1>4, <1>5, <1>6

\* A call of which nothing remains to be done.
LEMMA OkGood ==
    ASSUME NEW w \in Worlds, Relayed(w, 0, 0), Met(w), NEW o, o = Ok(w) \/ o = Failed(w)
    PROVE  Good(o)
  <1>1. CASE o = Ok(w)
    <2>1. o.ok /\ o.world = w
      BY <1>1 DEF Ok
    <2>2. QED
      BY <2>1 DEF Good
  <1>2. CASE o = Failed(w)
    <2>1. ~o.ok /\ o.world = w
      BY <1>2 DEF Failed
    <2>2. QED
      BY <2>1, WeakerAccounts DEF Good
  <1>3. QED
    BY <1>1, <1>2

LEMMA RelayOneGood ==
    ASSUME NEW w \in Worlds, NEW e \in Ends, Relayed(w, 0, 0), Met(w), NEW o \in RelayOne(w, e)
    PROVE  Good(o)
  <1>1. CASE o = Ok(w)
    BY <1>1, OkGood
  <1>2. CASE o \in Faulty(w)
    BY <1>2, FaultForgives
  <1>3. CASE Queue(w, e) # <<>> /\ o \in Then(Called(w, Took(w, e)),
                                             LAMBDA u : Forwarded(u, e, Head(Queue(w, e))))
    <2>1. PICK v : v = Took(w, e)
      OBVIOUS
    <2>2. PICK p : p = Head(Queue(w, e))
      OBVIOUS
    <2>3. v \in Worlds /\ Relayed(v, 1, 0) /\ Met(v) /\ p \in Nat /\ Held(v, e, p)
      <3>1. v \in Worlds /\ SameBarrier(w, v) /\ Relayed(v, 1, 0) /\ p \in Nat /\ Held(v, e, p)
        BY <1>3, <2>1, <2>2, TakePacket
      <3>2. QED
        BY <3>1, BarrierFrame
    <2>4. \/ o \in Called(w, v) /\ ~o.ok
          \/ \E x \in Called(w, v) : x.ok /\ o \in Forwarded(x.world, e, p)
      BY <1>3, <2>1, <2>2, Zenon DEF Then
    <2>5. CASE o \in Called(w, v) /\ ~o.ok
      <3>1. o \in Faulty(v) \/ o \in Faulty(w)
        BY <2>5 DEF Called, Ok
      <3>2. QED
        BY <1>2, <2>3, <3>1, FaultForgives
    <2>6. CASE \E x \in Called(w, v) : x.ok /\ o \in Forwarded(x.world, e, p)
      <3>1. PICK x \in Called(w, v) : x.ok /\ o \in Forwarded(x.world, e, p)
        BY <2>6
      <3>2. x.world = v
        BY <3>1 DEF Called, Faulty, Failed, Ok
      <3>3. QED
        BY <2>3, <3>1, <3>2, ForwardedGood
    <2>7. QED
      BY <2>4, <2>5, <2>6
  <1>4. \/ o = Ok(w) \/ o \in Faulty(w)
        \/ Queue(w, e) # <<>> /\ o \in Then(Called(w, Took(w, e)),
                                           LAMBDA u : Forwarded(u, e, Head(Queue(w, e))))
    BY DEF RelayOne, Took, Queue
  <1>5. QED
    BY <1>1, <1>2, <1>3, <1>4

LEMMA PumpGood ==
    ASSUME NEW w \in Worlds, Relayed(w, 0, 0), Met(w), NEW o \in Pump(w)
    PROVE  Good(o)
  <1>1. o \in Then(RelayOne(w, "a"), LAMBDA u : RelayOne(u, "b"))
    BY DEF Pump
  <1>2. \/ o \in RelayOne(w, "a")
        \/ \E x \in RelayOne(w, "a") : x.ok /\ o \in RelayOne(x.world, "b")
    BY <1>1, Zenon DEF Then
  <1>3. CASE o \in RelayOne(w, "a")
    BY <1>3, RelayOneGood, EndsAre
  <1>4. CASE \E x \in RelayOne(w, "a") : x.ok /\ o \in RelayOne(x.world, "b")
    <2>1. PICK x \in RelayOne(w, "a") : x.ok /\ o \in RelayOne(x.world, "b")
      BY <1>4
    <2>2. Good(x)
      BY RelayOneGood, EndsAre
    <2>3. x.world \in Worlds /\ Relayed(x.world, 0, 0) /\ Met(x.world)
      BY <2>1, <2>2 DEF Good
    <2>4. QED
      BY <2>1, <2>3, RelayOneGood, EndsAre
  <1>5. QED
    BY <1>2, <1>3, <1>4

LEMMA SendGood ==
    ASSUME NEW w \in Worlds, NEW e \in Ends, Relayed(w, 0, 0), Met(w),
           NEW o \in Then(Called(w, Enqueued(w, e)), Pump)
    PROVE  Good(o)
  <1>1. PICK v : v = Enqueued(w, e)
    OBVIOUS
  <1>2. v \in Worlds /\ Relayed(v, 0, 0) /\ Met(v)
    BY <1>1, EnqueuePacket, BarrierFrame
  <1>3. \/ o \in Called(w, v) /\ ~o.ok
        \/ \E x \in Called(w, v) : x.ok /\ o \in Pump(x.world)
    BY <1>1, Zenon DEF Then
  <1>4. CASE o \in Called(w, v) /\ ~o.ok
    <2>1. o \in Faulty(v) \/ o \in Faulty(w)
      BY <1>4 DEF Called, Ok
    <2>2. QED
      BY <1>2, <2>1, FaultForgives
  <1>5. CASE \E x \in Called(w, v) : x.ok /\ o \in Pump(x.world)
    <2>1. PICK x \in Called(w, v) : x.ok /\ o \in Pump(x.world)
      BY <1>5
    <2>2. x.world = v
      BY <2>1 DEF Called, Faulty, Failed, Ok
    <2>3. QED
      BY <1>2, <2>1, <2>2, PumpGood
  <1>6. QED
    BY <1>3, <1>4, <1>5

(***************************************************************************)
(* Arrivals.                                                               *)
(***************************************************************************)
\* Port has joined the round at end e, and ended it if it was the last.
JoinedRound(w, v, e, port) ==
    /\ port \notin w.ends[e].round
    /\ \/ /\ w.ends[e].round \cup {port} # Ports
          /\ v.ends[e].round = w.ends[e].round \cup {port}
          /\ v.ends[e].completed = w.ends[e].completed
       \/ /\ w.ends[e].round \cup {port} = Ports
          /\ v.ends[e].round = {}
          /\ v.ends[e].completed = w.ends[e].completed + 1
SameRound(w, v, e) ==
    v.ends[e].round = w.ends[e].round /\ v.ends[e].completed = w.ends[e].completed

\* The world after an arrival.
Arrival(w, e, port) ==
    IF w.ends[e].round \cup {port} = Ports
    THEN [w EXCEPT !.ends[e].round = {}, !.ends[e].completed = @ + 1]
    ELSE [w EXCEPT !.ends[e].round = w.ends[e].round \cup {port}]

LEMMA ArrivalFields ==
    ASSUME NEW w \in Worlds, NEW e \in Ends, NEW port \in Ports, port \notin w.ends[e].round,
           NEW v, v = Arrival(w, e, port)
    PROVE  /\ v \in Worlds /\ SamePackets(w, v)
           /\ v.bridge = w.bridge /\ v.log = w.log
           /\ JoinedRound(w, v, e, port)
           /\ \A x \in Ends : x # e => SameRound(w, v, x)
  <1> DEFINE round == w.ends[e].round \cup {port}
             en == IF round = Ports
                   THEN [w.ends[e] EXCEPT !.round = {}, !.completed = @ + 1]
                   ELSE [w.ends[e] EXCEPT !.round = round]
             es == [w.ends EXCEPT ![e] = en]
  <1>1. v = [w EXCEPT !.ends = es]
    <2>1. CASE round = Ports
      BY <2>1 DEF Arrival
    <2>2. CASE round # Ports
      BY <2>2 DEF Arrival
    <2>3. QED
      BY <2>1, <2>2
  <1>2. /\ w.ends[e] \in EndRecords /\ w.ends[e].completed + 1 \in Nat /\ round \in SUBSET Ports
        /\ {} \in SUBSET Ports
    BY WorldFields
  <1>3. /\ en \in EndRecords /\ en.proxy = w.ends[e].proxy
        /\ \/ round # Ports /\ en.round = round /\ en.completed = w.ends[e].completed
           \/ round = Ports /\ en.round = {} /\ en.completed = w.ends[e].completed + 1
    <2> HIDE DEF round
    <2>1. CASE round = Ports
      BY <1>2, <2>1 DEF EndRecords
    <2>2. CASE round # Ports
      BY <1>2, <2>2 DEF EndRecords
    <2>3. QED
      BY <2>1, <2>2
  <1> HIDE DEF en
  <1>4. es \in [Ends -> EndRecords] /\ \A x \in Ends : es[x] = IF x = e THEN en ELSE w.ends[x]
    BY <1>3, WorldFields
  <1> HIDE DEF es
  <1>5. v \in Worlds /\ v.ends = es /\ v.bridge = w.bridge /\ v.log = w.log
    BY <1>1, <1>4, WorldFields DEF Worlds
  <1>6. SamePackets(w, v)
    BY <1>3, <1>4, <1>5 DEF SamePackets, Delivered, Queue
  <1>7. JoinedRound(w, v, e, port)
    BY <1>3, <1>4, <1>5 DEF JoinedRound
  <1>8. \A x \in Ends : x # e => SameRound(w, v, x)
    BY <1>4, <1>5 DEF SameRound
  <1>9. QED
    BY <1>5, <1>6, <1>7, <1>8

\* An arrival that is answered has joined; one that is not may have.
LEMMA ArrivedOutcomes ==
    ASSUME NEW w \in Worlds, NEW e \in Ends, NEW port \in Ports, NEW o \in ArrivedAt(w, e, port)
    PROVE  /\ o.world \in Worlds /\ SamePackets(w, o.world)
           /\ o.world.bridge = w.bridge /\ o.world.log.joined = w.log.joined
           /\ \A x \in Ends : x # e => SameRound(w, o.world, x)
           /\ \/ o.ok /\ o.world.log = w.log /\ JoinedRound(w, o.world, e, port)
              \/ ~o.ok /\ o.world = w /\ port \in w.ends[e].round
              \/ /\ ~o.ok /\ o.world.log.faults # 0
                 /\ JoinedRound(w, o.world, e, port) \/ SameRound(w, o.world, e)
  <1> DEFINE v == Arrival(w, e, port)
             round == w.ends[e].round
  <1>1. \/ o \in Faulty(w)
        \/ port \in round /\ o = Failed(w)
        \/ port \notin round /\ (o = Ok(v) \/ o \in Faulty(v))
    BY DEF ArrivedAt, Arrival, Called
  <1>2. port \notin round =>
          /\ v \in Worlds /\ SamePackets(w, v)
          /\ v.bridge = w.bridge /\ v.log = w.log
          /\ JoinedRound(w, v, e, port)
          /\ \A x \in Ends : x # e => SameRound(w, v, x)
    BY ArrivalFields
  <1> HIDE DEF v
  <1>3. CASE o \in Faulty(w)
    <2>1. /\ o.world \in Worlds /\ ~o.ok /\ o.world.ends = w.ends /\ o.world.bridge = w.bridge
          /\ o.world.log.faults # 0 /\ SamePackets(w, o.world)
          /\ o.world.log = [w.log EXCEPT !.faults = w.log.faults + 1]
      BY <1>3, FaultyOutcomes
    <2>2. o.world.log.joined = w.log.joined
      BY <2>1, WorldFields DEF Logs
    <2>3. \A x \in Ends : SameRound(w, o.world, x)
      BY <2>1 DEF SameRound
    <2>4. QED
      BY <2>1, <2>2, <2>3
  <1>4. CASE port \in round /\ o = Failed(w)
    <2>1. ~o.ok /\ o.world = w
      BY <1>4 DEF Failed
    <2>2. QED
      BY <1>4, <2>1 DEF SamePackets, SameRound
  <1>5. CASE port \notin round /\ o = Ok(v)
    <2>1. o.ok /\ o.world = v
      BY <1>5 DEF Ok
    <2>2. QED
      BY <1>2, <1>5, <2>1
  <1>6. CASE port \notin round /\ o \in Faulty(v)
    <2>1. /\ o.world \in Worlds /\ ~o.ok /\ o.world.ends = v.ends /\ o.world.bridge = v.bridge
          /\ o.world.log.faults # 0 /\ SamePackets(v, o.world)
          /\ o.world.log = [v.log EXCEPT !.faults = v.log.faults + 1]
      BY <1>2, <1>6, FaultyOutcomes
    <2>2. o.world.log.joined = v.log.joined
      BY <1>2, <1>6, <2>1, WorldFields DEF Logs
    <2>3. SamePackets(w, o.world)
      BY <1>2, <1>6, <2>1 DEF SamePackets
    <2>4. \A x \in Ends : x # e => SameRound(w, o.world, x)
      BY <1>2, <1>6, <2>1 DEF SameRound
    <2>5. JoinedRound(w, o.world, e, port)
      BY <1>2, <1>6, <2>1 DEF JoinedRound
    <2>6. QED
      BY <1>2, <1>6, <2>1, <2>2, <2>3, <2>4, <2>5
  <1>7. QED
    BY <1>1, <1>3, <1>4, <1>5, <1>6

\* No arrival takes a mark back.
LEMMA ArrivalKeepsMarks ==
    ASSUME NEW w \in Worlds, NEW e \in Ends, NEW port \in Ports, NEW o \in ArrivedAt(w, e, port),
           \A x \in Ends : Marked(w, x)
    PROVE  \A x \in Ends : Marked(o.world, x)
  <1> DEFINE v == o.world
  <1>1. /\ v \in Worlds /\ v.bridge = w.bridge /\ v.log.joined = w.log.joined
        /\ \A x \in Ends : x # e => SameRound(w, v, x)
        /\ JoinedRound(w, v, e, port) \/ SameRound(w, v, e)
    BY ArrivedOutcomes DEF SameRound
  <1> HIDE DEF v
  <1>2. ASSUME NEW x \in Ends, SameRound(w, v, x)
        PROVE  Marked(v, x)
    BY <1>1, <1>2 DEF Marked, SameRound
  <1>3. ASSUME JoinedRound(w, v, e, port)
        PROVE  Marked(v, e)
    <2>1. /\ w.bridge.completed \in Nat /\ w.ends[e].completed \in Nat
          /\ w.ends[e].round \in SUBSET Ports
      BY WorldFields
    <2>2. Marked(w, e)
      OBVIOUS
    <2>3. CASE /\ w.ends[e].round \cup {port} # Ports
               /\ v.ends[e].round = w.ends[e].round \cup {port}
               /\ v.ends[e].completed = w.ends[e].completed
      BY <1>1, <2>2, <2>3 DEF Marked
    <2>4. CASE /\ w.ends[e].round \cup {port} = Ports
               /\ v.ends[e].round = {}
               /\ v.ends[e].completed = w.ends[e].completed + 1
      <3>1. v.ends[e].round # Ports
        BY <2>4 DEF Ports
      <3>2. PICK k \in Nat : k = w.ends[e].completed
        BY <2>1
      <3>3. PICK c \in Nat : c = w.bridge.completed
        BY <2>1
      <3>4. c <= k /\ v.ends[e].completed = k + 1
        BY <2>2, <2>4, <3>2, <3>3 DEF Marked
      <3>5. c <= v.ends[e].completed /\ c + 1 <= v.ends[e].completed
        BY <3>4
      <3>6. QED
        BY <1>1, <2>2, <3>1, <3>3, <3>5 DEF Marked
    <2>5. QED
      BY <1>3, <2>3, <2>4 DEF JoinedRound
  <1>4. QED
    BY <1>1, <1>2, <1>3 DEF v

(***************************************************************************)
(* A rendezvous: both sides have arrived, and each fabric gets the arrival *)
(* of the other side.                                                      *)
(***************************************************************************)
\* The fabric of e has completed the round that is about to be reported,
Ahead(w, e) == w.bridge.completed + 1 <= w.ends[e].completed
\* and it has done nothing else; or it waits for the proxy's arrival.
Closed(w, e) == w.ends[e].round = {} /\ w.ends[e].completed = w.bridge.completed + 1
Waiting(w, e) == w.ends[e].round = {"local"} /\ w.ends[e].completed = w.bridge.completed

LEMMA ProxyClosesRound ==
    ASSUME NEW w \in Worlds, NEW v \in Worlds, NEW e \in Ends, Marked(w, e), e \in w.bridge.arrived,
           v.bridge = w.bridge, JoinedRound(w, v, e, "proxy")
    PROVE  Ahead(v, e) /\ (Waiting(w, e) => Closed(v, e))
  <1>1. PICK c \in Nat : c = w.bridge.completed
    BY WorldFields
  <1>2. PICK k \in Nat : k = w.ends[e].completed
    BY WorldFields
  <1>3. w.ends[e].round \in SUBSET Ports
    BY WorldFields
  <1>4. CASE /\ w.ends[e].round \cup {"proxy"} # Ports
             /\ v.ends[e].round = w.ends[e].round \cup {"proxy"}
             /\ v.ends[e].completed = w.ends[e].completed
    <2>1. "local" \notin w.ends[e].round
      BY <1>3, <1>4 DEF Ports
    <2>2. c + 1 <= k
      BY <1>1, <1>2, <2>1 DEF Marked
    <2>3. QED
      BY <1>1, <1>2, <1>4, <2>1, <2>2 DEF Ahead, Waiting
  <1>5. CASE /\ w.ends[e].round \cup {"proxy"} = Ports
             /\ v.ends[e].round = {}
             /\ v.ends[e].completed = w.ends[e].completed + 1
    <2>1. c <= k
      BY <1>1, <1>2 DEF Marked
    <2>2. c + 1 <= k + 1
      BY <2>1
    <2>3. QED
      BY <1>1, <1>2, <1>5, <2>2 DEF Ahead, Waiting, Closed
  <1>6. QED
    BY <1>4, <1>5 DEF JoinedRound

\* A refused arrival of a proxy is a sign that something went wrong before.
LEMMA RefusedProxyGood ==
    ASSUME NEW w \in Worlds, NEW e \in Ends, NEW o \in ArrivedAt(w, e, "proxy"), ~o.ok,
           \A x \in Ends : Marked(w, x), Relayed(w, 0, 0),
           w.log.faults = 0 => Waiting(w, e)
    PROVE  Good(o)
  <1>1. "proxy" \in Ports
    BY DEF Ports
  <1>2. /\ o.world \in Worlds /\ SamePackets(w, o.world)
        /\ o.world.log.faults # 0 \/ (o.world = w /\ "proxy" \in w.ends[e].round)
    BY <1>1, ArrivedOutcomes
  <1>3. o.world.log.faults # 0
    BY <1>2 DEF Waiting
  <1>4. \A x \in Ends : Marked(o.world, x)
    BY <1>1, ArrivalKeepsMarks
  <1>5. Relayed(o.world, 1, 0)
    BY <1>2, PacketsFrame, WeakerAccounts
  <1>6. QED
    BY <1>2, <1>3, <1>4, <1>5 DEF Good, Met, Exact

\* The bridge reports it.
Reported(w) == [w EXCEPT !.bridge.arrived = {}, !.bridge.completed = @ + 1]

LEMMA ReportedGood ==
    ASSUME NEW w \in Worlds, Relayed(w, 0, 0), \A x \in Ends : Marked(w, x),
           w.bridge.arrived = Ends, \A x \in Ends : Ahead(w, x),
           w.log.faults = 0 => \A x \in Ends : Closed(w, x)
    PROVE  Good(Ok(Reported(w)))
  <1> DEFINE v == Reported(w)
  <1>1. PICK c \in Nat : c = w.bridge.completed
    BY WorldFields
  <1>2. PICK k : k = c + 1 /\ k \in Nat
    OBVIOUS
  <1> DEFINE br == [w.bridge EXCEPT !.arrived = {}, !.completed = k]
  <1>3. v = [w EXCEPT !.bridge = br]
    BY <1>1, <1>2 DEF Reported
  <1>4. /\ br \in BridgeRecords /\ br.arrived = {} /\ br.completed = k
        /\ br.relayed = w.bridge.relayed
    <2>1. w.bridge \in BridgeRecords
      BY WorldFields
    <2>2. QED
      BY <1>2, <2>1 DEF BridgeRecords
  <1> HIDE DEF br
  <1>5. v \in Worlds /\ v.ends = w.ends /\ v.bridge = br /\ v.log = w.log
    BY <1>3, <1>4, WorldFields DEF Worlds
  <1> HIDE DEF v
  <1>6. SamePackets(w, v)
    BY <1>4, <1>5 DEF SamePackets, Delivered, Queue
  <1>7. \A x \in Ends : Marked(v, x)
    <2>1. ASSUME NEW x \in Ends
          PROVE  Marked(v, x)
      <3>1. Marked(w, x) /\ Ahead(w, x) /\ x \in w.bridge.arrived
        OBVIOUS
      <3>2. k <= w.ends[x].completed
        BY <1>1, <1>2, <3>1 DEF Ahead
      <3>3. k <= w.log.joined[x]
        BY <1>1, <1>2, <3>1 DEF Marked
      <3>4. QED
        BY <1>4, <1>5, <3>1, <3>2, <3>3 DEF Marked
    <2>2. QED
      BY <2>1
  <1>8. Exact(v) /\ v.bridge.arrived # Ends
    <2>1. v.bridge.arrived # Ends
      BY <1>4, <1>5 DEF Ends
    <2>2. ASSUME v.log.faults = 0
          PROVE  /\ v.bridge.arrived = {x \in Ends : "local" \in v.ends[x].round}
                 /\ \A x \in Ends : /\ v.ends[x].completed = v.bridge.completed
                                    /\ "proxy" \notin v.ends[x].round
      <3>1. \A x \in Ends : v.ends[x].round = {} /\ v.ends[x].completed = k
        BY <1>1, <1>2, <1>5, <2>2 DEF Closed
      <3>2. QED
        BY <1>4, <1>5, <3>1
    <2>3. QED
      BY <2>1, <2>2 DEF Exact
  <1>9. Met(v) /\ Relayed(v, 0, 0)
    BY <1>6, <1>7, <1>8, PacketsFrame DEF Met
  <1>10. Ok(v).ok /\ Ok(v).world = v
    BY DEF Ok
  <1>11. QED
    BY <1>5, <1>9, <1>10 DEF Good, v

LEMMA RendezvousGood ==
    ASSUME NEW w \in Worlds, Relayed(w, 0, 0), \A x \in Ends : Marked(w, x),
           w.bridge.arrived = Ends, w.log.faults = 0 => \A x \in Ends : Waiting(w, x),
           NEW o \in Rendezvous(w)
    PROVE  Good(o)
  <1>0. "proxy" \in Ports /\ "a" # "b"
    BY DEF Ports
  <1>1. o \in Then(ArrivedAt(w, "a", "proxy"),
                   LAMBDA v : Then(ArrivedAt(v, "b", "proxy"), LAMBDA u : {Ok(Reported(u))}))
    BY DEF Rendezvous, Reported
  <1>2. \/ o \in ArrivedAt(w, "a", "proxy") /\ ~o.ok
        \/ \E x \in ArrivedAt(w, "a", "proxy") :
              x.ok /\ o \in Then(ArrivedAt(x.world, "b", "proxy"), LAMBDA u : {Ok(Reported(u))})
    BY <1>1, Zenon DEF Then
  <1>3. CASE o \in ArrivedAt(w, "a", "proxy") /\ ~o.ok
    BY <1>3, EndsAre, RefusedProxyGood
  <1>4. ASSUME NEW x \in ArrivedAt(w, "a", "proxy"), x.ok,
               o \in Then(ArrivedAt(x.world, "b", "proxy"), LAMBDA u : {Ok(Reported(u))})
        PROVE  Good(o)
    <2>1. PICK v : v = x.world
      OBVIOUS
    <2>2. /\ v \in Worlds /\ SamePackets(w, v) /\ v.bridge = w.bridge
          /\ SameRound(w, v, "b") /\ v.log = w.log /\ JoinedRound(w, v, "a", "proxy")
      BY <1>0, <1>4, <2>1, EndsAre, ArrivedOutcomes
    <2>3. \A y \in Ends : Marked(v, y)
      BY <1>0, <2>1, EndsAre, ArrivalKeepsMarks
    <2>4. Relayed(v, 0, 0)
      BY <2>2, PacketsFrame
    <2>5. Ahead(v, "a") /\ (Waiting(w, "a") => Closed(v, "a"))
      BY <2>2, EndsAre, ProxyClosesRound
    <2>6. v.log.faults = 0 => Closed(v, "a") /\ Waiting(v, "b")
      BY <2>2, <2>5, EndsAre DEF SameRound, Waiting
    <2>7. \/ o \in ArrivedAt(v, "b", "proxy") /\ ~o.ok
          \/ \E y \in ArrivedAt(v, "b", "proxy") : y.ok /\ o \in {Ok(Reported(y.world))}
      BY <1>4, <2>1, Zenon DEF Then
    <2>8. CASE o \in ArrivedAt(v, "b", "proxy") /\ ~o.ok
      BY <2>2, <2>3, <2>4, <2>6, <2>8, EndsAre, RefusedProxyGood
    <2>9. ASSUME NEW y \in ArrivedAt(v, "b", "proxy"), y.ok, o = Ok(Reported(y.world))
          PROVE  Good(o)
      <3>1. PICK u : u = y.world
        OBVIOUS
      <3>2. /\ u \in Worlds /\ SamePackets(v, u) /\ u.bridge = v.bridge
            /\ SameRound(v, u, "a") /\ u.log = v.log /\ JoinedRound(v, u, "b", "proxy")
        BY <1>0, <2>2, <2>9, <3>1, EndsAre, ArrivedOutcomes
      <3>3. \A z \in Ends : Marked(u, z)
        BY <1>0, <2>2, <2>3, <3>1, EndsAre, ArrivalKeepsMarks
      <3>4. Relayed(u, 0, 0)
        BY <2>4, <3>2, PacketsFrame
      <3>5. Ahead(u, "b") /\ (Waiting(v, "b") => Closed(u, "b"))
        BY <2>2, <2>3, <3>2, EndsAre, ProxyClosesRound
      <3>6. Ahead(u, "a") /\ (Closed(v, "a") => Closed(u, "a"))
        BY <2>5, <3>2 DEF SameRound, Ahead, Closed
      <3>7. (\A z \in Ends : Ahead(u, z)) /\ (u.log.faults = 0 => \A z \in Ends : Closed(u, z))
        BY <2>6, <3>2, <3>5, <3>6, EndsAre
      <3>8. u.bridge.arrived = Ends
        BY <2>2, <3>2
      <3>9. QED
        BY <2>9, <3>1, <3>2, <3>3, <3>4, <3>7, <3>8, ReportedGood
    <2>10. QED
      BY <2>7, <2>8, <2>9
  <1>5. QED
    BY <1>2, <1>3, <1>4

(***************************************************************************)
(* A side arrives.                                                         *)
(***************************************************************************)
MarkedBy(w, e) == [w EXCEPT !.bridge.arrived = @ \cup {e}, !.log.joined[e] = @ + 1]

MarkDiffers(w, v, e) ==
    /\ v.ends = w.ends
    /\ v.bridge.arrived = w.bridge.arrived \cup {e}
    /\ v.bridge.completed = w.bridge.completed
    /\ v.log.joined[e] = w.log.joined[e] + 1
    /\ \A x \in Ends : x # e => v.log.joined[x] = w.log.joined[x]
    /\ v.log.faults = w.log.faults

LEMMA MarkFields ==
    ASSUME NEW w \in Worlds, NEW e \in Ends, NEW v, v = MarkedBy(w, e)
    PROVE  v \in Worlds /\ SamePackets(w, v) /\ MarkDiffers(w, v, e)
  <1> DEFINE br == [w.bridge EXCEPT !.arrived = @ \cup {e}]
             jn == [w.log.joined EXCEPT ![e] = @ + 1]
             lg == [w.log EXCEPT !.joined = jn]
  <1>1. v = [w EXCEPT !.bridge = br, !.log = lg]
    BY DEF MarkedBy
  <1>2. /\ br \in BridgeRecords /\ br.arrived = w.bridge.arrived \cup {e}
        /\ br.completed = w.bridge.completed /\ br.relayed = w.bridge.relayed
    <2>1. w.bridge \in BridgeRecords
      BY WorldFields
    <2>2. QED
      BY <2>1 DEF BridgeRecords
  <1>3. /\ jn \in [Ends -> Nat] /\ jn[e] = w.log.joined[e] + 1
        /\ \A x \in Ends : x # e => jn[x] = w.log.joined[x]
    <2>1. w.log.joined \in [Ends -> Nat] /\ w.log.joined[e] + 1 \in Nat
      BY WorldFields
    <2>2. QED
      BY <2>1
  <1> HIDE DEF br, jn
  <1>4. /\ lg \in Logs /\ lg.joined = jn /\ lg.sent = w.log.sent
        /\ lg.delivered = w.log.delivered /\ lg.failed = w.log.failed /\ lg.faults = w.log.faults
    <2>1. w.log \in Logs
      BY WorldFields
    <2>2. QED
      BY <1>3, <2>1 DEF Logs
  <1> HIDE DEF lg
  <1>5. v \in Worlds /\ v.ends = w.ends /\ v.bridge = br /\ v.log = lg
    BY <1>1, <1>2, <1>4, WorldFields DEF Worlds
  <1>6. SamePackets(w, v)
    BY <1>2, <1>4, <1>5 DEF SamePackets, Delivered, Queue
  <1>7. QED
    BY <1>2, <1>3, <1>4, <1>5, <1>6 DEF MarkDiffers

\* The side is marked once its arrival was answered.
LEMMA MarkFollowsArrival ==
    ASSUME NEW w \in Worlds, NEW e \in Ends, NEW v \in Worlds, NEW m, m = MarkedBy(v, e),
           Met(w), \A x \in Ends : Marked(v, x),
           v.bridge = w.bridge, v.log = w.log, JoinedRound(w, v, e, "local"),
           \A x \in Ends : x # e => SameRound(w, v, x)
    PROVE  (\A x \in Ends : Marked(m, x)) /\ Exact(m)
  <1>1. /\ m \in Worlds /\ m.ends = v.ends
        /\ m.bridge.arrived = v.bridge.arrived \cup {e} /\ m.bridge.completed = v.bridge.completed
        /\ m.log.joined[e] = v.log.joined[e] + 1 /\ m.log.faults = v.log.faults
        /\ \A x \in Ends : x # e => m.log.joined[x] = v.log.joined[x]
    <2>1. m \in Worlds /\ MarkDiffers(v, m, e)
      BY MarkFields
    <2>2. QED
      BY <2>1, Zenon DEF MarkDiffers
  <1>2. ASSUME NEW x \in Ends, x # e
        PROVE  Marked(m, x)
    <2>1. Marked(v, x) /\ (x \in m.bridge.arrived => x \in v.bridge.arrived)
      BY <1>1, <1>2
    <2>2. QED
      BY <1>1, <1>2, <2>1 DEF Marked
  <1>3. Marked(m, e)
    <2>1. PICK c \in Nat : c = v.bridge.completed
      BY WorldFields
    <2>2. PICK k \in Nat : k = w.ends[e].completed
      BY WorldFields
    <2>3. PICK j \in Nat : j = v.log.joined[e]
      BY WorldFields
    <2>4. c <= k /\ c <= j
      BY <2>1, <2>2, <2>3 DEF Met, Marked
    <2>5. c <= j + 1 /\ c + 1 <= j + 1 /\ c + 1 <= k + 1
      BY <2>4
    <2>6. "local" \in v.ends[e].round \/ v.bridge.completed + 1 <= v.ends[e].completed
      BY <2>1, <2>2, <2>5 DEF JoinedRound
    <2>7. v.ends[e].round # Ports /\ v.bridge.completed <= v.ends[e].completed
      BY DEF Marked
    <2>8. m.bridge.completed <= m.log.joined[e] /\ m.bridge.completed + 1 <= m.log.joined[e]
      BY <1>1, <2>1, <2>3, <2>5
    <2>9. QED
      BY <1>1, <2>6, <2>7, <2>8 DEF Marked
  <1>4. ASSUME m.log.faults = 0
        PROVE  /\ m.bridge.arrived = {x \in Ends : "local" \in m.ends[x].round}
               /\ \A x \in Ends : /\ m.ends[x].completed = m.bridge.completed
                                  /\ "proxy" \notin m.ends[x].round
    <2>1. /\ w.bridge.arrived = {x \in Ends : "local" \in w.ends[x].round}
          /\ \A x \in Ends : /\ w.ends[x].completed = w.bridge.completed
                             /\ "proxy" \notin w.ends[x].round
      BY <1>1, <1>4 DEF Met, Exact
    <2>2. /\ v.ends[e].round = w.ends[e].round \cup {"local"}
          /\ v.ends[e].completed = w.ends[e].completed
      <3>1. w.ends[e].round \cup {"local"} # Ports
        BY <2>1 DEF Ports
      <3>2. QED
        BY <3>1 DEF JoinedRound
    <2>3. \A x \in Ends : "local" \in m.ends[x].round <=> (x = e \/ "local" \in w.ends[x].round)
      BY <1>1, <2>2 DEF SameRound
    <2>4. m.bridge.arrived = {x \in Ends : "local" \in m.ends[x].round}
      BY <1>1, <2>1, <2>3
    <2>5. \A x \in Ends : /\ m.ends[x].completed = m.bridge.completed
                          /\ "proxy" \notin m.ends[x].round
      BY <1>1, <2>1, <2>2 DEF SameRound
    <2>6. QED
      BY <2>4, <2>5
  <1>5. QED
    BY <1>2, <1>3, <1>4 DEF Exact

LEMMA BarrierGood ==
    ASSUME NEW w \in Worlds, NEW e \in Ends, Relayed(w, 0, 0), Met(w), NEW o \in Barrier(w, e)
    PROVE  Good(o)
  <1>0. "local" \in Ports
    BY DEF Ports
  <1>1. o \in Then(ArrivedAt(w, e, "local"),
                   LAMBDA v : IF MarkedBy(v, e).bridge.arrived = Ends THEN Rendezvous(MarkedBy(v, e))
                              ELSE {Ok(MarkedBy(v, e))})
    BY DEF Barrier, MarkedBy
  <1>2. \/ o \in ArrivedAt(w, e, "local") /\ ~o.ok
        \/ \E x \in ArrivedAt(w, e, "local") :
              x.ok /\ o \in IF MarkedBy(x.world, e).bridge.arrived = Ends
                            THEN Rendezvous(MarkedBy(x.world, e))
                            ELSE {Ok(MarkedBy(x.world, e))}
    BY <1>1, Zenon DEF Then
  <1>3. CASE o \in ArrivedAt(w, e, "local") /\ ~o.ok
    <2>1. /\ o.world \in Worlds /\ SamePackets(w, o.world)
          /\ o.world.log.faults # 0 \/ o.world = w
      BY <1>0, <1>3, ArrivedOutcomes
    <2>2. \A x \in Ends : Marked(o.world, x)
      BY <1>0, <1>3, ArrivalKeepsMarks DEF Met
    <2>3. Relayed(o.world, 1, 0)
      BY <2>1, PacketsFrame, WeakerAccounts
    <2>4. Met(o.world)
      BY <2>1, <2>2 DEF Met, Exact
    <2>5. QED
      BY <1>3, <2>1, <2>3, <2>4 DEF Good
  <1>4. ASSUME NEW x \in ArrivedAt(w, e, "local"), x.ok,
               o \in IF MarkedBy(x.world, e).bridge.arrived = Ends
                     THEN Rendezvous(MarkedBy(x.world, e))
                     ELSE {Ok(MarkedBy(x.world, e))}
        PROVE  Good(o)
    <2>1. PICK v : v = x.world
      OBVIOUS
    <2>2. PICK m : m = MarkedBy(v, e)
      OBVIOUS
    <2>3. /\ v \in Worlds /\ SamePackets(w, v) /\ v.bridge = w.bridge /\ v.log = w.log
          /\ JoinedRound(w, v, e, "local")
          /\ \A y \in Ends : y # e => SameRound(w, v, y)
      BY <1>0, <1>4, <2>1, ArrivedOutcomes
    <2>4. \A y \in Ends : Marked(v, y)
      BY <1>0, <2>1, ArrivalKeepsMarks DEF Met
    <2>5. (\A y \in Ends : Marked(m, y)) /\ Exact(m)
      BY <2>2, <2>3, <2>4, MarkFollowsArrival
    <2>6. m \in Worlds /\ SamePackets(v, m)
      BY <2>2, <2>3, MarkFields
    <2>7. Relayed(m, 0, 0)
      BY <2>3, <2>6, PacketsFrame
    <2>8. CASE m.bridge.arrived = Ends
      <3>1. o \in Rendezvous(m)
        BY <1>4, <2>1, <2>2, <2>8
      <3>2. m.log.faults = 0 => \A y \in Ends : Waiting(m, y)
        <4>1. SUFFICES ASSUME m.log.faults = 0, NEW y \in Ends
                       PROVE  Waiting(m, y)
          OBVIOUS
        <4>2. /\ "local" \in m.ends[y].round /\ "proxy" \notin m.ends[y].round
              /\ m.ends[y].completed = m.bridge.completed
          BY <2>5, <2>8, <4>1 DEF Exact
        <4>3. m.ends[y].round \in SUBSET Ports
          BY <2>6, WorldFields
        <4>4. m.ends[y].round = {"local"}
          BY <4>2, <4>3 DEF Ports
        <4>5. QED
          BY <4>2, <4>4 DEF Waiting
      <3>3. QED
        BY <2>5, <2>6, <2>7, <2>8, <3>1, <3>2, RendezvousGood
    <2>9. CASE m.bridge.arrived # Ends
      <3>1. o = Ok(m)
        BY <1>4, <2>1, <2>2, <2>9
      <3>2. Met(m)
        BY <2>5, <2>9 DEF Met
      <3>3. QED
        BY <2>6, <2>7, <3>1, <3>2, OkGood
    <2>10. QED
      BY <2>8, <2>9
  <1>5. QED
    BY <1>2, <1>3, <1>4

(***************************************************************************)
(* Every step of the bridge and of the endpoints' own programs.            *)
(***************************************************************************)
Sound(w) == w \in Worlds /\ Met(w) /\ Relayed(w, 0, 0)

\* Whatever happened before: packets ascend, each one that is missing has a failed call,
\* and marks and counters agree with the fabrics.
BridgeInv == Sound(World)

\* The state after a call that returns o.
After(o) == [ends |-> o.world.ends, bridge |-> o.world.bridge,
             log |-> IF o.ok THEN o.world.log ELSE [o.world.log EXCEPT !.failed = @ + 1]]

LEMMA AfterSound ==
    ASSUME NEW o, Good(o)
    PROVE  Sound(After(o))
  <1> DEFINE w == o.world
             v == After(o)
  <1>1. w \in Worlds /\ Met(w)
    BY DEF Good
  <1>2. CASE o.ok
    <2>1. v = w
      BY <1>1, <1>2, WorldFields DEF After
    <2>2. QED
      BY <1>2, <2>1 DEF Good, Sound
  <1>3. CASE ~o.ok
    <2>1. PICK f \in Nat : f = w.log.failed
      BY <1>1, WorldFields
    <2>2. PICK g \in Nat : g = f + 1
      BY <2>1
    <2> DEFINE lg == [w.log EXCEPT !.failed = g]
    <2>3. v = [ends |-> w.ends, bridge |-> w.bridge, log |-> lg]
      BY <1>3, <2>1, <2>2 DEF After
    <2>4. /\ lg \in Logs /\ lg.failed = g /\ lg.sent = w.log.sent /\ lg.joined = w.log.joined
          /\ lg.delivered = w.log.delivered /\ lg.faults = w.log.faults
      <3>1. w.log \in Logs
        BY <1>1, WorldFields
      <3>2. QED
        BY <3>1 DEF Logs
    <2> HIDE DEF lg
    <2>5. v \in Worlds /\ v.ends = w.ends /\ v.bridge = w.bridge /\ v.log = lg
      BY <1>1, <2>3, <2>4, WorldFields DEF Worlds
    <2> HIDE DEF v, w
    <2>6. SameBarrier(w, v)
      BY <2>4, <2>5 DEF SameBarrier
    <2>7. \A e \in Ends : /\ Delivered(v, e) = Delivered(w, e) /\ Queue(v, e) = Queue(w, e)
                          /\ v.log.sent[e] = w.log.sent[e]
      BY <2>4, <2>5 DEF Delivered, Queue
    <2>8. Relayed(w, 1, 0)
      BY <1>3 DEF Good, w
    <2>9. Flows(v)
      BY <2>7, <2>8 DEF Relayed, Flows
    <2>10. Accounts(v, 0, 0)
      <3>1. Lost(v, "a") = Lost(w, "a") /\ Lost(v, "b") = Lost(w, "b") /\ Total(v) = Total(w)
        BY <2>7, EndsAre DEF Lost, Total
      <3>2. f + 1 = g + 0
        BY <2>2
      <3>3. w.log.failed + 1 = v.log.failed + 0
        BY <2>1, <2>4, <2>5, <3>2
      <3>4. QED
        BY <2>4, <2>5, <2>8, <3>1, <3>3 DEF Relayed, Accounts
    <2>11. QED
      BY <1>1, <2>5, <2>6, <2>9, <2>10, BarrierFrame DEF Sound, Relayed, v
  <1>4. QED
    BY <1>2, <1>3

LEMMA ReturnSound ==
    ASSUME NEW outcomes, \A o \in outcomes : Good(o), Return(outcomes)
    PROVE  BridgeInv'
  <1>1. PICK o \in outcomes : World' = After(o)
    BY DEF Return, World, After
  <1>2. PICK s : s = After(o)
    OBVIOUS
  <1>3. Sound(s)
    BY <1>2, AfterSound
  <1>4. QED
    BY <1>1, <1>2, <1>3 DEF BridgeInv

LEMMA InitSound == Init => BridgeInv
  <1> SUFFICES ASSUME Init
               PROVE  BridgeInv
    OBVIOUS
  <1> DEFINE w == World
             en == [local |-> <<>>, proxy |-> <<>>, round |-> {}, completed |-> 0]
             es == [e \in Ends |-> en]
             br == [arrived |-> {}, relayed |-> 0, completed |-> 0]
             zero == [e \in Ends |-> 0]
             none == [e \in Ends |-> <<>>]
             lg == [sent |-> zero, joined |-> zero, delivered |-> none,
                    failed |-> 0, faults |-> 0]
  <1>1. w = [ends |-> es, bridge |-> br, log |-> lg]
    BY DEF Init, World
  <1>2. en \in EndRecords
    BY DEF EndRecords, Ports
  <1>3. br \in BridgeRecords
    BY DEF BridgeRecords
  <1>4. zero \in [Ends -> Nat] /\ none \in [Ends -> Seq(Nat)]
    OBVIOUS
  <1>5. \A e \in Ends : zero[e] = 0 /\ none[e] = <<>>
    OBVIOUS
  <1> HIDE DEF zero, none
  <1>6. lg \in Logs
    BY <1>4 DEF Logs
  <1>7. /\ w \in Worlds /\ w.bridge.arrived = {} /\ w.bridge.relayed = 0
        /\ w.bridge.completed = 0 /\ w.log.failed = 0
        /\ \A e \in Ends :
              /\ w.ends[e].round = {} /\ w.ends[e].completed = 0 /\ w.log.joined[e] = 0
              /\ Delivered(w, e) = <<>> /\ Queue(w, e) = <<>> /\ w.log.sent[e] = 0
    BY <1>1, <1>2, <1>3, <1>5, <1>6 DEF Worlds, Delivered, Queue
  <1> HIDE DEF w
  <1>8. Met(w)
    <2>1. \A e \in Ends : Marked(w, e)
      BY <1>7 DEF Marked, Ports
    <2>2. Exact(w) /\ w.bridge.arrived # Ends
      BY <1>7 DEF Exact, Ends
    <2>3. QED
      BY <2>1, <2>2 DEF Met
  <1>9. Relayed(w, 0, 0)
    <2>1. Flows(w)
      BY <1>7 DEF Flows, InFlow, Ascending
    <2>2. /\ Lost(w, "a") = 0 /\ Lost(w, "b") = 0 /\ Total(w) = 0
      BY <1>7, EndsAre DEF Lost, Total
    <2>3. QED
      BY <1>7, <2>1, <2>2 DEF Relayed, Accounts
  <1>10. QED
    BY <1>7, <1>8, <1>9 DEF BridgeInv, Sound, w

\* What the endpoints' programs do at their own tiles concerns the bridge only where a
\* packet is sent to it.
LEMMA LocalSound ==
    ASSUME NEW w \in Worlds, Sound(w), NEW e \in Ends, NEW s \in Seq(Ends \X Nat),
           NEW v, v = [w EXCEPT !.ends = [w.ends EXCEPT ![e].local = s]]
    PROVE  Sound(v)
  <1> DEFINE en == [w.ends[e] EXCEPT !.local = s]
             es == [w.ends EXCEPT ![e] = en]
  <1>1. v = [w EXCEPT !.ends = es]
    OBVIOUS
  <1>2. w.ends[e] \in EndRecords
    BY WorldFields
  <1>3. /\ en \in EndRecords /\ en.proxy = w.ends[e].proxy /\ en.round = w.ends[e].round
        /\ en.completed = w.ends[e].completed
    BY <1>2 DEF EndRecords
  <1> HIDE DEF en
  <1>4. es \in [Ends -> EndRecords] /\ \A x \in Ends : es[x] = IF x = e THEN en ELSE w.ends[x]
    BY <1>3, WorldFields
  <1> HIDE DEF es
  <1>5. v \in Worlds /\ v.ends = es /\ v.bridge = w.bridge /\ v.log = w.log
    BY <1>1, <1>4, WorldFields DEF Worlds
  <1>6. SamePackets(w, v) /\ SameBarrier(w, v)
    BY <1>3, <1>4, <1>5 DEF SamePackets, SameBarrier, Delivered, Queue
  <1>7. QED
    BY <1>5, <1>6, PacketsFrame, BarrierFrame DEF Sound

LEMMA NextSound == BridgeInv /\ [Next]_vars => BridgeInv'
  <1> SUFFICES ASSUME BridgeInv, [Next]_vars
               PROVE  BridgeInv'
    OBVIOUS
  <1>1. PICK w : w = World
    OBVIOUS
  <1>2. /\ Sound(w) /\ w \in Worlds /\ Met(w) /\ Relayed(w, 0, 0)
        /\ w.ends = ends /\ w.bridge = bridge /\ w.log = log
    BY <1>1 DEF BridgeInv, Sound, World
  <1>3. CASE PumpStep
    <2>1. \A o \in Pump(w) : Good(o)
      BY <1>2, PumpGood
    <2>2. Return(Pump(w))
      BY <1>1, <1>3 DEF PumpStep
    <2>3. QED
      BY <2>1, <2>2, ReturnSound
  <1>4. ASSUME NEW e \in Ends, Send(e)
        PROVE  BridgeInv'
    <2> DEFINE outcomes == IF Len(ends[e].proxy) >= Capacity THEN {Failed(w)}
                           ELSE Then(Called(w, Enqueued(w, e)), Pump)
    <2>1. Return(outcomes)
      BY <1>1, <1>4 DEF Send
    <2>2. ASSUME NEW o \in outcomes
          PROVE  Good(o)
      <3>1. CASE o = Failed(w)
        BY <1>2, <3>1, OkGood
      <3>2. CASE o \in Then(Called(w, Enqueued(w, e)), Pump)
        BY <1>2, <3>2, SendGood
      <3>3. QED
        BY <3>1, <3>2
    <2> HIDE DEF outcomes
    <2>3. QED
      BY <2>1, <2>2, ReturnSound
  <1>5. ASSUME NEW e \in Ends, BarrierStep(e)
        PROVE  BridgeInv'
    <2>1. \A o \in Barrier(w, e) : Good(o)
      BY <1>2, BarrierGood
    <2>2. Return(Barrier(w, e))
      BY <1>1, <1>5 DEF BarrierStep
    <2>3. QED
      BY <2>1, <2>2, ReturnSound
  <1>6. ASSUME NEW e \in Ends, LocalReceive(e) \/ LocalSend(e)
        PROVE  BridgeInv'
    <2>1. ends[e].local \in Seq(Ends \X Nat)
      BY <1>2, WorldFields
    <2>2. PICK s \in Seq(Ends \X Nat) : ends' = [ends EXCEPT ![e].local = s]
      <3>1. CASE LocalReceive(e)
        <4>1. Tail(ends[e].local) \in Seq(Ends \X Nat)
          BY <2>1, <3>1 DEF LocalReceive
        <4>2. QED
          BY <3>1, <4>1 DEF LocalReceive
      <3>2. CASE LocalSend(e)
        <4>1. <<e, Foreign>> \in Ends \X Nat
          BY DEF Foreign
        <4>2. Append(ends[e].local, <<e, Foreign>>) \in Seq(Ends \X Nat)
          BY <2>1, <4>1
        <4>3. QED
          BY <3>2, <4>2 DEF LocalSend
      <3>3. QED
        BY <1>6, <3>1, <3>2
    <2>3. bridge' = bridge /\ log' = log
      BY <1>6 DEF LocalReceive, LocalSend
    <2>4. PICK v : v = [w EXCEPT !.ends = [w.ends EXCEPT ![e].local = s]]
      OBVIOUS
    <2>5. World' = v
      BY <1>1, <1>2, <2>2, <2>3, <2>4 DEF World
    <2>6. Sound(v)
      BY <1>2, <2>4, LocalSound
    <2>7. QED
      BY <2>5, <2>6 DEF BridgeInv
  <1>7. ASSUME NEW e \in Ends, ProxySend(e)
        PROVE  BridgeInv'
    <2>1. PICK v : v = Enqueued(w, e)
      OBVIOUS
    <2>2. v \in Worlds /\ SameBarrier(w, v) /\ Relayed(v, 0, 0)
      BY <1>2, <2>1, EnqueuePacket
    <2>3. Sound(v)
      BY <1>2, <2>2, BarrierFrame DEF Sound
    <2>4. v.bridge = bridge
      BY <1>1, <2>1 DEF Enqueued, World
    <2>5. World' = v
      <3>1. ends' = v.ends /\ log' = v.log /\ bridge' = v.bridge
        BY <1>1, <1>7, <2>1, <2>4 DEF ProxySend
      <3>2. v = [ends |-> v.ends, bridge |-> v.bridge, log |-> v.log]
        BY <2>2, WorldFields
      <3>3. QED
        BY <3>1, <3>2 DEF World
    <2>6. QED
      BY <2>3, <2>5 DEF BridgeInv
  <1>8. CASE UNCHANGED vars
    <2>1. World' = w
      BY <1>1, <1>8 DEF World, vars
    <2>2. QED
      BY <1>2, <2>1 DEF BridgeInv
  <1>9. QED
    BY <1>3, <1>4, <1>5, <1>6, <1>7, <1>8 DEF Next

\* Every reachable state of two bridged endpoints, also in which calls have failed or
\* were answered to nobody, satisfies BridgeInv (src/aimu_cluster_bridge.c, all
\* operations).
THEOREM BridgeInductive == Spec => []BridgeInv
  BY InitSound, NextSound, PTL DEF Spec

\* What was delivered, followed by what waits at the proxy, ascends.
LEMMA FlowIncreasing ==
    ASSUME NEW d \in Seq(Nat), NEW q \in Seq(Nat), NEW n \in Nat, InFlow(d, q, n)
    PROVE  Increasing(d \o q)
  <1> DEFINE c == d \o q
  <1>1. /\ Len(d) \in Nat /\ DOMAIN d = 1..Len(d) /\ Len(q) \in Nat /\ DOMAIN q = 1..Len(q)
        /\ DOMAIN c = 1..Len(d) + Len(q)
        /\ \A i \in DOMAIN d : c[i] = d[i]
        /\ \A i \in DOMAIN c : i \notin DOMAIN d => i - Len(d) \in DOMAIN q /\ c[i] = q[i - Len(d)]
    OBVIOUS
  <1> HIDE DEF c
  <1>2. ASSUME NEW i \in DOMAIN c, NEW j \in DOMAIN c, i < j
        PROVE  c[i] < c[j]
    <2>1. CASE j \in DOMAIN d
      <3>1. i \in DOMAIN d
        BY <1>1, <1>2, <2>1
      <3>2. QED
        BY <1>1, <1>2, <2>1, <3>1 DEF InFlow, Ascending
    <2>2. CASE i \in DOMAIN d /\ j \notin DOMAIN d
      BY <1>1, <2>2 DEF InFlow
    <2>3. CASE i \notin DOMAIN d /\ j \notin DOMAIN d
      <3>1. /\ i - Len(d) \in DOMAIN q /\ c[i] = q[i - Len(d)]
            /\ j - Len(d) \in DOMAIN q /\ c[j] = q[j - Len(d)]
        BY <1>1, <2>3
      <3>2. i - Len(d) < j - Len(d)
        BY <1>1, <1>2
      <3>3. QED
        BY <3>1, <3>2 DEF InFlow, Ascending
    <2>4. CASE i \notin DOMAIN d /\ j \in DOMAIN d
      BY <1>1, <1>2, <2>4
    <2>5. QED
      BY <2>1, <2>2, <2>3, <2>4
  <1>3. QED
    BY <1>2 DEF Increasing, c

LEMMA SoundRelay == BridgeInv => RelaySound
  <1> SUFFICES ASSUME BridgeInv
               PROVE  RelaySound
    OBVIOUS
  <1>1. PICK w : w = World
    OBVIOUS
  <1>2. /\ w \in Worlds /\ Relayed(w, 0, 0)
        /\ w.ends = ends /\ w.bridge = bridge /\ w.log = log
    BY <1>1 DEF BridgeInv, Sound, World
  <1>3. \A e \in Ends : Increasing(log.delivered[e] \o ends[e].proxy)
    <2>1. ASSUME NEW e \in Ends
          PROVE  Increasing(log.delivered[e] \o ends[e].proxy)
      <3>1. InFlow(Delivered(w, e), Queue(w, e), w.log.sent[e])
        BY <1>2 DEF Relayed, Flows
      <3>2. Increasing(Delivered(w, e) \o Queue(w, e))
        BY <1>2, <3>1, WorldFields, FlowIncreasing
      <3>3. QED
        BY <1>2, <3>2 DEF Delivered, Queue
    <2>2. QED
      BY <2>1
  <1>4. /\ Missing("a") = Lost(w, "a") /\ Missing("b") = Lost(w, "b")
        /\ Total(w) = Len(log.delivered["a"]) + Len(log.delivered["b"])
    BY <1>2 DEF Missing, Lost, Total, Delivered, Queue
  <1> DEFINE m == Missing("a") + Missing("b")
             t == Len(log.delivered["a"]) + Len(log.delivered["b"])
  <1>5. /\ m \in Int /\ t \in Nat /\ log.failed \in Nat /\ bridge.relayed \in Nat
    <2>1. /\ Lost(w, "a") \in Int /\ Lost(w, "b") \in Int /\ Total(w) \in Nat
          /\ w.log.failed \in Nat /\ w.bridge.relayed \in Nat
      BY <1>2, CountTypes
    <2>2. Missing("a") \in Int /\ Missing("b") \in Int /\ t \in Nat
      BY <1>4, <2>1
    <2>3. m \in Int
      BY <2>2
    <2>4. log.failed \in Nat /\ bridge.relayed \in Nat
      BY <1>2, <2>1
    <2>5. QED
      BY <2>2, <2>3, <2>4
  <1>6. /\ m <= log.failed + 0 /\ bridge.relayed + 0 <= t
        /\ log.faults = 0 => bridge.relayed + 0 = t
    BY <1>2, <1>4 DEF Relayed, Accounts
  <1> HIDE DEF m, t
  <1>7. m <= log.failed /\ bridge.relayed <= t /\ (log.faults = 0 => bridge.relayed = t)
    BY <1>5, <1>6
  <1>8. QED
    BY <1>3, <1>7 DEF RelaySound, m, t

\* The relay (relay_one, att1_aimu_cluster_bridge_send) reorders and repeats no packet and
\* loses none without a failed call, for queues of every size and any number of calls,
\* failures and faults.
THEOREM RelayKeepsOrder == Spec => []RelaySound
  BY BridgeInductive, SoundRelay, PTL

LEMMA SoundMeets == BridgeInv => RendezvousMeets
  <1> SUFFICES ASSUME BridgeInv
               PROVE  RendezvousMeets
    OBVIOUS
  <1>1. PICK w : w = World
    OBVIOUS
  <1>2. /\ Met(w) /\ w.ends = ends /\ w.bridge = bridge /\ w.log = log
    BY <1>1 DEF BridgeInv, Sound, World
  <1>3. \A e \in Ends : bridge.completed <= ends[e].completed /\ bridge.completed <= log.joined[e]
    BY <1>2 DEF Met, Marked
  <1>4. log.faults = 0 =>
          /\ bridge.arrived = {e \in Ends : "local" \in ends[e].round} /\ bridge.arrived # Ends
          /\ \A e \in Ends : ends[e].completed = bridge.completed
    BY <1>2 DEF Met, Exact
  <1>5. QED
    BY <1>3, <1>4 DEF RendezvousMeets

\* A rendezvous that att1_aimu_cluster_bridge_barrier reports has completed a round of both
\* fabrics and used an arrival of both sides, also after failures; the marks of the bridge
\* are those of the fabrics as long as no answer of an endpoint was lost.
THEOREM RendezvousIsReal == Spec => []RendezvousMeets
  BY BridgeInductive, SoundMeets, PTL
=============================================================================
