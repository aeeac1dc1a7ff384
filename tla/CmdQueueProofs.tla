--------------------------- MODULE CmdQueueProofs ---------------------------
(***************************************************************************)
(* The command queue keeps its commands and completions in order, counts   *)
(* every command, and implements the channel of CmdChannel, for every      *)
(* depth of its rings and every width of their indices.                    *)
(***************************************************************************)
EXTENDS CmdQueue, TLAPS

(***************************************************************************)
(* Rings: n entries from index a on in a ring of d slots, seen as a        *)
(* sequence, when an entry is put behind the last or taken at the first.   *)
(* Indices may run freely and are reduced at each use.  First, arithmetic  *)
(* of indices.                                                             *)
(***************************************************************************)

\* Division with a remainder, for negative dividends too.
LEMMA DivModInt ==
    ASSUME NEW x \in Int, NEW d \in Nat \ {0}
    PROVE  /\ x \div d \in Int
           /\ x % d \in 0..d - 1
           /\ x = (x \div d) * d + (x % d)
  BY SMT

\* The remainder is the only one.
LEMMA ModUnique ==
    ASSUME NEW d \in Nat \ {0}, NEW q \in Int, NEW r \in 0..d - 1
    PROVE  (q * d + r) % d = r
  BY SMT

\* Whole turns of the ring do not change the slot.
LEMMA ModTurns ==
    ASSUME NEW d \in Nat \ {0}, NEW q \in Int, NEW x \in Int
    PROVE  (q * d + x) % d = x % d
  <1> DEFINE c == x \div d
             r == x % d
  <1>1. c \in Int /\ r \in 0..d - 1 /\ x = c * d + r
    BY DivModInt
  <1> HIDE DEF c, r
  <1>2. q * d + x = (q + c) * d + r /\ q + c \in Int
    BY <1>1
  <1>3. ((q + c) * d + r) % d = r
    BY <1>1, <1>2, ModUnique
  <1>4. QED
    BY <1>2, <1>3 DEF r

\* The slot a distance away depends only on the slot.
LEMMA ModShift ==
    ASSUME NEW d \in Nat \ {0}, NEW x \in Int, NEW y \in Int, NEW c \in Int, x % d = y % d
    PROVE  (x + c) % d = (y + c) % d
  <1> DEFINE qx == x \div d
             qy == y \div d
             r == x % d
  <1>1. /\ qx \in Int /\ qy \in Int /\ r \in 0..d - 1
        /\ x = qx * d + r /\ y = qy * d + r
    BY DivModInt
  <1> HIDE DEF qx, qy, r
  <1>2. x + c = qx * d + (r + c) /\ y + c = qy * d + (r + c) /\ r + c \in Int
    BY <1>1
  <1>3. /\ (qx * d + (r + c)) % d = (r + c) % d
        /\ (qy * d + (r + c)) % d = (r + c) % d
    BY <1>1, <1>2, ModTurns
  <1>4. QED
    BY <1>2, <1>3

LEMMA ModSmall ==
    ASSUME NEW d \in Nat \ {0}, NEW x \in 0..d - 1
    PROVE  x % d = x
  BY SMT

\* Slots less than a turn apart are different.
LEMMA ModApart ==
    ASSUME NEW d \in Nat \ {0}, NEW a \in Int, NEW i \in Int, NEW j \in Int,
           i < j, j - i < d
    PROVE  (a + i) % d # (a + j) % d
  <1> SUFFICES ASSUME (a + i) % d = (a + j) % d
               PROVE  FALSE
    OBVIOUS
  <1> DEFINE x == a + i
             y == a + j
             c == 0 - (a + i)
  <1>1. x \in Int /\ y \in Int /\ c \in Int /\ x % d = y % d
    OBVIOUS
  <1>2. x + c = 0 /\ y + c = j - i
    OBVIOUS
  <1> HIDE DEF x, y, c
  <1>3. (x + c) % d = (y + c) % d
    BY <1>1, ModShift, Zenon
  <1>4. 0 % d = (j - i) % d
    BY <1>2, <1>3
  <1>5. 0 \in 0..d - 1 /\ j - i \in 0..d - 1
    OBVIOUS
  <1>6. 0 = j - i
    BY <1>4, <1>5, ModSmall
  <1>7. QED
    BY <1>6

\* An index that wraps with its type keeps its slot, when whole rings fit in it.
LEMMA IndexWraps ==
    ASSUME NEW d \in Nat \ {0}, NEW R \in Nat \ {0}, R % d = 0, NEW x \in 0..R - 1
    PROVE  /\ (x + 1) % R \in 0..R - 1
           /\ ((x + 1) % R) % d = (x + 1) % d
  <1>1. CASE x + 1 = R
    <2>1. (x + 1) % R = 0
      BY <1>1
    <2>2. 0 % d = 0
      BY ModSmall
    <2>3. QED
      BY <1>1, <2>1, <2>2
  <1>2. CASE x + 1 < R
    BY <1>2, ModSmall
  <1>3. QED
    BY <1>1, <1>2

(***************************************************************************)
(* The entries between two indices.                                        *)
(***************************************************************************)
Used(head, tail, d) == (tail - head) % d

\* The tail is as many slots behind the head as there are entries.
LEMMA UsedRange ==
    ASSUME NEW d \in Nat \ {0}, NEW h \in Int, NEW t \in Int
    PROVE  /\ Used(h, t, d) \in 0..d - 1
           /\ t % d = (h + Used(h, t, d)) % d
  <1> DEFINE u == Used(h, t, d)
  <1>1. u \in 0..d - 1 /\ u = (t - h) % d
    BY DivModInt DEF Used
  <1>2. u % d = u
    BY <1>1, ModSmall
  <1> DEFINE x == t - h
  <1>3. x \in Int /\ x + h = t /\ x % d = u % d
    BY <1>1, <1>2
  <1> HIDE DEF u, x
  <1>4. u \in Int /\ u + h = h + u
    BY <1>1
  <1>5. (x + h) % d = (u + h) % d
    BY <1>3, <1>4, ModShift
  <1>6. QED
    BY <1>1, <1>3, <1>4, <1>5 DEF u

LEMMA UsedAfterPush ==
    ASSUME NEW d \in Nat \ {0}, NEW h \in Int, NEW t \in Int, NEW t2 \in Int,
           t2 % d = (t + 1) % d, Used(h, t, d) + 1 < d
    PROVE  Used(h, t2, d) = Used(h, t, d) + 1
  <1> DEFINE u == Used(h, t, d)
  <1>1. u \in 0..d - 1 /\ u = (t - h) % d
    BY DivModInt DEF Used
  <1> DEFINE x == t - h
             y == t + 1
             c == 0 - h
  <1>2. /\ x \in Int /\ y \in Int /\ c \in Int /\ u \in Int
        /\ t2 % d = y % d /\ t2 + c = t2 - h /\ y + c = x + 1
        /\ u % d = x % d
    <2>1. u % d = u
      BY <1>1, ModSmall
    <2>2. QED
      BY <1>1, <2>1
  <1>3. u + 1 \in 0..d - 1
    BY <1>1
  <1>4. (u + 1) % d = u + 1
    BY <1>3, ModSmall
  <1> HIDE DEF u, x, y, c
  <1>5. (t2 + c) % d = (y + c) % d
    <2>1. y \in Int /\ c \in Int /\ t2 % d = y % d
      BY <1>2
    <2>2. QED
      BY <2>1, ModShift, Zenon
  <1>6. (u + 1) % d = (x + 1) % d
    <2>1. 1 \in Int /\ u \in Int /\ x \in Int /\ u % d = x % d
      BY <1>2
    <2>2. QED
      BY <2>1, ModShift, Zenon
  <1>7. QED
    BY <1>2, <1>4, <1>5, <1>6 DEF Used, u

LEMMA UsedAfterPop ==
    ASSUME NEW d \in Nat \ {0}, NEW h \in Int, NEW t \in Int, NEW h2 \in Int,
           h2 % d = (h + 1) % d, Used(h, t, d) # 0
    PROVE  Used(h2, t, d) = Used(h, t, d) - 1
  <1> DEFINE u == Used(h, t, d)
             w == Used(h2, t, d)
  <1>1. u \in 0..d - 1 /\ w \in 0..d - 1 /\ u # 0
    BY UsedRange
  <1>2. t % d = (h + u) % d /\ t % d = (h2 + w) % d
    BY UsedRange
  <1> HIDE DEF u, w
  <1> DEFINE y == h + 1
             v == w + 1
  <1>3. /\ y \in Int /\ u \in Int /\ v \in Int /\ w \in Int
        /\ y + w = h + v /\ h2 % d = y % d
        /\ v - u < d /\ u - v < d
    BY <1>1
  <1>4. w = v - 1
    BY <1>1
  <1> HIDE DEF y, v
  <1>5. (h2 + w) % d = (y + w) % d
    <2>1. y \in Int /\ w \in Int /\ h2 % d = y % d
      BY <1>3
    <2>2. QED
      BY <2>1, ModShift, Zenon
  <1>6. (h + u) % d = (h + v) % d
    BY <1>2, <1>3, <1>5
  <1>7. ~ (u < v) /\ ~ (v < u)
    BY <1>3, <1>6, ModApart
  <1>8. QED
    BY <1>3, <1>4, <1>7 DEF u, w

(***************************************************************************)
(* The entries as a sequence.                                              *)
(***************************************************************************)
Entries(ring, a, n, d) == [k \in 1..n |-> ring[(a + k - 1) % d]]

LEMMA EntriesSeq ==
    ASSUME NEW ring, NEW a, NEW n \in Nat, NEW d
    PROVE  /\ DOMAIN Entries(ring, a, n, d) = 1..n
           /\ Len(Entries(ring, a, n, d)) = n
           /\ \A S : (\A k \in 1..n : Entries(ring, a, n, d)[k] \in S)
                        => Entries(ring, a, n, d) \in Seq(S)
  BY DEF Entries

\* Writing behind the last entry keeps the others, and puts one behind them.
LEMMA EntriesPush ==
    ASSUME NEW d \in Nat \ {0}, NEW a \in Int, NEW n \in Nat, n < d,
           NEW ring, NEW ring2,
           \A i \in 0..d - 1 : i # (a + n) % d => ring2[i] = ring[i]
    PROVE  \A k \in 1..n : Entries(ring2, a, n + 1, d)[k] = Entries(ring, a, n, d)[k]
  <1> TAKE k \in 1..n
  <1>1. (a + k - 1) % d # (a + n) % d
    <2> DEFINE i == k - 1
    <2>1. i \in Int /\ i < n /\ n - i < d /\ a + k - 1 = a + i
      OBVIOUS
    <2> HIDE DEF i
    <2>2. n \in Int
      OBVIOUS
    <2>3. (a + i) % d # (a + n) % d
      BY <2>1, <2>2, ModApart, Zenon
    <2>4. QED
      BY <2>1, <2>3
  <1>2. (a + k - 1) % d \in 0..d - 1
    <2>1. a + k - 1 \in Int
      OBVIOUS
    <2>2. QED
      BY <2>1, DivModInt
  <1>3. k \in 1..n + 1
    OBVIOUS
  <1>4. QED
    BY <1>1, <1>2, <1>3 DEF Entries

LEMMA EntriesLast ==
    ASSUME NEW d, NEW a \in Int, NEW n \in Nat, NEW ring
    PROVE  Entries(ring, a, n + 1, d)[n + 1] = ring[(a + n) % d]
  <1>1. n + 1 \in 1..n + 1 /\ a + (n + 1) - 1 = a + n
    OBVIOUS
  <1>2. QED
    BY <1>1 DEF Entries

\* Advancing the first index takes the first entry away.
LEMMA EntriesPop ==
    ASSUME NEW d \in Nat \ {0}, NEW a \in Int, NEW b \in Int, b % d = (a + 1) % d,
           NEW n \in Nat \ {0}, NEW ring
    PROVE  \A k \in 1..n - 1 : Entries(ring, b, n - 1, d)[k] = Entries(ring, a, n, d)[k + 1]
  <1> TAKE k \in 1..n - 1
  <1> DEFINE y == a + 1
             c == k - 1
             m == k + 1
  <1>1. /\ m \in 1..n /\ c \in Int /\ y \in Int /\ b % d = y % d
        /\ b + k - 1 = b + c /\ a + m - 1 = y + c
    OBVIOUS
  <1> HIDE DEF y, c, m
  <1>2. (b + c) % d = (y + c) % d
    BY <1>1, ModShift
  <1>3. Entries(ring, b, n - 1, d)[k] = Entries(ring, a, n, d)[m]
    BY <1>1, <1>2 DEF Entries
  <1>4. QED
    BY <1>3 DEF m

\* A sequence that another one continues by one element.
LEMMA IsAppend ==
    ASSUME NEW S, NEW s \in Seq(S), NEW t \in Seq(S), NEW e,
           Len(t) = Len(s) + 1, t[Len(s) + 1] = e,
           \A k \in 1..Len(s) : t[k] = s[k]
    PROVE  t = Append(s, e)
  <1> DEFINE n == Len(s)
  <1>1. n \in Nat /\ DOMAIN s = 1..n /\ DOMAIN t = 1..n + 1
    OBVIOUS
  <1>2. e \in S
    BY <1>1
  <1>3. /\ Append(s, e) \in Seq(S) /\ DOMAIN Append(s, e) = 1..n + 1
        /\ Append(s, e)[n + 1] = e
        /\ \A k \in 1..n : Append(s, e)[k] = s[k]
    BY <1>1, <1>2
  <1>4. \A k \in 1..n + 1 : k \in 1..n \/ k = n + 1
    BY <1>1
  <1>5. \A k \in 1..n + 1 : t[k] = Append(s, e)[k]
    BY <1>3, <1>4
  <1>6. QED
    BY <1>1, <1>3, <1>5

\* A sequence that another one precedes by one element.
LEMMA IsTail ==
    ASSUME NEW S, NEW s \in Seq(S), NEW t \in Seq(S),
           Len(s) # 0, Len(t) = Len(s) - 1,
           \A k \in 1..Len(s) - 1 : t[k] = s[k + 1]
    PROVE  s # <<>> /\ Head(s) = s[1] /\ t = Tail(s)
  <1> DEFINE n == Len(s)
  <1>1. n \in Nat /\ n # 0 /\ DOMAIN t = 1..n - 1
    OBVIOUS
  <1>2. /\ s # <<>> /\ Head(s) = s[1]
        /\ Tail(s) \in Seq(S) /\ DOMAIN Tail(s) = 1..n - 1
        /\ \A k \in 1..n - 1 : Tail(s)[k] = s[k + 1]
    BY <1>1
  <1>3. QED
    BY <1>1, <1>2

(***************************************************************************)
(* The rings as sequences.                                                 *)
(***************************************************************************)
RingsOK ==
    /\ cmdRing \in [CmdSlots -> Commands \cup {NoEntry}]
    /\ compRing \in [CompSlots -> Completions \cup {NoEntry}]
    /\ cmdHead \in Indexes /\ cmdTail \in Indexes
    /\ compHead \in Indexes /\ compTail \in Indexes

LEMMA DepthTypes ==
    /\ CmdDepth \in Nat \ {0} /\ CompDepth \in Nat \ {0} /\ IndexRange \in Nat \ {0}
    /\ Indexes \subseteq Int
  BY CmdqConfigValid DEF Indexes

\* How many entries are waiting, and where they are.
LEMMA PendingTypes ==
    ASSUME RingsOK
    PROVE  /\ CmdUsed \in 0..CmdDepth - 1 /\ CompUsed \in 0..CompDepth - 1
           /\ DOMAIN PendingCommands = 1..CmdUsed
           /\ DOMAIN PendingCompletions = 1..CompUsed
           /\ PendingCommands = Entries(cmdRing, cmdHead, CmdUsed, CmdDepth)
           /\ PendingCompletions = Entries(compRing, compHead, CompUsed, CompDepth)
  <1>1. CmdUsed = Used(cmdHead, cmdTail, CmdDepth) /\ CompUsed = Used(compHead, compTail, CompDepth)
    BY DEF CmdUsed, CompUsed, Used
  <1>2. CmdUsed \in 0..CmdDepth - 1 /\ CompUsed \in 0..CompDepth - 1
    BY <1>1, UsedRange, DepthTypes DEF RingsOK
  <1>3. QED
    BY <1>2 DEF PendingCommands, PendingCompletions, Entries

\* The oldest entry is at the head.
LEMMA OldestCommand ==
    ASSUME RingsOK, CmdUsed # 0
    PROVE  NextCommand = PendingCommands[1] /\ 1 \in 1..CmdUsed
  <1>1. CmdUsed \in Nat /\ 1 \in 1..CmdUsed
    BY PendingTypes, DepthTypes
  <1>2. cmdHead + 1 - 1 = cmdHead
    BY DepthTypes DEF RingsOK
  <1>3. QED
    BY <1>1, <1>2 DEF PendingCommands, NextCommand

LEMMA OldestCompletion ==
    ASSUME RingsOK, CompUsed # 0
    PROVE  compRing[compHead % CompDepth] = PendingCompletions[1] /\ 1 \in 1..CompUsed
  <1>1. CompUsed \in Nat /\ 1 \in 1..CompUsed
    BY PendingTypes, DepthTypes
  <1>2. compHead + 1 - 1 = compHead
    BY DepthTypes DEF RingsOK
  <1>3. QED
    BY <1>1, <1>2 DEF PendingCompletions

\* An index advances in its type, and in the ring.
LEMMA AdvancedIndex ==
    ASSUME NEW x \in Indexes
    PROVE  /\ Advanced(x) \in Indexes
           /\ Advanced(x) % CmdDepth = (x + 1) % CmdDepth
           /\ Advanced(x) % CompDepth = (x + 1) % CompDepth
  BY IndexWraps, CmdqConfigValid DEF Indexes, Advanced

\* A command put behind the last one.
LEMMA CommandPushed ==
    ASSUME RingsOK, CmdUsed + 1 < CmdDepth, NEW e \in Commands,
           cmdRing' = [cmdRing EXCEPT ![cmdTail % CmdDepth] = e],
           cmdTail' = Advanced(cmdTail), cmdHead' = cmdHead
    PROVE  /\ cmdRing' \in [CmdSlots -> Commands \cup {NoEntry}]
           /\ cmdHead' \in Indexes /\ cmdTail' \in Indexes
           /\ CmdUsed' = CmdUsed + 1
           /\ DOMAIN PendingCommands' = 1..CmdUsed + 1
           /\ \A k \in 1..CmdUsed : PendingCommands'[k] = PendingCommands[k]
           /\ PendingCommands'[CmdUsed + 1] = e
  <1> DEFINE n == CmdUsed
             slot == cmdTail % CmdDepth
  <1>1. cmdHead \in Int /\ cmdTail \in Int /\ cmdTail' \in Int /\ cmdTail' \in Indexes
    BY DepthTypes, AdvancedIndex DEF RingsOK
  <1>2. n = Used(cmdHead, cmdTail, CmdDepth) /\ CmdUsed' = Used(cmdHead, cmdTail', CmdDepth)
    BY DEF CmdUsed, Used
  <1>3. CmdUsed' = n + 1
    <2>1. cmdTail' % CmdDepth = (cmdTail + 1) % CmdDepth
      BY AdvancedIndex DEF RingsOK
    <2>2. QED
      BY <1>1, <1>2, <2>1, UsedAfterPush, DepthTypes
  <1>4. slot = (cmdHead + n) % CmdDepth /\ n \in 0..CmdDepth - 1
    BY <1>1, <1>2, UsedRange, DepthTypes
  <1>5. slot \in CmdSlots
    BY <1>1, DivModInt, DepthTypes DEF CmdSlots
  <1>6. cmdRing' \in [CmdSlots -> Commands \cup {NoEntry}]
    BY <1>5 DEF RingsOK
  <1> HIDE DEF n, slot
  <1>7. DOMAIN cmdRing = 0..CmdDepth - 1 /\ n \in Nat /\ n < CmdDepth
    BY <1>4, DepthTypes DEF RingsOK, CmdSlots
  <1>8. PendingCommands = Entries(cmdRing, cmdHead, n, CmdDepth)
    BY DEF PendingCommands, Entries, n
  <1> DEFINE ring2 == cmdRing'
  <1>9. PendingCommands' = Entries(ring2, cmdHead, n + 1, CmdDepth)
    BY <1>3 DEF PendingCommands, Entries
  <1>10. /\ \A k \in 1..n : PendingCommands'[k] = PendingCommands[k]
         /\ PendingCommands'[n + 1] = e
    <2>1. CmdDepth \in Nat \ {0} /\ cmdHead \in Int /\ n \in Nat /\ n < CmdDepth
      BY <1>1, <1>7, DepthTypes
    <2>2. /\ ring2[(cmdHead + n) % CmdDepth] = e
          /\ \A i \in 0..CmdDepth - 1 : i # (cmdHead + n) % CmdDepth => ring2[i] = cmdRing[i]
      BY <1>4, <1>5, <1>7 DEF CmdSlots, CompSlots, slot
    <2> HIDE DEF ring2
    <2>3. \A k \in 1..n : Entries(ring2, cmdHead, n + 1, CmdDepth)[k]
                              = Entries(cmdRing, cmdHead, n, CmdDepth)[k]
      BY <2>1, <2>2, EntriesPush
    <2>4. Entries(ring2, cmdHead, n + 1, CmdDepth)[n + 1] = ring2[(cmdHead + n) % CmdDepth]
      BY <2>1, EntriesLast, Zenon
    <2>5. QED
      BY <1>8, <1>9, <2>2, <2>3, <2>4
  <1>11. DOMAIN PendingCommands' = 1..n + 1
    BY <1>9 DEF Entries
  <1>12. QED
    BY <1>1, <1>3, <1>6, <1>10, <1>11 DEF n, RingsOK

\* The first command taken.
LEMMA CommandTaken ==
    ASSUME RingsOK, CmdUsed # 0, cmdHead' = Advanced(cmdHead), cmdRing' = cmdRing,
           cmdTail' = cmdTail
    PROVE  /\ cmdHead' \in Indexes
           /\ CmdUsed' = CmdUsed - 1
           /\ DOMAIN PendingCommands' = 1..CmdUsed - 1
           /\ \A k \in 1..CmdUsed - 1 : PendingCommands'[k] = PendingCommands[k + 1]
  <1> DEFINE n == CmdUsed
  <1>1. cmdHead \in Int /\ cmdTail \in Int /\ cmdHead' \in Int /\ cmdHead' \in Indexes
    BY DepthTypes, AdvancedIndex DEF RingsOK
  <1>2. n = Used(cmdHead, cmdTail, CmdDepth) /\ CmdUsed' = Used(cmdHead', cmdTail, CmdDepth)
    BY DEF CmdUsed, Used
  <1>3. cmdHead' % CmdDepth = (cmdHead + 1) % CmdDepth
    BY AdvancedIndex DEF RingsOK
  <1>4. CmdUsed' = n - 1
    BY <1>1, <1>2, <1>3, UsedAfterPop, DepthTypes
  <1>5. n \in Nat \ {0}
    BY PendingTypes, DepthTypes
  <1> HIDE DEF n
  <1>6. PendingCommands = Entries(cmdRing, cmdHead, n, CmdDepth)
    BY DEF PendingCommands, Entries, n
  <1>7. PendingCommands' = Entries(cmdRing, cmdHead', n - 1, CmdDepth)
    BY <1>4 DEF PendingCommands, Entries
  <1>8. \A k \in 1..n - 1 : PendingCommands'[k] = PendingCommands[k + 1]
    BY <1>1, <1>3, <1>5, <1>6, <1>7, EntriesPop, DepthTypes
  <1>9. DOMAIN PendingCommands' = 1..n - 1
    BY <1>7 DEF Entries
  <1>10. QED
    BY <1>1, <1>4, <1>8, <1>9 DEF n

\* A completion put behind the last one.
LEMMA CompletionPushed ==
    ASSUME RingsOK, CompUsed + 1 < CompDepth, NEW e \in Completions,
           compRing' = [compRing EXCEPT ![compTail % CompDepth] = e],
           compTail' = Advanced(compTail), compHead' = compHead
    PROVE  /\ compRing' \in [CompSlots -> Completions \cup {NoEntry}]
           /\ compHead' \in Indexes /\ compTail' \in Indexes
           /\ CompUsed' = CompUsed + 1
           /\ DOMAIN PendingCompletions' = 1..CompUsed + 1
           /\ \A k \in 1..CompUsed : PendingCompletions'[k] = PendingCompletions[k]
           /\ PendingCompletions'[CompUsed + 1] = e
  <1> DEFINE n == CompUsed
             slot == compTail % CompDepth
  <1>1. compHead \in Int /\ compTail \in Int /\ compTail' \in Int /\ compTail' \in Indexes
    BY DepthTypes, AdvancedIndex DEF RingsOK
  <1>2. n = Used(compHead, compTail, CompDepth) /\ CompUsed' = Used(compHead, compTail', CompDepth)
    BY DEF CompUsed, Used
  <1>3. CompUsed' = n + 1
    <2>1. compTail' % CompDepth = (compTail + 1) % CompDepth
      BY AdvancedIndex DEF RingsOK
    <2>2. QED
      BY <1>1, <1>2, <2>1, UsedAfterPush, DepthTypes
  <1>4. slot = (compHead + n) % CompDepth /\ n \in 0..CompDepth - 1
    BY <1>1, <1>2, UsedRange, DepthTypes
  <1>5. slot \in CompSlots
    BY <1>1, DivModInt, DepthTypes DEF CompSlots
  <1>6. compRing' \in [CompSlots -> Completions \cup {NoEntry}]
    BY <1>5 DEF RingsOK
  <1> HIDE DEF n, slot
  <1>7. DOMAIN compRing = 0..CompDepth - 1 /\ n \in Nat /\ n < CompDepth
    BY <1>4, DepthTypes DEF RingsOK, CompSlots
  <1>8. PendingCompletions = Entries(compRing, compHead, n, CompDepth)
    BY DEF PendingCompletions, Entries, n
  <1> DEFINE ring2 == compRing'
  <1>9. PendingCompletions' = Entries(ring2, compHead, n + 1, CompDepth)
    BY <1>3 DEF PendingCompletions, Entries
  <1>10. /\ \A k \in 1..n : PendingCompletions'[k] = PendingCompletions[k]
         /\ PendingCompletions'[n + 1] = e
    <2>1. CompDepth \in Nat \ {0} /\ compHead \in Int /\ n \in Nat /\ n < CompDepth
      BY <1>1, <1>7, DepthTypes
    <2>2. /\ ring2[(compHead + n) % CompDepth] = e
          /\ \A i \in 0..CompDepth - 1 : i # (compHead + n) % CompDepth => ring2[i] = compRing[i]
      BY <1>4, <1>5, <1>7 DEF CmdSlots, CompSlots, slot
    <2> HIDE DEF ring2
    <2>3. \A k \in 1..n : Entries(ring2, compHead, n + 1, CompDepth)[k]
                              = Entries(compRing, compHead, n, CompDepth)[k]
      BY <2>1, <2>2, EntriesPush
    <2>4. Entries(ring2, compHead, n + 1, CompDepth)[n + 1] = ring2[(compHead + n) % CompDepth]
      BY <2>1, EntriesLast, Zenon
    <2>5. QED
      BY <1>8, <1>9, <2>2, <2>3, <2>4
  <1>11. DOMAIN PendingCompletions' = 1..n + 1
    BY <1>9 DEF Entries
  <1>12. QED
    BY <1>1, <1>3, <1>6, <1>10, <1>11 DEF n, RingsOK

\* The first completion taken.
LEMMA CompletionTaken ==
    ASSUME RingsOK, CompUsed # 0, compHead' = Advanced(compHead), compRing' = compRing,
           compTail' = compTail
    PROVE  /\ compHead' \in Indexes
           /\ CompUsed' = CompUsed - 1
           /\ DOMAIN PendingCompletions' = 1..CompUsed - 1
           /\ \A k \in 1..CompUsed - 1 : PendingCompletions'[k] = PendingCompletions[k + 1]
  <1> DEFINE n == CompUsed
  <1>1. compHead \in Int /\ compTail \in Int /\ compHead' \in Int /\ compHead' \in Indexes
    BY DepthTypes, AdvancedIndex DEF RingsOK
  <1>2. n = Used(compHead, compTail, CompDepth) /\ CompUsed' = Used(compHead', compTail, CompDepth)
    BY DEF CompUsed, Used
  <1>3. compHead' % CompDepth = (compHead + 1) % CompDepth
    BY AdvancedIndex DEF RingsOK
  <1>4. CompUsed' = n - 1
    BY <1>1, <1>2, <1>3, UsedAfterPop, DepthTypes
  <1>5. n \in Nat \ {0}
    BY PendingTypes, DepthTypes
  <1> HIDE DEF n
  <1>6. PendingCompletions = Entries(compRing, compHead, n, CompDepth)
    BY DEF PendingCompletions, Entries, n
  <1>7. PendingCompletions' = Entries(compRing, compHead', n - 1, CompDepth)
    BY <1>4 DEF PendingCompletions, Entries
  <1>8. \A k \in 1..n - 1 : PendingCompletions'[k] = PendingCompletions[k + 1]
    BY <1>1, <1>3, <1>5, <1>6, <1>7, EntriesPop, DepthTypes
  <1>9. DOMAIN PendingCompletions' = 1..n - 1
    BY <1>7 DEF Entries
  <1>10. QED
    BY <1>1, <1>4, <1>8, <1>9 DEF n

\* Nothing was put or taken.
LEMMA PendingUnchanged ==
    /\ UNCHANGED <<cmdRing, cmdHead, cmdTail>> =>
          CmdUsed' = CmdUsed /\ PendingCommands' = PendingCommands
    /\ UNCHANGED <<compRing, compHead, compTail>> =>
          CompUsed' = CompUsed /\ PendingCompletions' = PendingCompletions
  <1>1. UNCHANGED <<cmdRing, cmdHead, cmdTail>> => CmdUsed' = CmdUsed
    BY DEF CmdUsed
  <1>2. UNCHANGED <<compRing, compHead, compTail>> => CompUsed' = CompUsed
    BY DEF CompUsed
  <1>3. QED
    BY <1>1, <1>2 DEF PendingCommands, PendingCompletions

(***************************************************************************)
(* The inductive invariant.  The slots in use hold commands and            *)
(* completions, which the types alone do not say, and every identifier in  *)
(* them is below the next one: what makes a new command younger than all.  *)
(***************************************************************************)
CommandsKnown ==
    \A k \in 1..CmdUsed : PendingCommands[k] \in Commands /\ PendingCommands[k].id < nextId

CompletionsKnown ==
    /\ \A k \in 1..CompUsed :
          PendingCompletions[k] \in Completions /\ PendingCompletions[k].id < nextId
    /\ lastRead # NoEntry => lastRead.id < nextId

ControlOK ==
    /\ nextId \in Nat \ {0}
    /\ hooked \in BOOLEAN /\ draining \in BOOLEAN
    /\ stats \in Stats
    /\ lastRead \in Completions \cup {NoEntry}

CmdqInv == CmdqTypeOK /\ CommandsKnown /\ CompletionsKnown

LEMMA CmdqInvParts == CmdqInv <=> RingsOK /\ ControlOK /\ CommandsKnown /\ CompletionsKnown
  BY DEF CmdqInv, CmdqTypeOK, RingsOK, ControlOK

LEMMA CmdqInitInv == CmdqInit => CmdqInv
  <1> SUFFICES ASSUME CmdqInit
               PROVE  CmdqInv
    OBVIOUS
  <1>1. RingsOK
    BY CmdqConfigValid DEF CmdqInit, RingsOK, Indexes
  <1>2. ControlOK
    <2>1. ZeroStats \in Stats
      BY DEF ZeroStats, Stats
    <2>2. hooked \in BOOLEAN /\ draining \in BOOLEAN
      BY Zenon DEF CmdqInit
    <2>3. QED
      BY <2>1, <2>2 DEF CmdqInit, ControlOK
  <1>3. CmdUsed = 0 /\ CompUsed = 0
    <2>1. 0 - 0 = 0 /\ 0 % CmdDepth = 0 /\ 0 % CompDepth = 0
      BY ModSmall, DepthTypes
    <2>2. QED
      BY <2>1 DEF CmdqInit, CmdUsed, CompUsed
  <1>4. CommandsKnown /\ CompletionsKnown
    BY <1>3 DEF CommandsKnown, CompletionsKnown, CmdqInit
  <1>5. QED
    BY <1>1, <1>2, <1>4, CmdqInvParts

(***************************************************************************)
(* Counters.                                                               *)
(***************************************************************************)
LEMMA OneIfType == \A c : OneIf(c) \in {0, 1} /\ (c => OneIf(c) = 1) /\ (~ c => OneIf(c) = 0)
  BY DEF OneIf

\* What the switch over the command type counts.
LEMMA ExecutedStats ==
    ASSUME stats \in Stats, NEW kind, NEW result
    PROVE  LET s == Executed(kind, result)
           IN  /\ s \in Stats
               /\ s.submitted = stats.submitted /\ s.completed = stats.completed
               /\ s.compqFull = stats.compqFull /\ s.fence = stats.fence
               /\ s.failed >= stats.failed
  <1> DEFINE a == stats.resets + OneIf(kind = "reset")
             b == stats.unsupported + OneIf(kind = "unknown" \/ result = "UNSUPPORTED_OP")
             c == stats.failed + OneIf(kind = "unknown")
  <1>1. a \in Nat /\ b \in Nat /\ c \in Nat /\ c >= stats.failed
    BY OneIfType DEF Stats
  <1>2. Executed(kind, result) = [stats EXCEPT !.resets = a, !.unsupported = b, !.failed = c]
    BY DEF Executed
  <1> HIDE DEF a, b, c
  <1>3. QED
    BY <1>1, <1>2 DEF Stats

\* What an answered command counts: one completion or one failure, and a fence.
LEMMA AnswerStats ==
    ASSUME stats \in Stats, NEW c \in Commands, NEW result, Answer(c, result)
    PROVE  /\ stats' \in Stats
           /\ stats'.submitted = stats.submitted /\ stats'.compqFull = stats.compqFull
           /\ stats'.completed \in {stats.completed, stats.completed + 1}
           /\ stats'.failed >= stats.failed
           /\ stats'.completed = stats.completed => stats'.failed >= stats.failed + 1
           /\ stats'.fence = stats.fence + OneIf(c.fenced)
  <1> DEFINE s == Executed(c.kind, result)
             answered == result \in {"OK", "UNSUPPORTED_OP"}
             f == s.fence + OneIf(c.fenced)
             g == s.completed + OneIf(answered)
             h == s.failed + OneIf(~ answered)
  <1>1. /\ s \in Stats
        /\ s.submitted = stats.submitted /\ s.completed = stats.completed
        /\ s.compqFull = stats.compqFull /\ s.fence = stats.fence
        /\ s.failed >= stats.failed
    BY ExecutedStats
  <1>2. stats' = [s EXCEPT !.fence = f, !.completed = g, !.failed = h]
    BY DEF Answer
  <1> HIDE DEF s
  <1>3. /\ f \in Nat /\ g \in Nat /\ h \in Nat
        /\ g \in {stats.completed, stats.completed + 1}
        /\ h >= stats.failed
        /\ g = stats.completed => h >= stats.failed + 1
        /\ f = stats.fence + OneIf(c.fenced)
    <2>1. OneIf(c.fenced) \in {0, 1}
      BY OneIfType
    <2>2. CASE answered
      <3>1. OneIf(answered) = 1 /\ OneIf(~ answered) = 0
        BY <2>2, OneIfType
      <3> HIDE DEF answered
      <3>2. QED
        BY <1>1, <2>1, <3>1 DEF Stats
    <2>3. CASE ~ answered
      <3>1. OneIf(answered) = 0 /\ OneIf(~ answered) = 1
        BY <2>3 DEF OneIf
      <3> HIDE DEF answered
      <3>2. QED
        BY <1>1, <2>1, <3>1 DEF Stats
    <2>4. QED
      BY <2>2, <2>3
  <1> HIDE DEF f, g, h
  <1>4. /\ stats' \in Stats /\ stats'.fence = f /\ stats'.completed = g /\ stats'.failed = h
        /\ stats'.submitted = s.submitted /\ stats'.compqFull = s.compqFull
    BY <1>1, <1>2, <1>3 DEF Stats
  <1>5. QED
    BY <1>1, <1>3, <1>4

\* What a lost command counts.
LEMMA LoseStats ==
    ASSUME stats \in Stats, NEW c, NEW result, Lose(c, result)
    PROVE  /\ stats' \in Stats
           /\ stats'.submitted = stats.submitted /\ stats'.completed = stats.completed
           /\ stats'.compqFull = stats.compqFull + 1 /\ stats'.fence = stats.fence
           /\ stats'.failed >= stats.failed
  <1> DEFINE s == Executed(c.kind, result)
             a == s.compqFull + 1
  <1>1. /\ s \in Stats
        /\ s.submitted = stats.submitted /\ s.completed = stats.completed
        /\ s.compqFull = stats.compqFull /\ s.fence = stats.fence
        /\ s.failed >= stats.failed
    BY ExecutedStats
  <1>2. stats' = [s EXCEPT !.compqFull = a]
    BY DEF Lose
  <1> HIDE DEF s
  <1>3. a \in Nat /\ a = stats.compqFull + 1
    BY <1>1 DEF Stats
  <1> HIDE DEF a
  <1>4. QED
    BY <1>1, <1>2, <1>3 DEF Stats

(***************************************************************************)
(* Every step keeps the invariant.                                         *)
(***************************************************************************)

\* Calls that touch no ring: refusals, and the beginning and end of a drain.
LEMMA QuietInv ==
    ASSUME CmdqInv, UNCHANGED <<cmdVars, compVars, lastRead>>,
           hooked' \in BOOLEAN, draining' \in BOOLEAN, stats' \in Stats
    PROVE  CmdqInv'
  <1>1. /\ CmdUsed' = CmdUsed /\ PendingCommands' = PendingCommands
        /\ CompUsed' = CompUsed /\ PendingCompletions' = PendingCompletions
    BY PendingUnchanged DEF cmdVars, compVars
  <1>2. RingsOK' /\ ControlOK'
    BY CmdqInvParts DEF RingsOK, ControlOK, cmdVars, compVars
  <1>3. CommandsKnown' /\ CompletionsKnown'
    BY <1>1 DEF CmdqInv, CommandsKnown, CompletionsKnown, cmdVars
  <1>4. QED
    BY <1>2, <1>3 DEF CmdqInv, CmdqTypeOK, RingsOK, ControlOK

LEMMA SubmitInv ==
    ASSUME CmdqInv, NEW tile, NEW kind \in KindArgs, NEW fenced \in BOOLEAN,
           Submit(tile, kind, fenced)
    PROVE  CmdqInv'
  <1> DEFINE e == [id |-> nextId, tile |-> tile, kind |-> kind, fenced |-> fenced]
             a == stats.submitted + 1
  <1>0. RingsOK /\ ControlOK /\ CommandsKnown /\ CompletionsKnown
    BY CmdqInvParts
  <1>1. e \in Commands /\ e.id = nextId
    BY <1>0, CmdqConfigValid DEF Submit, Commands, CommandKinds, ControlOK
  <1>2. /\ CmdUsed + 1 < CmdDepth
        /\ cmdRing' = [cmdRing EXCEPT ![cmdTail % CmdDepth] = e]
        /\ cmdTail' = Advanced(cmdTail) /\ cmdHead' = cmdHead
    BY DEF Submit
  <1>3. /\ nextId' = nextId + 1 /\ stats' = [stats EXCEPT !.submitted = a]
        /\ UNCHANGED <<compVars, hooked, draining, lastRead>>
    BY DEF Submit
  <1> HIDE DEF e, a
  <1>4. /\ cmdRing' \in [CmdSlots -> Commands \cup {NoEntry}]
        /\ cmdHead' \in Indexes /\ cmdTail' \in Indexes
        /\ CmdUsed' = CmdUsed + 1
        /\ \A k \in 1..CmdUsed : PendingCommands'[k] = PendingCommands[k]
        /\ PendingCommands'[CmdUsed + 1] = e
    BY <1>0, <1>1, <1>2, CommandPushed
  <1>5. CompUsed' = CompUsed /\ PendingCompletions' = PendingCompletions
    BY <1>3, PendingUnchanged DEF compVars
  <1>6. RingsOK'
    BY <1>0, <1>3, <1>4 DEF RingsOK, compVars
  <1>7. ControlOK'
    <2>1. a \in Nat
      BY <1>0 DEF ControlOK, Stats, a
    <2>2. stats' \in Stats
      BY <1>0, <1>3, <2>1 DEF ControlOK, Stats
    <2>3. QED
      BY <1>0, <1>3, <2>2 DEF ControlOK
  <1>8. CommandsKnown'
    <2>1. \A k \in 1..CmdUsed + 1 : k \in 1..CmdUsed \/ k = CmdUsed + 1
      BY <1>0, PendingTypes, DepthTypes
    <2>2. \A k \in 1..CmdUsed : PendingCommands[k].id < nextId + 1
      BY <1>0 DEF CommandsKnown, Commands, ControlOK
    <2>3. e.id < nextId + 1
      BY <1>0, <1>1 DEF ControlOK
    <2>4. QED
      BY <1>0, <1>1, <1>3, <1>4, <2>1, <2>2, <2>3 DEF CommandsKnown
  <1>9. CompletionsKnown'
    <2>1. \A k \in 1..CompUsed : PendingCompletions[k].id < nextId + 1
      BY <1>0 DEF CompletionsKnown, Completions, ControlOK
    <2>2. lastRead # NoEntry => lastRead.id < nextId + 1
      BY <1>0 DEF CompletionsKnown, Completions, ControlOK
    <2>3. QED
      BY <1>0, <1>3, <1>5, <2>1, <2>2 DEF CompletionsKnown
  <1>10. QED
    BY <1>6, <1>7, <1>8, <1>9 DEF CmdqInv, CmdqTypeOK, RingsOK, ControlOK

LEMMA ResultTypes ==
    ASSUME NEW kind \in CommandKinds
    PROVE  PossibleResults(kind) \subseteq Results
  <1>1. CASE kind \in {"control", "reset"}
    BY <1>1 DEF PossibleResults, Results
  <1>2. CASE kind = "exec" /\ hooked
    BY <1>2, CmdqConfigValid DEF PossibleResults, Results
  <1>3. CASE kind = "exec" /\ ~ hooked
    BY <1>3 DEF PossibleResults, Results
  <1>4. CASE kind = "unknown"
    BY <1>4 DEF PossibleResults, Results
  <1>5. QED
    BY <1>1, <1>2, <1>3, <1>4 DEF CommandKinds

\* The completion of the command at the head, as it goes behind the others.
LEMMA AnswerPushes ==
    ASSUME CmdqInv, NEW c \in Commands, NEW result \in Results, Answer(c, result)
    PROVE  \E e \in Completions :
              /\ e.id = c.id
              /\ e.fence = IF c.fenced THEN stats'.fence ELSE 0
              /\ RingsOK' <=> /\ cmdRing' \in [CmdSlots -> Commands \cup {NoEntry}]
                              /\ cmdHead' \in Indexes /\ cmdTail' \in Indexes
              /\ CompUsed + 1 < CompDepth
              /\ CompUsed' = CompUsed + 1
              /\ \A k \in 1..CompUsed : PendingCompletions'[k] = PendingCompletions[k]
              /\ PendingCompletions'[CompUsed + 1] = e
  <1> DEFINE fence == stats.fence + OneIf(c.fenced)
             e == [id |-> c.id, tile |-> c.tile, result |-> result,
                   fence |-> IF c.fenced THEN fence ELSE 0]
  <1>0. RingsOK /\ ControlOK
    BY CmdqInvParts
  <1>1. stats'.fence = fence /\ Executed(c.kind, result).fence = stats.fence
    BY <1>0, AnswerStats, ExecutedStats DEF ControlOK
  <1>2. /\ CompUsed + 1 < CompDepth
        /\ compRing' = [compRing EXCEPT ![compTail % CompDepth] = e]
        /\ compTail' = Advanced(compTail) /\ compHead' = compHead
    BY <1>1 DEF Answer
  <1>3. fence \in Nat
    BY <1>0, OneIfType DEF ControlOK, Stats
  <1>4. e \in Completions /\ e.id = c.id /\ e.fence = IF c.fenced THEN stats'.fence ELSE 0
    BY <1>1, <1>3 DEF Completions, Commands
  <1> HIDE DEF e
  <1>5. /\ compRing' \in [CompSlots -> Completions \cup {NoEntry}]
        /\ compHead' \in Indexes /\ compTail' \in Indexes
        /\ CompUsed' = CompUsed + 1
        /\ \A k \in 1..CompUsed : PendingCompletions'[k] = PendingCompletions[k]
        /\ PendingCompletions'[CompUsed + 1] = e
    BY <1>0, <1>2, <1>4, CompletionPushed
  <1>6. RingsOK' <=> /\ cmdRing' \in [CmdSlots -> Commands \cup {NoEntry}]
                     /\ cmdHead' \in Indexes /\ cmdTail' \in Indexes
    BY <1>5 DEF RingsOK
  <1>7. QED
    BY <1>2, <1>4, <1>5, <1>6

LEMMA DispatchInv ==
    ASSUME CmdqInv, DispatchOne
    PROVE  CmdqInv'
  <1> DEFINE c == NextCommand
  <1>0. RingsOK /\ ControlOK /\ CommandsKnown /\ CompletionsKnown
    BY CmdqInvParts
  <1>1. /\ CmdUsed # 0 /\ cmdHead' = Advanced(cmdHead)
        /\ UNCHANGED <<cmdRing, cmdTail, nextId, hooked, lastRead>>
    BY DEF DispatchOne
  <1>2. c \in Commands /\ c.id < nextId
    BY <1>0, <1>1, OldestCommand DEF CommandsKnown
  <1>3. PICK result \in PossibleResults(c.kind) : Answer(c, result) \/ Lose(c, result)
    BY DEF DispatchOne
  <1>4. result \in Results
    BY <1>2, <1>3, ResultTypes DEF Commands
  <1> HIDE DEF c
  <1>5. /\ cmdHead' \in Indexes /\ CmdUsed' = CmdUsed - 1
        /\ \A k \in 1..CmdUsed - 1 : PendingCommands'[k] = PendingCommands[k + 1]
    BY <1>0, <1>1, CommandTaken
  <1>6. CommandsKnown'
    <2>1. \A k \in 1..CmdUsed - 1 : k + 1 \in 1..CmdUsed
      BY <1>0, PendingTypes, DepthTypes
    <2>2. QED
      BY <1>0, <1>1, <1>5, <2>1 DEF CommandsKnown
  <1>7. CASE Answer(c, result)
    <2>1. PICK e \in Completions :
              /\ e.id = c.id
              /\ RingsOK' <=> /\ cmdRing' \in [CmdSlots -> Commands \cup {NoEntry}]
                              /\ cmdHead' \in Indexes /\ cmdTail' \in Indexes
              /\ CompUsed' = CompUsed + 1
              /\ \A k \in 1..CompUsed : PendingCompletions'[k] = PendingCompletions[k]
              /\ PendingCompletions'[CompUsed + 1] = e
      BY <1>2, <1>4, <1>7, AnswerPushes
    <2>2. RingsOK'
      BY <1>0, <1>1, <1>5, <2>1 DEF RingsOK
    <2>3. ControlOK'
      <3>1. stats' \in Stats /\ draining' = draining
        BY <1>0, <1>2, <1>7, AnswerStats DEF ControlOK, Answer
      <3>2. QED
        BY <1>0, <1>1, <3>1 DEF ControlOK
    <2>4. CompletionsKnown'
      <3>1. \A k \in 1..CompUsed + 1 : k \in 1..CompUsed \/ k = CompUsed + 1
        BY <1>0, PendingTypes, DepthTypes
      <3>2. QED
        BY <1>0, <1>1, <1>2, <2>1, <3>1 DEF CompletionsKnown
    <2>5. QED
      BY <1>6, <2>2, <2>3, <2>4 DEF CmdqInv, CmdqTypeOK, RingsOK, ControlOK
  <1>8. CASE Lose(c, result)
    <2>1. UNCHANGED compVars
      BY <1>8 DEF Lose
    <2>2. RingsOK'
      BY <1>0, <1>1, <1>5, <2>1 DEF RingsOK, compVars
    <2>3. ControlOK'
      <3>1. stats' \in Stats
        BY <1>0, <1>8, LoseStats DEF ControlOK
      <3>2. draining' \in BOOLEAN
        BY <1>8, Zenon DEF Lose
      <3>3. QED
        BY <1>0, <1>1, <3>1, <3>2 DEF ControlOK
    <2>4. CompUsed' = CompUsed /\ PendingCompletions' = PendingCompletions
      BY <2>1, PendingUnchanged DEF compVars
    <2>5. CompletionsKnown'
      BY <1>0, <1>1, <2>4 DEF CompletionsKnown
    <2>6. QED
      BY <1>6, <2>2, <2>3, <2>5 DEF CmdqInv, CmdqTypeOK, RingsOK, ControlOK
  <1>9. QED
    BY <1>3, <1>7, <1>8

LEMMA PollInv ==
    ASSUME CmdqInv, PollCompletion
    PROVE  CmdqInv'
  <1>0. RingsOK /\ ControlOK /\ CommandsKnown /\ CompletionsKnown
    BY CmdqInvParts
  <1>1. /\ CompUsed # 0 /\ compHead' = Advanced(compHead)
        /\ lastRead' = compRing[compHead % CompDepth]
        /\ UNCHANGED <<cmdVars, compRing, compTail, hooked, stats, draining>>
    BY DEF PollCompletion
  <1>2. lastRead' \in Completions /\ lastRead'.id < nextId
    BY <1>0, <1>1, OldestCompletion DEF CompletionsKnown
  <1>3. /\ compHead' \in Indexes /\ CompUsed' = CompUsed - 1
        /\ \A k \in 1..CompUsed - 1 : PendingCompletions'[k] = PendingCompletions[k + 1]
    BY <1>0, <1>1, CompletionTaken
  <1>4. RingsOK' /\ ControlOK'
    BY <1>0, <1>1, <1>2, <1>3 DEF RingsOK, ControlOK, cmdVars
  <1>5. CommandsKnown'
    <2>1. CmdUsed' = CmdUsed /\ PendingCommands' = PendingCommands /\ nextId' = nextId
      BY <1>1, PendingUnchanged DEF cmdVars
    <2>2. QED
      BY <1>0, <2>1 DEF CommandsKnown
  <1>6. CompletionsKnown'
    <2>1. \A k \in 1..CompUsed - 1 : k + 1 \in 1..CompUsed
      BY <1>0, PendingTypes, DepthTypes
    <2>2. nextId' = nextId
      BY <1>1 DEF cmdVars
    <2>3. QED
      BY <1>0, <1>2, <1>3, <2>1, <2>2 DEF CompletionsKnown
  <1>7. QED
    BY <1>4, <1>5, <1>6 DEF CmdqInv, CmdqTypeOK, RingsOK, ControlOK

\* The refusals and the other calls that touch no ring.
LEMMA QuietSteps ==
    ASSUME CmdqInv,
           \/ \E on \in BOOLEAN : SetExecHook(on)
           \/ \E tile : SubmitBadTile(tile) \/ SubmitFull(tile)
           \/ DispatchAllBegin
           \/ DispatchAllEnd
    PROVE  /\ UNCHANGED <<cmdVars, compVars, lastRead>>
           /\ hooked' \in BOOLEAN /\ draining' \in BOOLEAN /\ stats' \in Stats
           /\ stats'.submitted = stats.submitted /\ stats'.completed = stats.completed
           /\ stats'.compqFull = stats.compqFull /\ stats'.fence = stats.fence
           /\ stats'.failed >= stats.failed
  <1>0. ControlOK
    BY CmdqInvParts
  <1>1. ASSUME NEW on \in BOOLEAN, SetExecHook(on)
        PROVE  /\ UNCHANGED <<cmdVars, compVars, lastRead, draining, stats>>
               /\ hooked' \in BOOLEAN
    BY <1>1 DEF SetExecHook
  <1>2. ASSUME NEW tile, SubmitBadTile(tile)
        PROVE  /\ UNCHANGED <<cmdVars, compVars, lastRead, hooked, draining>>
               /\ stats' = [stats EXCEPT !.failed = stats.failed + 1]
    BY <1>2 DEF SubmitBadTile
  <1>3. ASSUME NEW tile, SubmitFull(tile)
        PROVE  /\ UNCHANGED <<cmdVars, compVars, lastRead, hooked, draining>>
               /\ stats' = [stats EXCEPT !.queueFull = stats.queueFull + 1]
    BY <1>3 DEF SubmitFull
  <1>4. ASSUME DispatchAllBegin \/ DispatchAllEnd
        PROVE  /\ UNCHANGED <<cmdVars, compVars, lastRead, hooked, stats>>
               /\ draining' \in BOOLEAN
    BY <1>4, Zenon DEF DispatchAllBegin, DispatchAllEnd
  <1>5. stats \in Stats /\ stats.failed + 1 \in Nat /\ stats.queueFull + 1 \in Nat
    BY <1>0 DEF ControlOK, Stats
  <1>6. CASE \E on \in BOOLEAN : SetExecHook(on)
    BY <1>0, <1>1, <1>5, <1>6 DEF ControlOK, Stats
  <1>7. CASE \E tile : SubmitBadTile(tile)
    BY <1>0, <1>2, <1>5, <1>7 DEF ControlOK, Stats
  <1>8. CASE \E tile : SubmitFull(tile)
    BY <1>0, <1>3, <1>5, <1>8 DEF ControlOK, Stats
  <1>9. CASE DispatchAllBegin \/ DispatchAllEnd
    BY <1>0, <1>4, <1>5, <1>9 DEF ControlOK, Stats
  <1>10. QED
    BY <1>6, <1>7, <1>8, <1>9

\* The steps of the queue, whoever takes them and within whatever bounds.
QuietStep ==
    \/ \E on \in BOOLEAN : SetExecHook(on)
    \/ \E tile : SubmitBadTile(tile) \/ SubmitFull(tile)
    \/ DispatchAllBegin
    \/ DispatchAllEnd

QueueStep ==
    \/ \E tile : \E kind \in KindArgs, fenced \in BOOLEAN : Submit(tile, kind, fenced)
    \/ DispatchOne
    \/ PollCompletion
    \/ QuietStep
    \/ UNCHANGED cmdqVars

LEMMA StepKinds == [CmdqNext]_cmdqVars => QueueStep
  <1>1. ASSUME NEW tile, SubmitStep(tile)
        PROVE  \/ \E kind \in KindArgs, fenced \in BOOLEAN : Submit(tile, kind, fenced)
               \/ SubmitBadTile(tile) \/ SubmitFull(tile)
    BY <1>1 DEF SubmitStep
  <1>2. DispatchAllStep => DispatchOne \/ DispatchAllEnd
    BY Zenon DEF DispatchAllStep
  <1>3. CmdqNext => \/ \E on \in BOOLEAN : SetExecHook(on)
                    \/ \E tile : SubmitStep(tile)
                    \/ DispatchOne \/ DispatchAllBegin \/ PollCompletion \/ DispatchAllStep
    BY Zenon DEF CmdqNext
  <1>4. QED
    BY <1>1, <1>2, <1>3 DEF QueueStep, QuietStep

LEMMA CmdqNextInv == CmdqInv /\ QueueStep => CmdqInv'
  <1> SUFFICES ASSUME CmdqInv, QueueStep
               PROVE  CmdqInv'
    OBVIOUS
  <1>1. CASE \E tile : \E kind \in KindArgs, fenced \in BOOLEAN : Submit(tile, kind, fenced)
    BY <1>1, SubmitInv
  <1>2. CASE DispatchOne
    BY <1>2, DispatchInv
  <1>3. CASE PollCompletion
    BY <1>3, PollInv
  <1>4. CASE QuietStep
    BY <1>4, QuietSteps, QuietInv DEF QuietStep
  <1>5. CASE UNCHANGED cmdqVars
    BY <1>5, CmdqInvParts, QuietInv DEF cmdqVars, cmdVars, compVars, ControlOK
  <1>6. QED
    BY <1>1, <1>2, <1>3, <1>4, <1>5 DEF QueueStep

\* The counters of submissions and of full queues never go back.
LEMMA StatsGrow ==
    ASSUME CmdqInv, QueueStep
    PROVE  /\ stats' \in Stats
           /\ stats'.submitted >= stats.submitted /\ stats'.queueFull >= stats.queueFull
  <1>0. RingsOK /\ ControlOK /\ stats \in Stats /\ CmdqInv'
    BY CmdqInvParts, CmdqNextInv DEF ControlOK
  <1>1. /\ stats' \in Stats
        /\ stats.submitted \in Nat /\ stats.queueFull \in Nat
        /\ stats'.submitted \in Nat /\ stats'.queueFull \in Nat
    <2>1. stats' \in Stats
      BY <1>0 DEF CmdqInv, CmdqTypeOK
    <2>2. QED
      BY <1>0, <2>1 DEF Stats
  <1>2. ASSUME NEW tile, NEW kind, NEW fenced, Submit(tile, kind, fenced)
        PROVE  stats'.submitted = stats.submitted + 1 /\ stats'.queueFull = stats.queueFull
    BY <1>0, <1>2 DEF Submit, Stats
  <1>3. ASSUME DispatchOne
        PROVE  stats'.submitted = stats.submitted /\ stats'.queueFull = stats.queueFull
    <2> DEFINE c == NextCommand
    <2>1. PICK result \in PossibleResults(c.kind) : Answer(c, result) \/ Lose(c, result)
      BY <1>3 DEF DispatchOne
    <2> DEFINE s == Executed(c.kind, result)
    <2>2. s \in Stats /\ s.submitted = stats.submitted /\ s.queueFull = stats.queueFull
      <3>1. s \in Stats /\ s.submitted = stats.submitted
        BY <1>0, ExecutedStats
      <3>2. s.queueFull = stats.queueFull
        BY <1>0 DEF Executed, Stats
      <3>3. QED
        BY <3>1, <3>2
    <2> DEFINE answered == result \in {"OK", "UNSUPPORTED_OP"}
               f == s.fence + OneIf(c.fenced)
               g == s.completed + OneIf(answered)
               h == s.failed + OneIf(~answered)
               lost == s.compqFull + 1
    <2>3. \/ stats' = [s EXCEPT !.fence = f, !.completed = g, !.failed = h]
          \/ stats' = [s EXCEPT !.compqFull = lost]
      BY <2>1 DEF Answer, Lose
    <2> HIDE DEF s, f, g, h, lost
    <2>4. QED
      BY <2>2, <2>3 DEF Stats
  <1>4. PollCompletion \/ UNCHANGED cmdqVars => stats' = stats
    BY DEF PollCompletion, cmdqVars
  <1>5. ASSUME QuietStep
        PROVE  stats'.submitted >= stats.submitted /\ stats'.queueFull >= stats.queueFull
    <2>1. stats'.submitted = stats.submitted
      BY <1>0, <1>5, QuietSteps DEF QuietStep
    <2>2. \/ stats' = stats
          \/ stats' = [stats EXCEPT !.failed = @ + 1]
          \/ stats' = [stats EXCEPT !.queueFull = @ + 1]
      BY <1>5 DEF QuietStep, SetExecHook, SubmitBadTile, SubmitFull, DispatchAllBegin,
                  DispatchAllEnd
    <2>3. stats'.queueFull = stats.queueFull \/ stats'.queueFull = stats.queueFull + 1
      BY <1>0, <2>2 DEF Stats
    <2>4. QED
      BY <1>1, <2>1, <2>3
  <1>6. QED
    BY <1>1, <1>2, <1>3, <1>4, <1>5 DEF QueueStep

(***************************************************************************)
(* Every command is accounted for.                                         *)
(***************************************************************************)
LEMMA InitAccounts == CmdqInit => CommandsAccountedFor
  <1>1. 0 - 0 = 0 /\ 0 % CmdDepth = 0
    BY ModSmall, DepthTypes
  <1>2. CmdqInit => CmdUsed = 0 /\ nextId = 1 /\ stats = ZeroStats
    BY <1>1 DEF CmdqInit, CmdUsed
  <1>3. QED
    BY <1>2 DEF CommandsAccountedFor, ZeroStats

LEMMA NextAccounts ==
    CmdqInv /\ CommandsAccountedFor /\ QueueStep => CommandsAccountedFor'
  <1> SUFFICES ASSUME CmdqInv, CommandsAccountedFor, QueueStep
               PROVE  CommandsAccountedFor'
    OBVIOUS
  <1>0. RingsOK /\ ControlOK /\ CommandsKnown /\ CompletionsKnown /\ CmdUsed \in Nat
    BY CmdqInvParts, PendingTypes, DepthTypes
  <1> DEFINE n == CmdUsed
             settled == n + stats.completed + stats.compqFull
  <1>1. /\ settled <= stats.submitted
        /\ stats.submitted <= settled + stats.failed
        /\ stats.submitted = nextId - 1
    BY DEF CommandsAccountedFor
  <1>2. /\ stats.completed \in Nat /\ stats.compqFull \in Nat /\ stats.submitted \in Nat
        /\ stats.failed \in Nat /\ nextId \in Nat
    BY <1>0 DEF ControlOK, Stats
  <1>3. SUFFICES /\ CmdUsed' + stats'.completed + stats'.compqFull <= stats'.submitted
                 /\ stats'.submitted <= CmdUsed' + stats'.completed + stats'.compqFull
                                            + stats'.failed
                 /\ stats'.submitted = nextId' - 1
    BY DEF CommandsAccountedFor
  <1>4. ASSUME NEW tile, NEW kind \in KindArgs, NEW fenced \in BOOLEAN,
               Submit(tile, kind, fenced)
        PROVE  CommandsAccountedFor'
    <2> DEFINE e == [id |-> nextId, tile |-> tile, kind |-> kind, fenced |-> fenced]
               a == stats.submitted + 1
    <2>1. e \in Commands
      BY <1>0, <1>4, CmdqConfigValid DEF Submit, Commands, CommandKinds, ControlOK
    <2>2. /\ CmdUsed + 1 < CmdDepth
          /\ cmdRing' = [cmdRing EXCEPT ![cmdTail % CmdDepth] = e]
          /\ cmdTail' = Advanced(cmdTail) /\ cmdHead' = cmdHead
      BY <1>4 DEF Submit
    <2> HIDE DEF e
    <2>3. CmdUsed' = n + 1
      BY <1>0, <2>1, <2>2, CommandPushed
    <2>4. nextId' = nextId + 1 /\ stats' = [stats EXCEPT !.submitted = a]
      BY <1>4 DEF Submit
    <2> HIDE DEF a
    <2>5. /\ stats'.submitted = a /\ stats'.completed = stats.completed
          /\ stats'.compqFull = stats.compqFull /\ stats'.failed = stats.failed
      BY <1>0, <2>4 DEF ControlOK, Stats
    <2> HIDE DEF n
    <2>6. n \in Nat
      BY <1>0 DEF n
    <2>7. QED
      BY <1>1, <1>2, <2>3, <2>4, <2>5, <2>6 DEF CommandsAccountedFor, a
  <1>5. CASE DispatchOne
    <2> DEFINE c == NextCommand
    <2>1. /\ CmdUsed # 0 /\ cmdHead' = Advanced(cmdHead)
          /\ UNCHANGED <<cmdRing, cmdTail, nextId, hooked, lastRead>>
      BY <1>5 DEF DispatchOne
    <2>2. c \in Commands
      BY <1>0, <2>1, OldestCommand DEF CommandsKnown
    <2>3. PICK result \in PossibleResults(c.kind) : Answer(c, result) \/ Lose(c, result)
      BY <1>5 DEF DispatchOne
    <2> HIDE DEF c
    <2>4. CmdUsed' = n - 1
      BY <1>0, <2>1, CommandTaken
    <2> HIDE DEF n
    <2>5. n \in Nat /\ n # 0
      BY <1>0, <2>1 DEF n
    <2>6. CASE Answer(c, result)
      <3>1. /\ stats' \in Stats
            /\ stats'.submitted = stats.submitted /\ stats'.compqFull = stats.compqFull
            /\ stats'.completed \in {stats.completed, stats.completed + 1}
            /\ stats'.failed >= stats.failed
            /\ stats'.completed = stats.completed => stats'.failed >= stats.failed + 1
        BY <1>0, <2>2, <2>6, AnswerStats DEF ControlOK
      <3>2. stats'.failed \in Nat
        BY <3>1 DEF Stats
      <3>3. QED
        BY <1>1, <1>2, <2>1, <2>4, <2>5, <3>1, <3>2
    <2>7. CASE Lose(c, result)
      <3>1. /\ stats' \in Stats
            /\ stats'.submitted = stats.submitted /\ stats'.completed = stats.completed
            /\ stats'.compqFull = stats.compqFull + 1
            /\ stats'.failed >= stats.failed
        BY <1>0, <2>7, LoseStats DEF ControlOK
      <3>2. stats'.failed \in Nat
        BY <3>1 DEF Stats
      <3>3. QED
        BY <1>1, <1>2, <2>1, <2>4, <2>5, <3>1, <3>2
    <2>8. QED
      BY <2>3, <2>6, <2>7
  <1>6. CASE PollCompletion
    <2>1. UNCHANGED <<cmdVars, stats>>
      BY <1>6 DEF PollCompletion
    <2>2. CmdUsed' = n /\ nextId' = nextId
      BY <2>1, PendingUnchanged DEF cmdVars
    <2>3. QED
      BY <1>1, <1>2, <2>1, <2>2
  <1>7. CASE QuietStep
    <2>1. /\ UNCHANGED <<cmdVars, compVars, lastRead>> /\ stats' \in Stats
          /\ stats'.submitted = stats.submitted /\ stats'.completed = stats.completed
          /\ stats'.compqFull = stats.compqFull
          /\ stats'.failed >= stats.failed
      BY <1>7, QuietSteps DEF QuietStep
    <2>2. CmdUsed' = n /\ nextId' = nextId
      BY <2>1, PendingUnchanged DEF cmdVars
    <2>3. stats'.failed \in Nat
      BY <2>1 DEF Stats
    <2> HIDE DEF n
    <2>4. n \in Nat
      BY <1>0 DEF n
    <2>5. QED
      BY <1>1, <1>2, <2>1, <2>2, <2>3, <2>4
  <1>8. CASE UNCHANGED cmdqVars
    <2>1. CmdUsed' = n /\ nextId' = nextId /\ stats' = stats
      BY <1>8, PendingUnchanged DEF cmdqVars
    <2>2. QED
      BY <1>1, <1>2, <2>1
  <1>9. QED
    BY <1>4, <1>5, <1>6, <1>7, <1>8 DEF QueueStep, CommandsAccountedFor

(***************************************************************************)
(* Fences.  FenceOrder says of n fence values, where 0 stands for none,    *)
(* what FencesConsecutive says of the completions.                         *)
(***************************************************************************)
FenceOrder(F, n, last) ==
    /\ \A j, k \in 1..n : F[j] # 0 /\ F[k] # 0 /\ j < k => F[j] < F[k]
    /\ \A k \in 1..n : F[k] # 0 => F[k] <= last
    /\ \A k \in 1..n : F[k] # 0 => \A f \in F[k]..last : \E j \in 1..n : F[j] = f

\* The next fence, or none, keeps the order.
LEMMA FencePush ==
    ASSUME NEW n \in Nat, NEW last \in Nat, NEW F, NEW G,
           \A k \in 1..n : F[k] \in Nat /\ G[k] = F[k],
           FenceOrder(F, n, last), NEW last2,
           \/ G[n + 1] = 0 /\ last2 = last
           \/ G[n + 1] = last + 1 /\ last2 = last + 1
    PROVE  FenceOrder(G, n + 1, last2)
  <1>1. \A k \in 1..n + 1 : k \in 1..n \/ k = n + 1
    OBVIOUS
  <1>2. n + 1 \in 1..n + 1 /\ \A k \in 1..n : k \in 1..n + 1 /\ k < n + 1
    OBVIOUS
  <1>3. ASSUME NEW j \in 1..n + 1, NEW k \in 1..n + 1, G[j] # 0, G[k] # 0, j < k
        PROVE  G[j] < G[k]
    <2>1. j \in 1..n
      BY <1>3
    <2>2. CASE k \in 1..n
      BY <1>3, <2>1, <2>2 DEF FenceOrder
    <2>3. CASE k = n + 1
      BY <1>3, <2>1, <2>3 DEF FenceOrder
    <2>4. QED
      BY <1>1, <2>2, <2>3
  <1>4. ASSUME NEW k \in 1..n + 1, G[k] # 0
        PROVE  G[k] <= last2
    BY <1>1, <1>4 DEF FenceOrder
  <1>5. ASSUME NEW k \in 1..n + 1, G[k] # 0, NEW f \in G[k]..last2
        PROVE  \E j \in 1..n + 1 : G[j] = f
    <2>1. CASE G[n + 1] # 0 /\ f = last + 1
      BY <1>2, <2>1
    <2>2. CASE ~ (G[n + 1] # 0 /\ f = last + 1)
      <3>1. k \in 1..n
        BY <1>1, <1>5, <2>2
      <3>2. f \in F[k]..last
        BY <1>5, <2>2, <3>1
      <3>3. PICK j \in 1..n : F[j] = f
        BY <1>5, <3>1, <3>2 DEF FenceOrder
      <3>4. QED
        BY <1>2, <3>3
    <2>3. QED
      BY <2>1, <2>2
  <1>6. QED
    BY <1>3, <1>4, <1>5 DEF FenceOrder

\* Forgetting the first one keeps the order.
LEMMA FencePop ==
    ASSUME NEW n \in Nat \ {0}, NEW last \in Nat, NEW F, NEW G,
           \A k \in 1..n : F[k] \in Nat,
           \A k \in 1..n - 1 : G[k] = F[k + 1],
           FenceOrder(F, n, last)
    PROVE  FenceOrder(G, n - 1, last)
  <1>1. \A k \in 1..n - 1 : k + 1 \in 1..n
    OBVIOUS
  <1>2. ASSUME NEW j \in 1..n - 1, NEW k \in 1..n - 1, G[j] # 0, G[k] # 0, j < k
        PROVE  G[j] < G[k]
    <2>1. j + 1 \in 1..n /\ k + 1 \in 1..n /\ j + 1 < k + 1
      BY <1>2
    <2>2. F[j + 1] < F[k + 1]
      BY <1>2, <2>1 DEF FenceOrder
    <2>3. QED
      BY <2>2
  <1>3. ASSUME NEW k \in 1..n - 1, G[k] # 0
        PROVE  G[k] <= last
    BY <1>1, <1>3 DEF FenceOrder
  <1>4. ASSUME NEW k \in 1..n - 1, G[k] # 0, NEW f \in G[k]..last
        PROVE  \E j \in 1..n - 1 : G[j] = f
    <2>1. /\ k + 1 \in 1..n /\ F[k + 1] # 0 /\ f \in F[k + 1]..last
          /\ F[k + 1] \in Nat /\ F[k + 1] = G[k]
      BY <1>1, <1>4
    <2>2. PICK i \in 1..n : F[i] = f
      BY <2>1 DEF FenceOrder
    <2>3. F[i] # 0 /\ F[i] >= F[k + 1]
      BY <2>1, <2>2
    <2>4. ~ (i < k + 1)
      BY <2>1, <2>3 DEF FenceOrder
    <2>5. i - 1 \in 1..n - 1 /\ (i - 1) + 1 = i
      BY <2>4
    <2>6. G[i - 1] = f
      <3>1. G[i - 1] = F[(i - 1) + 1]
        BY <2>5
      <3>2. QED
        BY <2>2, <2>5, <3>1
    <2>7. QED
      BY <2>5, <2>6
  <1>5. QED
    BY <1>2, <1>3, <1>4 DEF FenceOrder

\* The completions seen: what was read last, then what waits.
SeenBefore == IF lastRead = NoEntry THEN 0 ELSE 1
SeenCount == SeenBefore + CompUsed

SeenShapeOK ==
    /\ SeenBefore \in Nat /\ SeenCount \in Nat
    /\ DOMAIN SeenCompletions = 1..SeenCount
    /\ \A k \in 1..SeenCount : SeenCompletions[k] \in Completions
    /\ \A k \in 1..SeenBefore : SeenCompletions[k] = lastRead
    /\ \A k \in 1..CompUsed : SeenCompletions[SeenBefore + k] = PendingCompletions[k]

LEMMA SeenShape == CmdqInv => SeenShapeOK
  <1> SUFFICES ASSUME CmdqInv
               PROVE  SeenShapeOK
    OBVIOUS
  <1> DEFINE n == CompUsed
             P == PendingCompletions
             L == IF lastRead = NoEntry THEN <<>> ELSE <<lastRead>>
             b == SeenBefore
  <1>1. /\ n \in Nat /\ P \in Seq(Completions) /\ Len(P) = n
    <2>1. /\ n \in Nat /\ P = Entries(compRing, compHead, n, CompDepth)
      BY CmdqInvParts, PendingTypes, DepthTypes
    <2>2. \A k \in 1..n : P[k] \in Completions
      BY DEF CmdqInv, CompletionsKnown
    <2> HIDE DEF n
    <2>3. QED
      BY <2>1, <2>2 DEF Entries
  <1>2. /\ b \in Nat /\ L \in Seq(Completions) /\ Len(L) = b
        /\ \A k \in 1..b : L[k] = lastRead
    BY CmdqInvParts DEF SeenBefore, ControlOK
  <1>3. SeenCompletions = L \o P
    BY DEF SeenCompletions
  <1> HIDE DEF P, L, b, n
  <1>4. /\ L \o P \in Seq(Completions)
        /\ Len(L \o P) = b + n
        /\ \A k \in 1..b : (L \o P)[k] = L[k]
        /\ \A k \in 1..n : (L \o P)[b + k] = P[k]
    BY <1>1, <1>2
  <1>5. QED
    BY <1>1, <1>2, <1>3, <1>4 DEF SeenShapeOK, SeenCount, P, n, b

LEMMA SeenShapeNext == (CmdqInv => SeenShapeOK)'
  BY SeenShape, PTL

SeenFences == [k \in 1..SeenCount |-> SeenCompletions[k].fence]

FencesOrdered == FenceOrder(SeenFences, SeenCount, stats.fence)

LEMMA FencesAreConsecutive == CmdqInv /\ FencesOrdered => FencesConsecutive
  <1> SUFFICES ASSUME CmdqInv, FencesOrdered
               PROVE  FencesConsecutive
    OBVIOUS
  <1>1. SeenShapeOK
    BY SeenShape
  <1>2. \A k \in 1..SeenCount : SeenFences[k] = SeenCompletions[k].fence /\ SeenFences[k] \in Nat
    BY <1>1 DEF SeenShapeOK, SeenFences, Completions
  <1>3. DOMAIN SeenCompletions = 1..SeenCount
    BY <1>1 DEF SeenShapeOK
  <1> DEFINE fenced == {k \in DOMAIN SeenCompletions : SeenCompletions[k].fence # 0}
  <1>4. \A j, k \in fenced : j < k => SeenCompletions[j].fence < SeenCompletions[k].fence
    BY <1>2, <1>3 DEF FencesOrdered, FenceOrder
  <1>5. \A k \in fenced : SeenCompletions[k].fence <= stats.fence
    BY <1>2, <1>3 DEF FencesOrdered, FenceOrder
  <1>6. ASSUME NEW k \in fenced, NEW f \in SeenCompletions[k].fence..stats.fence
        PROVE  \E j \in fenced : SeenCompletions[j].fence = f
    <2>1. k \in 1..SeenCount /\ SeenFences[k] # 0 /\ f \in SeenFences[k]..stats.fence
      BY <1>2, <1>3, <1>6
    <2>2. PICK j \in 1..SeenCount : SeenFences[j] = f
      BY <2>1 DEF FencesOrdered, FenceOrder
    <2>3. f # 0
      BY <1>2, <2>1
    <2>4. QED
      BY <1>2, <1>3, <2>2, <2>3
  <1>7. QED
    BY <1>4, <1>5, <1>6 DEF FencesConsecutive

LEMMA InitFences == CmdqInit => FencesOrdered
  <1> SUFFICES ASSUME CmdqInit
               PROVE  FencesOrdered
    OBVIOUS
  <1>1. CompUsed = 0
    <2>1. 0 - 0 = 0 /\ 0 % CompDepth = 0
      BY ModSmall, DepthTypes
    <2>2. QED
      BY <2>1 DEF CmdqInit, CompUsed
  <1>2. SeenCount = 0
    BY <1>1 DEF CmdqInit, SeenCount, SeenBefore
  <1>3. QED
    BY <1>2 DEF FencesOrdered, FenceOrder

\* Steps after which the same completions are seen.
LEMMA SameFences ==
    ASSUME UNCHANGED <<compVars, lastRead>>, stats'.fence = stats.fence, FencesOrdered
    PROVE  FencesOrdered'
  <1>1. CompUsed' = CompUsed /\ PendingCompletions' = PendingCompletions
    BY PendingUnchanged DEF compVars
  <1>2. SeenCount' = SeenCount /\ SeenCompletions' = SeenCompletions
    BY <1>1 DEF SeenCount, SeenBefore, SeenCompletions
  <1>3. QED
    BY <1>2 DEF FencesOrdered, SeenFences, FenceOrder

LEMMA AnswerFences ==
    ASSUME CmdqInv, CmdqInv', FencesOrdered, lastRead' = lastRead,
           NEW c \in Commands, NEW result \in Results, Answer(c, result)
    PROVE  FencesOrdered'
  <1> DEFINE n == SeenCount
  <1>1. /\ SeenShapeOK /\ SeenShapeOK' /\ stats \in Stats /\ stats' \in Stats
    BY SeenShape, SeenShapeNext, CmdqInvParts DEF ControlOK, CmdqInv, CmdqTypeOK
  <1>2. PICK e \in Completions :
            /\ e.fence = IF c.fenced THEN stats'.fence ELSE 0
            /\ CompUsed' = CompUsed + 1
            /\ \A k \in 1..CompUsed : PendingCompletions'[k] = PendingCompletions[k]
            /\ PendingCompletions'[CompUsed + 1] = e
    BY AnswerPushes
  <1>3. stats'.fence = stats.fence + OneIf(c.fenced)
    BY <1>1, AnswerStats
  <1>4. SeenBefore' = SeenBefore /\ CompUsed \in Nat
    BY CmdqInvParts, PendingTypes, DepthTypes DEF SeenBefore
  <1>5. SeenCount' = n + 1
    BY <1>1, <1>2, <1>4 DEF SeenCount, SeenShapeOK
  <1>6. \A k \in 1..n : SeenCompletions'[k] = SeenCompletions[k]
    <2> TAKE k \in 1..n
    <2>1. CASE k \in 1..SeenBefore
      BY <1>1, <1>4, <2>1 DEF SeenShapeOK
    <2>2. CASE k \notin 1..SeenBefore
      <3> DEFINE i == k - SeenBefore
      <3>1. i \in 1..CompUsed /\ i \in 1..CompUsed + 1 /\ k = SeenBefore + i
        BY <1>1, <1>4, <2>2 DEF SeenShapeOK, SeenCount
      <3> HIDE DEF i
      <3>2. SeenCompletions[k] = PendingCompletions[i]
        BY <1>1, <3>1 DEF SeenShapeOK
      <3>3. SeenCompletions'[k] = PendingCompletions'[i]
        BY <1>1, <1>2, <1>4, <3>1 DEF SeenShapeOK
      <3>4. QED
        BY <1>2, <3>1, <3>2, <3>3
    <2>3. QED
      BY <2>1, <2>2
  <1>7. SeenCompletions'[n + 1] = e
    <2>1. CompUsed + 1 \in 1..CompUsed + 1 /\ n + 1 = SeenBefore + (CompUsed + 1)
      BY <1>1, <1>4 DEF SeenCount, SeenShapeOK
    <2>2. QED
      BY <1>1, <1>2, <1>4, <2>1 DEF SeenShapeOK
  <1> DEFINE F == SeenFences
             G == SeenFences'
  <1>8. /\ n \in Nat
        /\ \A k \in 1..n : F[k] \in Nat /\ G[k] = F[k]
        /\ G[n + 1] = e.fence
    <2>1. n \in Nat /\ \A k \in 1..n : k \in 1..n + 1
      BY <1>1 DEF SeenShapeOK
    <2>2. n + 1 \in 1..n + 1
      BY <2>1
    <2>3. QED
      BY <1>1, <1>5, <1>6, <1>7, <2>1, <2>2 DEF SeenFences, SeenShapeOK, Completions
  <1>9. stats.fence \in Nat
    BY <1>1 DEF Stats
  <1>10. \/ G[n + 1] = 0 /\ stats'.fence = stats.fence
         \/ G[n + 1] = stats.fence + 1 /\ stats'.fence = stats.fence + 1
    <2>1. CASE c.fenced
      BY <1>2, <1>3, <1>8, <2>1, OneIfType
    <2>2. CASE ~ c.fenced
      BY <1>2, <1>3, <1>8, <1>9, <2>2, OneIfType
    <2>3. QED
      BY <2>1, <2>2
  <1>11. FenceOrder(F, n, stats.fence)
    BY DEF FencesOrdered
  <1> HIDE DEF F, G, n
  <1>12. FenceOrder(G, n + 1, stats'.fence)
    BY <1>8, <1>9, <1>10, <1>11, FencePush
  <1>13. QED
    BY <1>5, <1>12 DEF FencesOrdered, G, n

LEMMA PollFences ==
    ASSUME CmdqInv, CmdqInv', FencesOrdered, PollCompletion
    PROVE  FencesOrdered'
  <1> DEFINE n == SeenCount
  <1>0. RingsOK /\ stats \in Stats /\ lastRead' \in Completions
    <2>1. RingsOK /\ stats \in Stats
      BY CmdqInvParts DEF ControlOK
    <2>2. CompUsed # 0 /\ lastRead' = compRing[compHead % CompDepth]
      BY DEF PollCompletion
    <2>3. lastRead' \in Completions
      BY <2>1, <2>2, OldestCompletion DEF CmdqInv, CompletionsKnown
    <2>4. QED
      BY <2>1, <2>3
  <1>1. SeenShapeOK /\ SeenShapeOK'
    BY SeenShape, SeenShapeNext
  <1>2. /\ CompUsed # 0 /\ compHead' = Advanced(compHead)
        /\ lastRead' = PendingCompletions[1] /\ 1 \in 1..CompUsed
        /\ compRing' = compRing /\ compTail' = compTail /\ stats' = stats
    BY <1>0, OldestCompletion DEF PollCompletion
  <1>3. /\ CompUsed' = CompUsed - 1 /\ CompUsed \in Nat
        /\ \A k \in 1..CompUsed - 1 : PendingCompletions'[k] = PendingCompletions[k + 1]
    BY <1>0, <1>2, CompletionTaken, PendingTypes, DepthTypes
  <1>4. SeenBefore' = 1
    BY <1>0, NoEntryIsNone DEF SeenBefore
  <1>5. SeenCount' = CompUsed /\ SeenCount' \in Nat
    BY <1>3, <1>4 DEF SeenCount
  \* What is seen after the call: what waited before it.
  <1>6. \A k \in 1..CompUsed : SeenCompletions'[k] = PendingCompletions[k]
    <2> TAKE k \in 1..CompUsed
    <2>1. CASE k = 1
      <3>1. 1 \in 1..SeenBefore'
        BY <1>4
      <3>2. SeenCompletions'[1] = lastRead'
        BY <1>1, <3>1 DEF SeenShapeOK
      <3>3. QED
        BY <1>2, <2>1, <3>2
    <2>2. CASE k # 1
      <3> DEFINE i == k - 1
      <3>1. i \in 1..CompUsed' /\ i \in 1..CompUsed - 1 /\ k = SeenBefore' + i /\ i + 1 = k
        BY <1>3, <1>4, <2>2
      <3> HIDE DEF i
      <3>2. SeenCompletions'[k] = PendingCompletions'[i]
        BY <1>1, <3>1 DEF SeenShapeOK
      <3>3. PendingCompletions'[i] = PendingCompletions[i + 1]
        BY <1>3, <3>1
      <3>4. QED
        BY <3>1, <3>2, <3>3
    <2>3. QED
      BY <2>1, <2>2
  <1> DEFINE F == SeenFences
             G == SeenFences'
  <1>7. \A k \in 1..CompUsed : G[k] = PendingCompletions[k].fence
    BY <1>5, <1>6 DEF SeenFences
  <1>8. /\ n \in Nat
        /\ \A k \in 1..n : F[k] \in Nat
        /\ \A k \in 1..CompUsed : F[SeenBefore + k] = PendingCompletions[k].fence
    <2>1. \A k \in 1..CompUsed : SeenBefore + k \in 1..n
      BY <1>1, <1>3 DEF SeenShapeOK, SeenCount
    <2>2. QED
      BY <1>1, <2>1 DEF SeenFences, SeenShapeOK, Completions
  <1>9. FenceOrder(F, n, stats.fence) /\ stats.fence \in Nat
    BY <1>0 DEF FencesOrdered, Stats
  <1>10. CASE SeenBefore = 0
    <2>1. n = CompUsed /\ \A k \in 1..n : G[k] = F[k]
      BY <1>3, <1>7, <1>8, <1>10 DEF SeenCount
    <2> HIDE DEF F, G, n
    <2>2. FenceOrder(G, n, stats.fence)
      BY <1>9, <2>1 DEF FenceOrder
    <2>3. QED
      BY <1>2, <1>5, <2>1, <2>2 DEF FencesOrdered, G
  <1>11. CASE SeenBefore = 1
    <2>1. /\ n \in Nat \ {0} /\ n - 1 = CompUsed
          /\ \A k \in 1..n - 1 : G[k] = F[k + 1]
      <3>1. n = 1 + CompUsed
        BY <1>11 DEF SeenCount
      <3>2. \A k \in 1..CompUsed : 1 + k = k + 1
        OBVIOUS
      <3>3. QED
        BY <1>3, <1>7, <1>8, <1>11, <3>1, <3>2
    <2> HIDE DEF F, G, n
    <2>2. FenceOrder(G, n - 1, stats.fence)
      BY <1>8, <1>9, <2>1, FencePop
    <2>3. QED
      BY <1>2, <1>5, <2>1, <2>2 DEF FencesOrdered, G
  <1>12. QED
    BY <1>10, <1>11 DEF SeenBefore

LEMMA NextFences ==
    CmdqInv /\ CmdqInv' /\ FencesOrdered /\ QueueStep => FencesOrdered'
  <1> SUFFICES ASSUME CmdqInv, CmdqInv', FencesOrdered, QueueStep
               PROVE  FencesOrdered'
    OBVIOUS
  <1>0. RingsOK /\ stats \in Stats
    BY CmdqInvParts DEF ControlOK
  <1>1. ASSUME NEW tile, NEW kind \in KindArgs, NEW fenced \in BOOLEAN,
               Submit(tile, kind, fenced)
        PROVE  FencesOrdered'
    <2> DEFINE a == stats.submitted + 1
    <2>1. stats' = [stats EXCEPT !.submitted = a] /\ UNCHANGED <<compVars, lastRead>>
      BY <1>1 DEF Submit
    <2> HIDE DEF a
    <2>2. stats'.fence = stats.fence
      BY <1>0, <2>1 DEF Stats
    <2>3. QED
      BY <2>1, <2>2, SameFences
  <1>2. CASE DispatchOne
    <2> DEFINE c == NextCommand
    <2>1. CmdUsed # 0 /\ lastRead' = lastRead
      BY <1>2 DEF DispatchOne
    <2>2. c \in Commands
      BY <1>0, <2>1, OldestCommand DEF CmdqInv, CommandsKnown
    <2>3. PICK result \in PossibleResults(c.kind) : Answer(c, result) \/ Lose(c, result)
      BY <1>2 DEF DispatchOne
    <2>4. result \in Results
      BY <2>2, <2>3, ResultTypes DEF Commands
    <2> HIDE DEF c
    <2>5. CASE Answer(c, result)
      BY <2>1, <2>2, <2>4, <2>5, AnswerFences
    <2>6. CASE Lose(c, result)
      <3>1. stats'.fence = stats.fence /\ UNCHANGED compVars
        BY <1>0, <2>6, LoseStats DEF Lose
      <3>2. QED
        BY <2>1, <3>1, SameFences
    <2>7. QED
      BY <2>3, <2>5, <2>6
  <1>3. CASE PollCompletion
    BY <1>3, PollFences
  <1>4. CASE QuietStep
    <2>1. UNCHANGED <<compVars, lastRead>> /\ stats'.fence = stats.fence
      BY <1>4, QuietSteps DEF QuietStep
    <2>2. QED
      BY <2>1, SameFences
  <1>5. CASE UNCHANGED cmdqVars
    BY <1>5, SameFences DEF cmdqVars, compVars
  <1>6. QED
    BY <1>1, <1>2, <1>3, <1>4, <1>5 DEF QueueStep

(***************************************************************************)
(* The rings implement the channel.                                        *)
(***************************************************************************)
WaitingIds == Ids(PendingCommands)
AnswerIds == Ids(PendingCompletions)
LastId == IF lastRead = NoEntry THEN NoEntry ELSE lastRead.id

LEMMA IdsShape ==
    CmdqInv =>
        /\ WaitingIds \in Seq(Nat) /\ Len(WaitingIds) = CmdUsed
        /\ \A k \in 1..CmdUsed : WaitingIds[k] = PendingCommands[k].id /\ WaitingIds[k] < nextId
        /\ AnswerIds \in Seq(Nat) /\ Len(AnswerIds) = CompUsed
        /\ \A k \in 1..CompUsed : AnswerIds[k] = PendingCompletions[k].id /\ AnswerIds[k] < nextId
        /\ CmdUsed \in 0..CmdDepth - 1 /\ CompUsed \in 0..CompDepth - 1
        /\ CmdUsed \in Nat /\ CompUsed \in Nat
  <1> SUFFICES ASSUME CmdqInv
               PROVE  /\ WaitingIds \in Seq(Nat) /\ Len(WaitingIds) = CmdUsed
                      /\ \A k \in 1..CmdUsed : WaitingIds[k] = PendingCommands[k].id
                                               /\ WaitingIds[k] < nextId
                      /\ AnswerIds \in Seq(Nat) /\ Len(AnswerIds) = CompUsed
                      /\ \A k \in 1..CompUsed : AnswerIds[k] = PendingCompletions[k].id
                                                /\ AnswerIds[k] < nextId
                      /\ CmdUsed \in 0..CmdDepth - 1 /\ CompUsed \in 0..CompDepth - 1
                      /\ CmdUsed \in Nat /\ CompUsed \in Nat
    OBVIOUS
  <1>1. /\ DOMAIN PendingCommands = 1..CmdUsed /\ DOMAIN PendingCompletions = 1..CompUsed
        /\ CmdUsed \in 0..CmdDepth - 1 /\ CompUsed \in 0..CompDepth - 1
        /\ CmdUsed \in Nat /\ CompUsed \in Nat
    BY CmdqInvParts, PendingTypes, DepthTypes
  <1>2. /\ WaitingIds = [k \in 1..CmdUsed |-> PendingCommands[k].id]
        /\ AnswerIds = [k \in 1..CompUsed |-> PendingCompletions[k].id]
    BY <1>1 DEF WaitingIds, AnswerIds, Ids
  <1>3. /\ \A k \in 1..CmdUsed : PendingCommands[k].id \in Nat /\ PendingCommands[k].id < nextId
        /\ \A k \in 1..CompUsed : /\ PendingCompletions[k].id \in Nat
                                  /\ PendingCompletions[k].id < nextId
    BY DEF CmdqInv, CommandsKnown, CompletionsKnown, Commands, Completions
  <1>4. WaitingIds \in Seq(Nat) /\ Len(WaitingIds) = CmdUsed
    BY <1>1, <1>2, <1>3
  <1>5. AnswerIds \in Seq(Nat) /\ Len(AnswerIds) = CompUsed
    BY <1>1, <1>2, <1>3
  <1>6. QED
    BY <1>1, <1>2, <1>3, <1>4, <1>5

LEMMA IdsShapeNext ==
    CmdqInv' =>
        /\ WaitingIds' \in Seq(Nat) /\ Len(WaitingIds') = CmdUsed'
        /\ \A k \in 1..CmdUsed' : WaitingIds'[k] = PendingCommands'[k].id
        /\ AnswerIds' \in Seq(Nat) /\ Len(AnswerIds') = CompUsed'
        /\ \A k \in 1..CompUsed' : AnswerIds'[k] = PendingCompletions'[k].id
  <1>1. (CmdqInv =>
        /\ WaitingIds \in Seq(Nat) /\ Len(WaitingIds) = CmdUsed
        /\ \A k \in 1..CmdUsed : WaitingIds[k] = PendingCommands[k].id /\ WaitingIds[k] < nextId
        /\ AnswerIds \in Seq(Nat) /\ Len(AnswerIds) = CompUsed
        /\ \A k \in 1..CompUsed : AnswerIds[k] = PendingCompletions[k].id /\ AnswerIds[k] < nextId
        /\ CmdUsed \in 0..CmdDepth - 1 /\ CompUsed \in 0..CompDepth - 1
        /\ CmdUsed \in Nat /\ CompUsed \in Nat)'
    BY IdsShape, PTL
  <1>2. QED
    BY <1>1

LEMMA ChannelStateDef ==
    /\ WaitingIds = Ids(PendingCommands) /\ AnswerIds = Ids(PendingCompletions)
    /\ LastId = IF lastRead = NoEntry THEN NoEntry ELSE lastRead.id
  BY DEF WaitingIds, AnswerIds, LastId

\* The completions that wait are untouched when their ring is.
LEMMA AnswersUnchanged ==
    ASSUME UNCHANGED compVars
    PROVE  AnswerIds' = AnswerIds /\ CompUsed' = CompUsed
  BY PendingUnchanged DEF compVars, AnswerIds

LEMMA WaitingUnchanged ==
    ASSUME UNCHANGED cmdVars
    PROVE  WaitingIds' = WaitingIds
  BY PendingUnchanged DEF cmdVars, WaitingIds

LEMMA SubmitIsAccept ==
    ASSUME CmdqInv, CmdqInv', NEW tile, NEW kind \in KindArgs, NEW fenced \in BOOLEAN,
           Submit(tile, kind, fenced)
    PROVE  Channel!Accept
  <1> DEFINE e == [id |-> nextId, tile |-> tile, kind |-> kind, fenced |-> fenced]
             n == CmdUsed
  <1>0. RingsOK /\ ControlOK /\ CompletionsKnown
    BY CmdqInvParts
  <1>1. e \in Commands /\ e.id = nextId
    BY <1>0, CmdqConfigValid DEF Submit, Commands, CommandKinds, ControlOK
  <1>2. /\ n + 1 < CmdDepth
        /\ cmdRing' = [cmdRing EXCEPT ![cmdTail % CmdDepth] = e]
        /\ cmdTail' = Advanced(cmdTail) /\ cmdHead' = cmdHead
        /\ UNCHANGED <<compVars, lastRead>>
    BY DEF Submit
  <1> HIDE DEF e
  <1>3. /\ CmdUsed' = n + 1
        /\ \A k \in 1..n : PendingCommands'[k] = PendingCommands[k]
        /\ PendingCommands'[n + 1] = e
    BY <1>0, <1>1, <1>2, CommandPushed
  <1>4. /\ WaitingIds \in Seq(Nat) /\ Len(WaitingIds) = n /\ n \in Nat
        /\ \A k \in 1..n : WaitingIds[k] = PendingCommands[k].id /\ WaitingIds[k] < nextId
        /\ \A k \in 1..Len(AnswerIds) : AnswerIds[k] < nextId
        /\ WaitingIds' \in Seq(Nat) /\ Len(WaitingIds') = n + 1
        /\ \A k \in 1..n + 1 : WaitingIds'[k] = PendingCommands'[k].id
    BY <1>3, IdsShape, IdsShapeNext
  <1>5. /\ \A k \in 1..n : WaitingIds'[k] = WaitingIds[k]
        /\ WaitingIds'[n + 1] = nextId
    <2>1. n + 1 \in 1..n + 1 /\ \A k \in 1..n : k \in 1..n + 1
      BY <1>4
    <2>2. QED
      BY <1>1, <1>3, <1>4, <2>1
  <1> DEFINE v == WaitingIds'
  <1>6. /\ v \in Seq(Nat) /\ Len(v) = Len(WaitingIds) + 1 /\ v[Len(WaitingIds) + 1] = nextId
        /\ \A k \in 1..Len(WaitingIds) : v[k] = WaitingIds[k]
    BY <1>4, <1>5
  <1> HIDE DEF v
  <1>7. v = Append(WaitingIds, nextId)
    BY <1>4, <1>6, IsAppend
  <1>8. AnswerIds' = AnswerIds /\ LastId' = LastId
    BY <1>2, AnswersUnchanged DEF LastId
  <1>9. LastId # NoEntry => LastId < nextId
    BY <1>0 DEF LastId, CompletionsKnown
  <1>10. Len(WaitingIds) < CmdDepth - 1
    BY <1>2, <1>4, DepthTypes
  <1>11. /\ Len(WaitingIds) < CmdDepth - 1
         /\ Len(WaitingIds') = Len(WaitingIds) + 1
         /\ \A k \in 1..Len(WaitingIds) : WaitingIds[k] < WaitingIds'[Len(WaitingIds) + 1]
         /\ \A k \in 1..Len(AnswerIds) : AnswerIds[k] < WaitingIds'[Len(WaitingIds) + 1]
         /\ LastId # NoEntry => LastId < WaitingIds'[Len(WaitingIds) + 1]
         /\ WaitingIds' = Append(WaitingIds, WaitingIds'[Len(WaitingIds) + 1])
         /\ AnswerIds' = AnswerIds /\ LastId' = LastId
    BY <1>4, <1>6, <1>7, <1>8, <1>9, <1>10 DEF v
  <1>12. QED
    BY <1>11, Zenon DEF Channel!Accept, Channel!Younger, WaitingIds, AnswerIds, LastId

LEMMA DispatchIsExecute ==
    ASSUME CmdqInv, CmdqInv', DispatchOne
    PROVE  Channel!Execute
  <1> DEFINE c == NextCommand
             n == CmdUsed
             m == CompUsed
  <1>0. RingsOK /\ ControlOK
    BY CmdqInvParts
  <1>1. /\ n # 0 /\ cmdHead' = Advanced(cmdHead)
        /\ UNCHANGED <<cmdRing, cmdTail, nextId, hooked, lastRead>>
    BY DEF DispatchOne
  <1>2. c \in Commands /\ c = PendingCommands[1] /\ 1 \in 1..n
    BY <1>0, <1>1, OldestCommand DEF CmdqInv, CommandsKnown
  <1>3. PICK result \in PossibleResults(c.kind) : Answer(c, result) \/ Lose(c, result)
    BY DEF DispatchOne
  <1>4. result \in Results
    BY <1>2, <1>3, ResultTypes DEF Commands
  <1> HIDE DEF c
  <1>5. /\ CmdUsed' = n - 1
        /\ \A k \in 1..n - 1 : PendingCommands'[k] = PendingCommands[k + 1]
    BY <1>0, <1>1, CommandTaken
  <1>6. /\ WaitingIds \in Seq(Nat) /\ Len(WaitingIds) = n /\ n \in Nat
        /\ \A k \in 1..n : WaitingIds[k] = PendingCommands[k].id
        /\ WaitingIds' \in Seq(Nat) /\ Len(WaitingIds') = n - 1
        /\ \A k \in 1..n - 1 : WaitingIds'[k] = PendingCommands'[k].id
        /\ AnswerIds \in Seq(Nat) /\ Len(AnswerIds) = m /\ m \in Nat
        /\ \A k \in 1..m : AnswerIds[k] = PendingCompletions[k].id
    BY <1>5, IdsShape, IdsShapeNext
  <1> DEFINE w == WaitingIds'
  <1>7. /\ w \in Seq(Nat) /\ Len(WaitingIds) # 0 /\ Len(w) = Len(WaitingIds) - 1
        /\ \A k \in 1..Len(WaitingIds) - 1 : w[k] = WaitingIds[k + 1]
    <2>1. \A k \in 1..n - 1 : k + 1 \in 1..n
      BY <1>6
    <2>2. QED
      BY <1>1, <1>5, <1>6, <2>1
  <1> HIDE DEF w
  <1>8. WaitingIds # <<>> /\ Head(WaitingIds) = WaitingIds[1] /\ w = Tail(WaitingIds)
    BY <1>6, <1>7, IsTail
  <1>9. Head(WaitingIds) = c.id
    BY <1>2, <1>6, <1>8
  <1>10. LastId' = LastId
    BY <1>1 DEF LastId
  <1>11. AnswerIds' = IF Len(AnswerIds) < CompDepth - 1 THEN Append(AnswerIds, Head(WaitingIds))
                                                   ELSE AnswerIds
    <2>1. CASE Answer(c, result)
      <3>1. PICK e \in Completions :
                /\ e.id = c.id
                /\ m + 1 < CompDepth
                /\ CompUsed' = m + 1
                /\ \A k \in 1..m : PendingCompletions'[k] = PendingCompletions[k]
                /\ PendingCompletions'[m + 1] = e
        BY <1>2, <1>4, <2>1, AnswerPushes
      <3>2. /\ AnswerIds' \in Seq(Nat) /\ Len(AnswerIds') = m + 1
            /\ \A k \in 1..m + 1 : AnswerIds'[k] = PendingCompletions'[k].id
        BY <3>1, IdsShapeNext
      <3> DEFINE v == AnswerIds'
                 i == c.id
      <3>3. /\ v \in Seq(Nat) /\ Len(v) = Len(AnswerIds) + 1 /\ v[Len(AnswerIds) + 1] = i
            /\ \A k \in 1..Len(AnswerIds) : v[k] = AnswerIds[k]
        <4>1. m + 1 \in 1..m + 1 /\ \A k \in 1..m : k \in 1..m + 1
          BY <1>6
        <4>2. QED
          BY <1>6, <3>1, <3>2, <4>1
      <3> HIDE DEF v, i
      <3>4. v = Append(AnswerIds, i)
        BY <1>6, <3>3, IsAppend
      <3>5. Len(AnswerIds) < CompDepth - 1
        BY <1>6, <3>1, DepthTypes
      <3>6. QED
        BY <1>9, <3>4, <3>5 DEF v, i
    <2>2. CASE Lose(c, result)
      <3>1. AnswerIds' = AnswerIds /\ m + 1 >= CompDepth
        BY <2>2, AnswersUnchanged DEF Lose
      <3>2. ~ (Len(AnswerIds) < CompDepth - 1)
        BY <1>6, <3>1, DepthTypes
      <3>3. QED
        BY <3>1, <3>2
    <2>3. QED
      BY <1>3, <2>1, <2>2
  <1>12. QED
    BY <1>8, <1>10, <1>11, Zenon DEF Channel!Execute, WaitingIds, AnswerIds, LastId, w

LEMMA PollIsReadAnswer ==
    ASSUME CmdqInv, CmdqInv', PollCompletion
    PROVE  Channel!ReadAnswer
  <1> DEFINE m == CompUsed
  <1>0. RingsOK
    BY CmdqInvParts
  <1>1. /\ m # 0 /\ compHead' = Advanced(compHead)
        /\ lastRead' = PendingCompletions[1] /\ 1 \in 1..m
        /\ compRing' = compRing /\ compTail' = compTail
        /\ UNCHANGED cmdVars
    BY <1>0, OldestCompletion DEF PollCompletion
  <1>2. /\ CompUsed' = m - 1
        /\ \A k \in 1..m - 1 : PendingCompletions'[k] = PendingCompletions[k + 1]
    BY <1>0, <1>1, CompletionTaken
  <1>3. /\ AnswerIds \in Seq(Nat) /\ Len(AnswerIds) = m /\ m \in Nat
        /\ \A k \in 1..m : AnswerIds[k] = PendingCompletions[k].id
        /\ AnswerIds' \in Seq(Nat) /\ Len(AnswerIds') = m - 1
        /\ \A k \in 1..m - 1 : AnswerIds'[k] = PendingCompletions'[k].id
    BY <1>2, IdsShape, IdsShapeNext
  <1> DEFINE w == AnswerIds'
  <1>4. /\ w \in Seq(Nat) /\ Len(AnswerIds) # 0 /\ Len(w) = Len(AnswerIds) - 1
        /\ \A k \in 1..Len(AnswerIds) - 1 : w[k] = AnswerIds[k + 1]
    <2>1. \A k \in 1..m - 1 : k + 1 \in 1..m
      BY <1>3
    <2>2. QED
      BY <1>1, <1>2, <1>3, <2>1
  <1> HIDE DEF w
  <1>5. AnswerIds # <<>> /\ Head(AnswerIds) = AnswerIds[1] /\ w = Tail(AnswerIds)
    BY <1>3, <1>4, IsTail
  <1>6. LastId' = Head(AnswerIds)
    <2>1. lastRead' \in Completions
      BY <1>1 DEF CmdqInv, CompletionsKnown
    <2>2. lastRead' # NoEntry
      BY <2>1, NoEntryIsNone
    <2>3. LastId' = lastRead'.id
      BY <2>2 DEF LastId
    <2>4. QED
      BY <1>1, <1>3, <1>5, <2>3
  <1>7. WaitingIds' = WaitingIds
    BY <1>1, WaitingUnchanged
  <1>8. QED
    BY <1>5, <1>6, <1>7, Zenon DEF Channel!ReadAnswer, WaitingIds, AnswerIds, LastId, w

LEMMA QuietIsStutter ==
    ASSUME UNCHANGED <<cmdVars, compVars, lastRead>>
    PROVE  UNCHANGED Channel!channelVars
  <1>1. WaitingIds' = WaitingIds /\ AnswerIds' = AnswerIds /\ LastId' = LastId
    BY WaitingUnchanged, AnswersUnchanged DEF LastId
  <1>2. QED
    BY <1>1 DEF Channel!channelVars, WaitingIds, AnswerIds, LastId

LEMMA InitIsChannelInit == CmdqInit => Channel!ChannelInit
  <1> SUFFICES ASSUME CmdqInit
               PROVE  Channel!ChannelInit
    OBVIOUS
  <1>1. CmdUsed = 0 /\ CompUsed = 0
    <2>1. 0 - 0 = 0 /\ 0 % CmdDepth = 0 /\ 0 % CompDepth = 0
      BY ModSmall, DepthTypes
    <2>2. QED
      BY <2>1 DEF CmdqInit, CmdUsed, CompUsed
  <1>2. WaitingIds \in Seq(Nat) /\ Len(WaitingIds) = 0 /\ AnswerIds \in Seq(Nat) /\ Len(AnswerIds) = 0
    BY <1>1, CmdqInitInv, IdsShape
  <1>3. WaitingIds = <<>> /\ AnswerIds = <<>> /\ LastId = NoEntry
    BY <1>2 DEF LastId, CmdqInit
  <1>4. QED
    BY <1>3, Zenon DEF Channel!ChannelInit, WaitingIds, AnswerIds, LastId

LEMMA NextIsChannelNext ==
    CmdqInv /\ CmdqInv' /\ QueueStep =>
        [Channel!Accept \/ Channel!Execute \/ Channel!ReadAnswer]_(Channel!channelVars)
  <1> SUFFICES ASSUME CmdqInv, CmdqInv', QueueStep
               PROVE  \/ Channel!Accept \/ Channel!Execute \/ Channel!ReadAnswer
                      \/ UNCHANGED Channel!channelVars
    OBVIOUS
  <1>1. CASE \E tile : \E kind \in KindArgs, fenced \in BOOLEAN : Submit(tile, kind, fenced)
    BY <1>1, SubmitIsAccept
  <1>2. CASE DispatchOne
    BY <1>2, DispatchIsExecute
  <1>3. CASE PollCompletion
    BY <1>3, PollIsReadAnswer
  <1>4. CASE QuietStep
    <2>1. UNCHANGED <<cmdVars, compVars, lastRead>>
      BY <1>4, QuietSteps DEF QuietStep
    <2>2. QED
      BY <2>1, QuietIsStutter
  <1>5. CASE UNCHANGED cmdqVars
    BY <1>5, QuietIsStutter DEF cmdqVars, cmdVars, compVars
  <1>6. QED
    BY <1>1, <1>2, <1>3, <1>4, <1>5 DEF QueueStep

(***************************************************************************)
(* The theorems.                                                           *)
(***************************************************************************)

\* Slots in use hold commands and completions, with identifiers below the next
\* one, whatever the calls and wherever the indices wrap.
THEOREM QueueInductive == CmdqSpec => []CmdqInv
  BY CmdqInitInv, CmdqNextInv, StepKinds, PTL DEF CmdqSpec

\* No call submits a command or takes a completion without its being counted:
\* submitted commands wait, have completed, failed, or were lost to a full
\* completion ring (the counters of att1_aimu_cmdq_submit and _dispatch_one).
THEOREM EveryCommandCounted == CmdqSpec => []CommandsAccountedFor
  BY InitAccounts, NextAccounts, StepKinds, QueueInductive, PTL DEF CmdqSpec

\* A host that reads completions in order sees the fences rise one by one up to
\* fence_signaled; a lost completion signals none (write_completion before the
\* fence in att1_aimu_cmdq_dispatch_one).
THEOREM FencesInOrder == CmdqSpec => []FencesConsecutive
  <1>1. CmdqSpec => []FencesOrdered
    BY InitFences, NextFences, StepKinds, QueueInductive, PTL DEF CmdqSpec
  <1>2. QED
    BY <1>1, FencesAreConsecutive, QueueInductive, PTL

\* The two rings are a channel with depth - 1 places each way, which keeps the
\* order of submission and answers a command at most once, whatever index wraps
\* around (att1_aimu_cmdq_submit, _dispatch_one, _poll_completion).
THEOREM RingsImplementChannel == CmdqSpec => ImplementsChannel
  BY InitIsChannelInit, NextIsChannelNext, StepKinds, QueueInductive, PTL
     DEF CmdqSpec, ImplementsChannel, Channel!ChannelSpec
=============================================================================
