---------------------------- MODULE KVMMUProofs ----------------------------
(***************************************************************************)
(* The page table of the KV-MMU keeps its shape for every number of        *)
(* sessions, layers, pages, slots and positions.                           *)
(***************************************************************************)
EXTENDS KVMMU, WellFoundedInduction, TLAPS

(***************************************************************************)
(* Arithmetic of positions.                                                *)
(***************************************************************************)

\* Division splits a position into its page and its slot.
LEMMA DivMod ==
    ASSUME NEW p \in Nat, NEW d \in Nat \ {0}
    PROVE  /\ p \div d \in Nat
           /\ p % d \in 0..d - 1
           /\ p = (p \div d) * d + (p % d)
  BY SMT

\* A page and a slot are the page and the slot of one position.
LEMMA DivModUnique ==
    ASSUME NEW d \in Nat \ {0}, NEW g \in Nat, NEW t \in 0..d - 1
    PROVE  /\ g * d + t \in Nat
           /\ (g * d + t) \div d = g
           /\ (g * d + t) % d = t
  BY SMT

\* The position before one that is not the first of its page is in that page.
LEMMA DivModPred ==
    ASSUME NEW p \in Nat, NEW d \in Nat \ {0}, p % d > 0
    PROVE  p - 1 \in Nat /\ (p - 1) \div d = p \div d
  <1> DEFINE g == p \div d
             t == p % d
  <1>1. g \in Nat /\ t \in 0..d - 1 /\ p = g * d + t
    BY DivMod
  <1>2. p - 1 = g * d + (t - 1) /\ t - 1 \in 0..d - 1
    <2>1. g * d \in Nat
      BY <1>1
    <2>2. QED
      BY <1>1, <2>1
  <1>3. /\ g * d + (t - 1) \in Nat
        /\ (g * d + (t - 1)) \div d = g
    <2> HIDE DEF g, t
    <2>1. QED
      BY <1>1, <1>2, DivModUnique
  <1>4. QED
    BY <1>2, <1>3

\* A smaller position is on the same page or on an earlier one.
LEMMA DivMonotone ==
    ASSUME NEW p \in Nat, NEW q \in Nat, NEW d \in Nat \ {0}, q <= p
    PROVE  q \div d <= p \div d
  <1>1. /\ q = (q \div d) * d + (q % d)
        /\ p = (p \div d) * d + (p % d)
        /\ q \div d \in Nat /\ p \div d \in Nat
        /\ q % d \in 0..d - 1 /\ p % d \in 0..d - 1
    BY DivMod
  <1>2. QED
    BY <1>1, SMT

(***************************************************************************)
(* The first match of an upward search.                                    *)
(***************************************************************************)

LEMMA FirstIsLeast ==
    ASSUME NEW S, S \subseteq Nat, S # {}
    PROVE  First(S) \in S /\ \A j \in S : First(S) <= j
  <1> DEFINE R == OpToRel(<, Nat)
  <1>1. IsWellFoundedOn(R, Nat)
    BY NatLessThanWellFounded
  <1>2. PICK x \in S : \A y \in S : ~ (<<y, x>> \in R)
    <2> HIDE DEF R
    <2>1. QED
      BY <1>1, WFMin
  <1>3. ASSUME NEW y \in S
        PROVE  x <= y
    <2>1. <<y, x>> \notin R
      BY <1>2
    <2>2. ASSUME y < x
          PROVE  FALSE
      <3>1. <<y, x>> \in R
        BY <2>2 DEF OpToRel
      <3>2. QED
        BY <3>1, <2>1
    <2>3. QED
      BY <2>2
  <1>4. QED
    BY <1>3 DEF First

LEMMA FirstPage ==
    ASSUME NEW S \in SUBSET PageIndexes, S # {}
    PROVE  First(S) \in S
  <1>1. S \subseteq Nat
    BY ConfigValid DEF PageIndexes
  <1>2. QED
    BY <1>1, FirstIsLeast

LEMMA FirstSlot ==
    ASSUME NEW S \in SUBSET SessionSlots, S # {}
    PROVE  First(S) \in S
  <1>1. S \subseteq Nat
    BY ConfigValid DEF SessionSlots
  <1>2. QED
    BY <1>1, FirstIsLeast

(***************************************************************************)
(* Reading the page table.                                                 *)
(***************************************************************************)

\* When mappings are unique, a position's token is what the page mapped there
\* holds, whichever page the search meets first.
LEMMA TokenOfPage ==
    MappingUnique =>
        \A s, l, p : \A i \in FindPage(s, l, LogicalPage(p)) :
            Token(s, l, p) = pages[i].tokens[TokenInPage(p)]
  <1> SUFFICES ASSUME MappingUnique, NEW s, NEW l, NEW p,
                      NEW i \in FindPage(s, l, LogicalPage(p))
               PROVE  Token(s, l, p) = pages[i].tokens[TokenInPage(p)]
    OBVIOUS
  <1> DEFINE S == FindPage(s, l, LogicalPage(p))
  <1>1. S \in SUBSET PageIndexes /\ S # {}
    BY DEF FindPage
  <1>2. First(S) \in S
    BY <1>1, FirstPage
  <1>3. First(S) = i
    BY <1>2 DEF FindPage, MappingUnique
  <1>4. QED
    BY <1>1, <1>3 DEF Token

\* Where no page is mapped there is no token.
LEMMA TokenOfHole ==
    \A s, l, p : FindPage(s, l, LogicalPage(p)) = {} => Token(s, l, p) = Absent
  BY DEF Token

(***************************************************************************)
(* The inductive invariant.  PrefixClosed is what the code relies on; it   *)
(* is inductive only together with the uniqueness of mappings (an append   *)
(* writes the page that readers find), their ownership (a released page    *)
(* takes with it all positions of its session) and the shape of the        *)
(* records.                                                                *)
(***************************************************************************)
TableInv ==
    /\ SessionsUnique
    /\ MappingUnique
    /\ PagesOwned
    /\ PrefixClosed
    /\ NoEmptyPage
    /\ WithinPositions

TablesOK ==
    /\ sessions \in [SessionSlots -> SessionRecords]
    /\ pages \in [PageIndexes -> PageRecords]

IInv == TypeOK /\ TableInv

(* Types of what the actions build. *)

LEMMA ConstantTypes ==
    /\ PageTokens \in Nat \ {0}
    /\ MaxPositions \in Nat \ {0}
    /\ 0 \in Slots /\ 0 \in Layers /\ 0 \in LogicalPages /\ 0 \in SessionIds
    /\ PageIndexes \subseteq Nat /\ SessionSlots \subseteq Nat
    /\ Slots \subseteq Nat /\ LogicalPages \subseteq Nat
  <1>1. MaxPositions - 1 \in Nat
    BY ConfigValid
  <1>2. LogicalPage(MaxPositions - 1) \in Nat
    BY <1>1, DivMod, ConfigValid DEF LogicalPage
  <1>3. QED
    BY <1>2, ConfigValid DEF Slots, Layers, LogicalPages, PageIndexes, SessionSlots

\* The page and the slot of a valid position.
LEMMA PositionTypes ==
    ASSUME NEW p \in Nat, p < MaxPositions
    PROVE  /\ LogicalPage(p) \in LogicalPages
           /\ TokenInPage(p) \in Slots
           /\ p = LogicalPage(p) * PageTokens + TokenInPage(p)
  <1>1. MaxPositions - 1 \in Nat /\ p <= MaxPositions - 1
    BY ConfigValid
  <1>2. p \div PageTokens <= (MaxPositions - 1) \div PageTokens
    BY <1>1, DivMonotone, ConfigValid
  <1>3. /\ p \div PageTokens \in Nat
        /\ (MaxPositions - 1) \div PageTokens \in Nat
        /\ p % PageTokens \in Slots
        /\ p = (p \div PageTokens) * PageTokens + (p % PageTokens)
    BY <1>1, DivMod, ConfigValid DEF Slots
  <1>4. QED
    BY <1>2, <1>3 DEF LogicalPages, LogicalPage, TokenInPage

LEMMA ZeroTypes ==
    ZeroSession \in SessionRecords /\ ZeroPage \in PageRecords
  BY ConstantTypes DEF ZeroSession, SessionRecords, ZeroPage, PageRecords

\* A page in use, seen at the position of one of its slots.
LEMMA PageOfSlot ==
    ASSUME pages \in [PageIndexes -> PageRecords],
           NEW i \in PageIndexes, pages[i].active, NEW t \in Slots
    PROVE  LET p == pages[i].logical * PageTokens + t
           IN  /\ p \in Nat
               /\ LogicalPage(p) = pages[i].logical
               /\ TokenInPage(p) = t
               /\ i \in FindPage(pages[i].session, pages[i].layer, LogicalPage(p))
  <1>1. pages[i].logical \in Nat
    BY ConstantTypes DEF PageRecords
  <1>2. QED
    BY <1>1, DivModUnique, ConstantTypes DEF LogicalPage, TokenInPage, FindPage, Slots

(***************************************************************************)
(* Init.                                                                   *)
(***************************************************************************)
LEMMA InitIInv == Init => IInv
  <1> SUFFICES ASSUME Init
               PROVE  IInv
    OBVIOUS
  <1>1. TypeOK
    BY ZeroTypes DEF Init, TypeOK, ZeroCounters, CounterRecords, Operations, Statuses
  <1>2. \A i \in PageIndexes : ~ pages[i].active
    BY DEF Init, ZeroPage
  <1>3. \A i \in SessionSlots : ~ sessions[i].active
    BY DEF Init, ZeroSession
  <1>4. TableInv
    BY <1>2, <1>3 DEF TableInv, SessionsUnique, MappingUnique, PagesOwned,
                      PrefixClosed, NoEmptyPage, WithinPositions
  <1>5. QED
    BY <1>1, <1>4 DEF IInv

(***************************************************************************)
(* Steps that leave both tables alone: every query and every refusal.      *)
(***************************************************************************)
LEMMA TablesUnchanged ==
    ASSUME TablesOK, TableInv, UNCHANGED <<sessions, pages>>
    PROVE  TablesOK' /\ TableInv'
  <1>1. sessions' = sessions /\ pages' = pages
    OBVIOUS
  <1>2. \A s : FindSession(s)' = FindSession(s)
    BY <1>1 DEF FindSession
  <1>3. \A s, l, p : Token(s, l, p)' = Token(s, l, p)
    BY <1>1 DEF Token, FindPage
  <1>4. TablesOK' /\ SessionsUnique' /\ MappingUnique' /\ NoEmptyPage' /\ WithinPositions'
    BY <1>1 DEF TablesOK, TableInv, SessionsUnique, MappingUnique, NoEmptyPage,
                WithinPositions
  <1>5. PagesOwned'
    BY <1>1, <1>2 DEF TableInv, PagesOwned
  <1>6. PrefixClosed'
    BY <1>1, <1>3 DEF TableInv, PrefixClosed, TokenPresent
  <1>7. QED
    BY <1>4, <1>5, <1>6 DEF TableInv

(***************************************************************************)
(* The session table.                                                      *)
(***************************************************************************)
LEMMA CreateSessionTables ==
    ASSUME TablesOK, TableInv, NEW s \in SessionIds, CreateSession(s)
    PROVE  TablesOK' /\ TableInv'
  <1> DEFINE f == First(FreeSessionSlots)
  <1>1. f \in SessionSlots /\ ~ sessions[f].active
    BY FirstSlot DEF CreateSession, FreeSessionSlots
  <1>2. /\ sessions' = [sessions EXCEPT ![f] = [active |-> TRUE, id |-> s]]
        /\ pages' = pages
        /\ FindSession(s) = {}
    BY DEF CreateSession
  <1> HIDE DEF f
  <1>3. TablesOK'
    BY <1>1, <1>2 DEF TablesOK, SessionRecords
  <1>4. SessionsUnique'
    BY <1>1, <1>2 DEF TableInv, SessionsUnique, FindSession, TablesOK
  <1>5. PagesOwned'
    <2> SUFFICES ASSUME NEW i \in PageIndexes, pages[i].active
                 PROVE  FindSession(pages[i].session)' # {}
      BY <1>2 DEF PagesOwned
    <2>1. PICK j \in SessionSlots : sessions[j].active /\ sessions[j].id = pages[i].session
      BY DEF TableInv, PagesOwned, FindSession
    <2>2. j # f
      BY <2>1, <1>1
    <2>3. sessions'[j] = sessions[j]
      BY <2>2, <1>2 DEF TablesOK
    <2>4. j \in FindSession(pages[i].session)'
      BY <2>1, <2>3, <1>2 DEF FindSession
    <2>5. QED
      BY <2>4
  <1>6. \A s2, l, p : Token(s2, l, p)' = Token(s2, l, p)
    BY <1>2 DEF Token, FindPage
  <1>7. MappingUnique' /\ NoEmptyPage' /\ WithinPositions' /\ PrefixClosed'
    BY <1>2, <1>6 DEF TableInv, MappingUnique, NoEmptyPage, WithinPositions,
                      PrefixClosed, TokenPresent
  <1>8. QED
    BY <1>3, <1>4, <1>5, <1>7 DEF TableInv

\* Destroying a session takes no token of another one.
LEMMA DestroySessionTokens ==
    ASSUME NEW s, DestroySession(s), NEW x, NEW l, NEW p, x # s
    PROVE  Token(x, l, p)' = Token(x, l, p)
  <1>1. pages' = [i \in PageIndexes |->
                    IF pages[i].active /\ pages[i].session = s
                    THEN ZeroPage ELSE pages[i]]
    BY DEF DestroySession
  <1>2. \A i \in PageIndexes :
            /\ pages'[i].active => pages'[i] = pages[i]
            /\ pages[i].session # s => pages'[i] = pages[i]
            /\ pages'[i].active => pages[i].session # s
    BY <1>1 DEF ZeroPage
  <1> DEFINE S == FindPage(x, l, LogicalPage(p))
  <1>3. S' = S
    BY <1>2 DEF FindPage
  <1>4. \A i \in S : pages'[i] = pages[i]
    BY <1>2 DEF FindPage
  <1>5. ASSUME S # {}
        PROVE  First(S) \in S
    <2>1. S \in SUBSET PageIndexes
      BY DEF FindPage
    <2> HIDE DEF S
    <2>2. QED
      BY <2>1, <1>5, FirstPage
  <1>6. QED
    BY <1>3, <1>4, <1>5 DEF Token

LEMMA DestroySessionTables ==
    ASSUME TablesOK, TableInv, NEW s \in SessionIds, DestroySession(s)
    PROVE  TablesOK' /\ TableInv'
  <1> DEFINE f == First(FindSession(s))
  <1>1. f \in SessionSlots /\ sessions[f].active /\ sessions[f].id = s
    <2>1. FindSession(s) \in SUBSET SessionSlots /\ FindSession(s) # {}
      BY DEF DestroySession, FindSession
    <2>2. f \in FindSession(s)
      BY <2>1, FirstSlot
    <2>3. QED
      BY <2>2 DEF FindSession
  <1>2. /\ sessions' = [sessions EXCEPT ![f] = ZeroSession]
        /\ pages' = [i \in PageIndexes |->
                        IF pages[i].active /\ pages[i].session = s
                        THEN ZeroPage ELSE pages[i]]
    BY DEF DestroySession
  <1> HIDE DEF f
  <1>3. TablesOK'
    BY <1>1, <1>2, ZeroTypes DEF TablesOK
  <1>4. SessionsUnique'
    BY <1>1, <1>2 DEF TableInv, SessionsUnique, TablesOK, ZeroSession
  <1>5. \A i \in PageIndexes :
            pages'[i].active =>
                /\ pages'[i] = pages[i]
                /\ pages[i].active
                /\ pages[i].session # s
    BY <1>2 DEF ZeroPage
  <1>6. \A i \in PageIndexes :
            pages[i].active /\ pages[i].session # s => pages'[i] = pages[i]
    BY <1>2
  <1>7. PagesOwned'
    <2> SUFFICES ASSUME NEW i \in PageIndexes, pages'[i].active
                 PROVE  FindSession(pages[i].session)' # {}
      BY <1>5 DEF PagesOwned
    <2>1. PICK j \in SessionSlots : sessions[j].active /\ sessions[j].id = pages[i].session
      BY <1>5 DEF TableInv, PagesOwned, FindSession
    <2>2. j # f
      BY <2>1, <1>1, <1>5
    <2>3. sessions'[j] = sessions[j]
      BY <2>2, <1>2 DEF TablesOK
    <2>4. j \in FindSession(pages[i].session)'
      BY <2>1, <2>3, <1>5 DEF FindSession
    <2>5. QED
      BY <2>4
  <1>8. MappingUnique' /\ NoEmptyPage' /\ WithinPositions'
    BY <1>5 DEF TableInv, MappingUnique, NoEmptyPage, WithinPositions
  <1>9. ASSUME NEW s2, NEW l, NEW p, s2 # s
        PROVE  Token(s2, l, p)' = Token(s2, l, p)
    BY <1>9, DestroySessionTokens
  <1>10. PrefixClosed'
    BY <1>5, <1>9 DEF TableInv, PrefixClosed, TokenPresent
  <1>11. QED
    BY <1>3, <1>4, <1>7, <1>8, <1>10 DEF TableInv

(***************************************************************************)
(* The page table.  Both successful appends write one slot of one page:    *)
(* the page mapped at the position, or a free one when none is mapped.     *)
(***************************************************************************)
LEMMA TokenOfPageNext ==
    (MappingUnique =>
        \A s, l, p : \A i \in FindPage(s, l, LogicalPage(p)) :
            Token(s, l, p) = pages[i].tokens[TokenInPage(p)])'
  BY TokenOfPage, PTL

\* The effect of writing token v at a position through page f, whose slots
\* become toks.
Writes(s, l, p, v, f, toks) ==
    /\ FindSession(s) # {} /\ l \in Layers
    /\ p \in Nat /\ p < MaxPositions /\ IsNextPosition(s, l, p)
    /\ f \in PageIndexes /\ toks \in [Slots -> Payloads \cup {Absent}]
    /\ \/ f \in FindPage(s, l, LogicalPage(p))
       \/ FindPage(s, l, LogicalPage(p)) = {} /\ ~ pages[f].active
    /\ toks[TokenInPage(p)] = v
    /\ \A u \in Slots \ {TokenInPage(p)} :
          toks[u] = IF pages[f].active THEN pages[f].tokens[u] ELSE Absent
    /\ pages' \in [PageIndexes -> PageRecords]
    /\ pages'[f].active /\ pages'[f].session = s /\ pages'[f].layer = l
    /\ pages'[f].logical = LogicalPage(p) /\ pages'[f].tokens = toks
    /\ \A i \in PageIndexes \ {f} : pages'[i] = pages[i]
    /\ sessions' = sessions

LEMMA WriteTables ==
    ASSUME TablesOK, TableInv, NEW s \in SessionIds, NEW l, NEW p, NEW v \in Payloads,
           NEW f, NEW toks, Writes(s, l, p, v, f, toks)
    PROVE  TablesOK' /\ TableInv'
  <1> DEFINE g == LogicalPage(p)
             t == TokenInPage(p)
  <1> USE DEF Writes
  <1>0. /\ p \in Nat /\ l \in Layers /\ f \in PageIndexes /\ sessions' = sessions
        /\ toks \in [Slots -> Payloads \cup {Absent}]
    OBVIOUS
  <1>1. g \in LogicalPages /\ t \in Slots /\ p = g * PageTokens + t
    BY PositionTypes
  <1>2. v # Absent
    BY ConfigValid
  <1>3. /\ pages'[f].active /\ pages'[f].session = s /\ pages'[f].layer = l
        /\ pages'[f].logical = g /\ pages'[f].tokens = toks
        /\ \A i \in PageIndexes \ {f} : pages'[i] = pages[i]
    OBVIOUS
  <1>4. toks[t] = v
    OBVIOUS
  <1>5. pages[f].active =>
            /\ pages[f].session = s /\ pages[f].layer = l /\ pages[f].logical = g
            /\ \A u \in Slots : u # t => toks[u] = pages[f].tokens[u]
    BY DEF FindPage
  <1>6. ~ pages[f].active =>
            /\ FindPage(s, l, g) = {}
            /\ \A u \in Slots : u # t => toks[u] = Absent
    BY DEF FindPage
  <1>7. TablesOK'
    BY DEF TablesOK
  <1> HIDE DEF g, t
  <1>8. SessionsUnique'
    BY DEF TableInv, SessionsUnique
  <1>9. MappingUnique'
    BY <1>3, <1>5, <1>6 DEF TableInv, MappingUnique, FindPage
  <1>10. PagesOwned'
    <2>1. \A x : FindSession(x)' = FindSession(x)
      BY DEF FindSession
    <2>2. ASSUME NEW i \in PageIndexes, pages'[i].active
          PROVE  FindSession(pages'[i].session) # {}
      BY <1>3, <2>2 DEF TableInv, PagesOwned
    <2>3. QED
      BY <2>1, <2>2 DEF PagesOwned
  <1>11. WithinPositions'
    BY <1>1, <1>3, <1>5, <1>6 DEF TableInv, WithinPositions
  <1>12. NoEmptyPage'
    <2>1. CASE pages[f].active
      BY <1>2, <1>3, <1>4, <1>5, <2>1, ConstantTypes DEF TableInv, NoEmptyPage
    <2>2. CASE ~ pages[f].active
      <3>1. t = 0
        <4>1. SUFFICES ASSUME t # 0
                       PROVE  FALSE
          OBVIOUS
        <4>2. p % PageTokens > 0
          BY <4>1, <1>1, ConstantTypes DEF t, TokenInPage, Slots
        <4>3. p - 1 \in Nat /\ LogicalPage(p - 1) = g
          BY <4>2, DivModPred, ConstantTypes DEF g, LogicalPage
        <4>4. TokenPresent(s, l, p - 1)
          BY <4>3 DEF IsNextPosition
        <4>5. QED
          BY <4>3, <4>4, <1>6, <2>2, TokenOfHole DEF TokenPresent
      <3>2. QED
        BY <3>1, <1>2, <1>3, <1>4 DEF TableInv, NoEmptyPage
    <2>3. QED
      BY <2>1, <2>2
  <1>13. ASSUME NEW x, NEW y, NEW q \in Nat, TokenPresent(x, y, q)
         PROVE  TokenPresent(x, y, q)'
    <2>1. PICK i \in FindPage(x, y, LogicalPage(q)) :
              pages[i].tokens[TokenInPage(q)] # Absent
      <3>1. FindPage(x, y, LogicalPage(q)) # {}
        BY <1>13, TokenOfHole DEF TokenPresent
      <3>2. QED
        BY <3>1, <1>13, TokenOfPage DEF TokenPresent, TableInv
    <2>2. TokenInPage(q) \in Slots
      BY DivMod, ConstantTypes DEF TokenInPage, Slots
    <2>3. i \in FindPage(x, y, LogicalPage(q))'
      BY <2>1, <1>3, <1>5 DEF FindPage
    <2>4. pages'[i].tokens[TokenInPage(q)] # Absent
      BY <2>1, <2>2, <1>2, <1>3, <1>4, <1>5 DEF FindPage
    <2>5. QED
      BY <2>3, <2>4, <1>9, TokenOfPageNext DEF TokenPresent
  <1>14. PrefixClosed'
    <2> SUFFICES ASSUME NEW i \in PageIndexes, NEW u \in Slots,
                        pages'[i].active, pages'[i].tokens[u] # Absent,
                        NEW q \in 0..pages'[i].logical * PageTokens + u - 1
                 PROVE  TokenPresent(pages[i].session, pages[i].layer, q)'
      BY DEF PrefixClosed
    <2>0. q \in Nat
      OBVIOUS
    <2>1. CASE i = f /\ u = t
      <3>1. q \in 0..p - 1
        BY <2>1, <1>1, <1>3, ConstantTypes
      <3>2. TokenPresent(s, l, q)
        BY <3>1 DEF IsNextPosition
      <3>3. TokenPresent(s, l, q)'
        BY <3>2, <2>0, <1>13
      <3>4. QED
        BY <3>3, <2>1, <1>3
    <2>2. CASE ~ (i = f /\ u = t)
      <3>1. /\ pages[i].active /\ pages[i].tokens[u] # Absent
            /\ pages'[i].session = pages[i].session
            /\ pages'[i].layer = pages[i].layer
            /\ pages'[i].logical = pages[i].logical
        BY <2>2, <1>3, <1>5, <1>6
      <3>2. TokenPresent(pages[i].session, pages[i].layer, q)
        BY <3>1 DEF TableInv, PrefixClosed
      <3>3. \A a, b : TokenPresent(a, b, q) => TokenPresent(a, b, q)'
        BY <2>0, <1>13
      <3>4. QED
        BY <3>1, <3>2, <3>3
    <2>3. QED
      BY <2>1, <2>2
  <1>15. QED
    BY <1>7, <1>8, <1>9, <1>10, <1>11, <1>12, <1>14 DEF TableInv

\* What a successful append has checked.
LEMMA AppendChecked ==
    ASSUME NEW s, NEW l \in LayerArgs, NEW p \in PositionArgs,
           AppendStatus(s, l, p, FALSE) = "OK"
    PROVE  /\ FindSession(s) # {}
           /\ l \in Layers
           /\ p \in Nat /\ p < MaxPositions
           /\ IsNextPosition(s, l, p)
  <1>1. p \in Nat /\ l \in Nat /\ NumLayers \in Nat /\ MaxPositions \in Nat
    BY ConfigValid, ArgumentsAreSizes DEF LayerArgs, Size
  <1>2. /\ AddressStatus(s, l) = "OK"
        /\ PositionStatus(p) = "OK"
        /\ IsNextPosition(s, l, p)
    BY DEF AppendStatus, Then, NullStatus, LocationStatus
  <1>3. QED
    BY <1>1, <1>2 DEF AddressStatus, PositionStatus, Layers

LEMMA AppendToPageWrites ==
    ASSUME TablesOK, TableInv, NEW s \in SessionIds, NEW l \in LayerArgs,
           NEW p \in PositionArgs, NEW v \in Payloads, AppendToPage(s, l, p, v)
    PROVE  \E i, a : Writes(s, l, p, v, i, a)
  <1> DEFINE S == FindPage(s, l, LogicalPage(p))
             f == First(S)
             t == TokenInPage(p)
             toks == [pages[f].tokens EXCEPT ![t] = v]
  <1>1. /\ FindSession(s) # {} /\ l \in Layers
        /\ p \in Nat /\ p < MaxPositions /\ IsNextPosition(s, l, p)
    BY AppendChecked DEF AppendToPage
  <1>2. S \in SUBSET PageIndexes /\ S # {}
    BY DEF AppendToPage, FindPage
  <1>3. f \in S
    BY <1>2, FirstPage
  <1>4. /\ pages' = [pages EXCEPT ![f].tokens[t] = v]
        /\ sessions' = sessions
    BY DEF AppendToPage
  <1>5. /\ f \in PageIndexes /\ pages[f] \in PageRecords
        /\ pages[f].active /\ pages[f].session = s /\ pages[f].layer = l
        /\ pages[f].logical = LogicalPage(p)
    BY <1>3 DEF TablesOK, FindPage
  <1>6. t \in Slots
    BY <1>1, PositionTypes
  <1> HIDE DEF f, t, S
  <1>7. /\ toks \in [Slots -> Payloads \cup {Absent}]
        /\ toks[t] = v
        /\ \A u \in Slots \ {t} : toks[u] = pages[f].tokens[u]
    BY <1>5, <1>6 DEF PageRecords
  <1>8. /\ pages' \in [PageIndexes -> PageRecords]
        /\ pages'[f].active /\ pages'[f].session = s /\ pages'[f].layer = l
        /\ pages'[f].logical = LogicalPage(p) /\ pages'[f].tokens = toks
        /\ \A i \in PageIndexes \ {f} : pages'[i] = pages[i]
    BY <1>4, <1>5, <1>7 DEF TablesOK, PageRecords
  <1> HIDE DEF toks
  <1>9. f \in FindPage(s, l, LogicalPage(p))
    BY <1>3 DEF S
  <1>10. /\ toks[TokenInPage(p)] = v
         /\ \A u \in Slots \ {TokenInPage(p)} :
               toks[u] = IF pages[f].active THEN pages[f].tokens[u] ELSE Absent
    BY <1>5, <1>7 DEF t
  <1>11. sessions' = sessions
    BY <1>4
  <1>12. Writes(s, l, p, v, f, toks)
    BY <1>1, <1>5, <1>7, <1>8, <1>9, <1>10, <1>11 DEF Writes
  <1>13. QED
    BY <1>12

LEMMA AppendNewPageWrites ==
    ASSUME TablesOK, TableInv, NEW s \in SessionIds, NEW l \in LayerArgs,
           NEW p \in PositionArgs, NEW v \in Payloads, AppendNewPage(s, l, p, v)
    PROVE  \E i, a : Writes(s, l, p, v, i, a)
  <1> DEFINE f == First(FreePages)
             t == TokenInPage(p)
             toks == [u \in Slots |-> IF u = t THEN v ELSE Absent]
  <1>1. /\ FindSession(s) # {} /\ l \in Layers
        /\ p \in Nat /\ p < MaxPositions /\ IsNextPosition(s, l, p)
    BY AppendChecked DEF AppendNewPage
  <1>2. FreePages \in SUBSET PageIndexes /\ FreePages # {}
    BY DEF AppendNewPage, FreePages
  <1>3. f \in PageIndexes /\ ~ pages[f].active
    <2>1. f \in FreePages
      BY <1>2, FirstPage
    <2>2. QED
      BY <2>1 DEF FreePages
  <1>4. /\ pages' = [pages EXCEPT ![f] = [active |-> TRUE, session |-> s, layer |-> l,
                                          logical |-> LogicalPage(p), tokens |-> toks]]
        /\ sessions' = sessions
        /\ FindPage(s, l, LogicalPage(p)) = {}
    BY DEF AppendNewPage
  <1>5. t \in Slots
    BY <1>1, PositionTypes
  <1>6. /\ toks \in [Slots -> Payloads \cup {Absent}]
        /\ toks[t] = v
        /\ \A u \in Slots \ {t} : toks[u] = Absent
    BY <1>5
  <1> HIDE DEF f, toks
  <1>7. LogicalPage(p) \in LogicalPages
    BY <1>1, PositionTypes
  <1>8. /\ pages' \in [PageIndexes -> PageRecords]
        /\ pages'[f].active /\ pages'[f].session = s /\ pages'[f].layer = l
        /\ pages'[f].logical = LogicalPage(p) /\ pages'[f].tokens = toks
        /\ \A i \in PageIndexes \ {f} : pages'[i] = pages[i]
    <2>1. [active |-> TRUE, session |-> s, layer |-> l,
           logical |-> LogicalPage(p), tokens |-> toks] \in PageRecords
      BY <1>1, <1>6, <1>7 DEF PageRecords
    <2>2. QED
      BY <2>1, <1>3, <1>4 DEF TablesOK
  <1>9. Writes(s, l, p, v, f, toks)
    BY <1>1, <1>3, <1>4, <1>6, <1>8 DEF Writes
  <1>10. QED
    BY <1>9

(***************************************************************************)
(* Counters and replies.                                                   *)
(***************************************************************************)
RestOK ==
    /\ counters \in CounterRecords
    /\ reply.op \in Operations
    /\ reply.status \in Statuses

\* The scan of a range read stops at the first position without a token, or at
\* the end of the range.
LEMMA ReadableFromStops ==
    ASSUME NEW s, NEW l, NEW from \in Nat, NEW n \in Nat
    PROVE  LET k == ReadableFrom(s, l, from, n)
           IN  /\ k \in 0..n
               /\ \A i \in 0..k - 1 : TokenPresent(s, l, from + i)
               /\ k < n => ~ TokenPresent(s, l, from + k)
  <1> DEFINE Stop(k) == /\ \A i \in 0..k - 1 : TokenPresent(s, l, from + i)
                        /\ k < n => ~ TokenPresent(s, l, from + k)
             S == {k \in 0..n : k < n => ~ TokenPresent(s, l, from + k)}
             m == First(S)
  <1>1. n \in S /\ S \subseteq Nat
    OBVIOUS
  <1>2. m \in S /\ \A j \in S : m <= j
    <2> HIDE DEF S
    <2>1. QED
      BY <1>1, FirstIsLeast
  <1>3. ASSUME NEW i \in 0..m - 1
        PROVE  TokenPresent(s, l, from + i)
    <2>1. i \in 0..n /\ i < n /\ ~ (m <= i)
      BY <1>2
    <2>2. i \notin S
      BY <2>1, <1>2
    <2>3. QED
      BY <2>1, <2>2
  <1>4. m \in 0..n /\ Stop(m)
    BY <1>2, <1>3
  <1>5. ReadableFrom(s, l, from, n) = CHOOSE k \in 0..n : Stop(k)
    BY DEF ReadableFrom
  <1> DEFINE r == ReadableFrom(s, l, from, n)
  <1>6. r \in 0..n /\ Stop(r)
    <2> HIDE DEF Stop, m, r
    <2>1. \E k \in 0..n : Stop(k)
      BY <1>4
    <2>2. r = CHOOSE k \in 0..n : Stop(k)
      BY <1>5 DEF r
    <2>3. QED
      BY <2>1, <2>2
  <1>7. QED
    BY <1>6

LEMMA ReadableFromType ==
    ASSUME NEW s, NEW l, NEW from \in Nat, NEW n \in Nat
    PROVE  ReadableFrom(s, l, from, n) \in 0..n
  BY ReadableFromStops

LEMMA StatusTypes ==
    /\ \A s, l : AddressStatus(s, l) \in Statuses
    /\ \A p : PositionStatus(p) \in Statuses
    /\ \A from, n : RangeStatus(from, n) \in Statuses
    /\ \A h : HeadStatus(h) \in Statuses
    /\ \A b : NullStatus(b) \in Statuses
    /\ \A a, b \in Statuses : Then(a, b) \in Statuses
  <1>1. \A s, l : AddressStatus(s, l) \in Statuses
    <2> SUFFICES ASSUME NEW s, NEW l
                 PROVE  AddressStatus(s, l) \in Statuses
      OBVIOUS
    <2>1. CASE FindSession(s) = {}
      BY <2>1 DEF AddressStatus, Statuses
    <2>2. CASE FindSession(s) # {} /\ l >= NumLayers
      BY <2>2 DEF AddressStatus, Statuses
    <2>3. CASE FindSession(s) # {} /\ ~ (l >= NumLayers)
      BY <2>3 DEF AddressStatus, Statuses
    <2>4. QED
      BY <2>1, <2>2, <2>3
  <1>2. QED
    BY <1>1 DEF PositionStatus, RangeStatus, HeadStatus, NullStatus, Then, Statuses

\* A refusal counts one error.
LEMMA RejectRest ==
    ASSUME RestOK, NEW op \in Operations, NEW addr, NEW status \in Statuses,
           Reject(op, addr, status)
    PROVE  RestOK' /\ UNCHANGED <<sessions, pages>>
  BY DEF RestOK, Reject, Answer, CounterRecords

LEMMA ReadLoopRest ==
    ASSUME RestOK, NEW op \in Operations, NEW s, NEW l, NEW from \in Nat, NEW n \in Nat,
           NEW copied \in Nat, ReadLoop(op, s, l, from, n, copied)
    PROVE  RestOK' /\ UNCHANGED <<sessions, pages>>
  <1> DEFINE k == ReadableFrom(s, l, from, n)
             outside == k < n /\ from + k >= MaxPositions
             status == reply'.status
  <1>1. k \in Nat
    BY ReadableFromType
  <1>2. counters' \in CounterRecords
    <2>1. \A c : OneIf(c) \in Nat
      BY DEF OneIf
    <2> DEFINE failed == k < n
               mapped == FindPage(s, l, LogicalPage(from + k)) # {}
               a == counters.hits + k + OneIf(failed /\ ~ outside /\ mapped)
               b == counters.misses + OneIf(failed /\ ~ outside /\ ~ mapped)
               c == counters.reads + k
               d == IF failed THEN counters.copies ELSE counters.copies + copied
               e == counters.errors + OneIf(failed)
    <2>2. counters' = [counters EXCEPT !.hits = a, !.misses = b, !.reads = c,
                                       !.copies = d, !.errors = e]
      BY DEF ReadLoop
    <2>3. a \in Nat /\ b \in Nat /\ c \in Nat /\ d \in Nat /\ e \in Nat
      <3> HIDE DEF k, failed, mapped, outside
      <3>1. QED
        BY <1>1, <2>1 DEF RestOK, CounterRecords
    <2> HIDE DEF a, b, c, d, e
    <2>4. QED
      BY <2>2, <2>3 DEF RestOK, CounterRecords
  <1>3. reply'.op = op
    BY DEF ReadLoop, Answer
  <1>4. reply'.status \in Statuses
    <2>1. reply'.status = CASE outside -> "INVALID_ARG"
                            [] k < n /\ ~ outside -> "NOT_FOUND"
                            [] OTHER -> "OK"
      BY DEF ReadLoop, Answer
    <2> HIDE DEF outside, k, status
    <2>2. CASE outside
      <3>1. reply'.status = "INVALID_ARG"
        BY <2>1, <2>2
      <3>2. QED
        BY <3>1 DEF Statuses
    <2>3. CASE ~ outside /\ k < n
      BY <2>1, <2>3 DEF Statuses
    <2>4. CASE ~ outside /\ ~ (k < n)
      BY <2>1, <2>4 DEF Statuses
    <2>5. QED
      BY <2>2, <2>3, <2>4
  <1>5. UNCHANGED <<sessions, pages>>
    BY DEF ReadLoop
  <1>6. QED
    BY <1>2, <1>3, <1>4, <1>5 DEF RestOK

(***************************************************************************)
(* One lemma per group of actions.                                         *)
(***************************************************************************)
LEMMA IInvParts == IInv <=> TablesOK /\ RestOK /\ TableInv
  BY DEF IInv, TypeOK, TablesOK, RestOK

LEMMA SameTables ==
    ASSUME IInv, RestOK', UNCHANGED <<sessions, pages>>
    PROVE  IInv'
  <1>1. TablesOK' /\ TableInv'
    BY IInvParts, TablesUnchanged
  <1>2. QED
    BY <1>1 DEF IInv, TypeOK, TablesOK, RestOK

LEMMA SessionStepInv ==
    ASSUME IInv, NEW s \in SessionIds, SessionStep(s)
    PROVE  IInv'
  <1>0. TablesOK /\ RestOK /\ TableInv
    BY IInvParts
  <1>1. CASE CreateSession(s)
    <2>1. TablesOK' /\ TableInv'
      BY <1>0, <1>1, CreateSessionTables
    <2>2. RestOK'
      BY <1>0, <1>1 DEF CreateSession, Answer, RestOK, Operations, Statuses
    <2>3. QED
      BY <2>1, <2>2 DEF IInv, TypeOK, TablesOK, RestOK
  <1>2. CASE CreateSessionRejected(s)
    <2> DEFINE status == CASE FindSession(s) # {} -> "STATE"
                           [] FindSession(s) = {} /\ FreeSessionSlots = {} -> "OOM"
                           [] OTHER -> "OK"
    <2>1. status \in Statuses
      <3>1. CASE FindSession(s) # {}
        BY <3>1 DEF Statuses
      <3>2. CASE FindSession(s) = {} /\ FreeSessionSlots = {}
        BY <3>2 DEF Statuses
      <3>3. CASE FindSession(s) = {} /\ FreeSessionSlots # {}
        BY <3>3 DEF Statuses
      <3>4. QED
        BY <3>1, <3>2, <3>3
    <2>2. Reject("create", <<>>, status)
      BY <1>2 DEF CreateSessionRejected
    <2> HIDE DEF status
    <2>3. QED
      BY <1>0, <2>1, <2>2, RejectRest, SameTables DEF Operations
  <1>3. CASE DestroySession(s)
    <2>1. TablesOK' /\ TableInv'
      BY <1>0, <1>3, DestroySessionTables
    <2>2. RestOK'
      BY <1>0, <1>3 DEF DestroySession, Answer, RestOK, Operations, Statuses
    <2>3. QED
      BY <2>1, <2>2 DEF IInv, TypeOK, TablesOK, RestOK
  <1>4. CASE DestroySessionRejected(s)
    <2>1. Reject("destroy", <<>>, "NOT_FOUND")
      BY <1>4 DEF DestroySessionRejected
    <2>2. QED
      BY <1>0, <2>1, RejectRest, SameTables DEF Operations, Statuses
  <1>5. QED
    BY <1>1, <1>2, <1>3, <1>4 DEF SessionStep

LEMMA LocationTypes ==
    \A s, l, p, b : /\ LocationStatus(s, l, p) \in Statuses
                    /\ Then(NullStatus(b), LocationStatus(s, l, p)) \in Statuses
  BY StatusTypes DEF LocationStatus

LEMMA AppendStepInv ==
    ASSUME IInv, NEW s \in SessionIds, NEW l \in LayerArgs, NEW p \in PositionArgs,
           AppendStep(s, l, p)
    PROVE  IInv'
  <1>0. TablesOK /\ RestOK /\ TableInv
    BY IInvParts
  <1>1. ASSUME NEW v \in Payloads, AppendToPage(s, l, p, v)
        PROVE  IInv'
    <2>1. TablesOK' /\ TableInv'
      BY <1>0, <1>1, AppendToPageWrites, WriteTables
    <2>2. RestOK'
      <3>1. counters' \in CounterRecords
        <4> DEFINE a == counters.hits + 1
                   b == counters.appends + 1
        <4>1. counters' = [counters EXCEPT !.hits = a, !.appends = b]
          BY <1>1 DEF AppendToPage
        <4>2. a \in Nat /\ b \in Nat
          BY <1>0 DEF RestOK, CounterRecords
        <4> HIDE DEF a, b
        <4>3. QED
          BY <1>0, <4>1, <4>2 DEF RestOK, CounterRecords
      <3>2. reply'.op = "append" /\ reply'.status = "OK"
        BY <1>1 DEF AppendToPage, Answer
      <3>3. QED
        BY <3>1, <3>2 DEF RestOK, Operations, Statuses
    <2>3. QED
      BY <2>1, <2>2 DEF IInv, TypeOK, TablesOK, RestOK
  <1>2. ASSUME NEW v \in Payloads, AppendNewPage(s, l, p, v)
        PROVE  IInv'
    <2>1. TablesOK' /\ TableInv'
      BY <1>0, <1>2, AppendNewPageWrites, WriteTables
    <2>2. RestOK'
      <3>1. counters' \in CounterRecords
        <4> DEFINE a == counters.misses + 1
                   b == counters.allocations + 1
                   c == counters.appends + 1
        <4>1. counters' = [counters EXCEPT !.misses = a, !.allocations = b, !.appends = c]
          BY <1>2 DEF AppendNewPage
        <4>2. a \in Nat /\ b \in Nat /\ c \in Nat
          BY <1>0 DEF RestOK, CounterRecords
        <4> HIDE DEF a, b, c
        <4>3. QED
          BY <1>0, <4>1, <4>2 DEF RestOK, CounterRecords
      <3>2. reply'.op = "append" /\ reply'.status = "OK"
        BY <1>2 DEF AppendNewPage, Answer
      <3>3. QED
        BY <3>1, <3>2 DEF RestOK, Operations, Statuses
    <2>3. QED
      BY <2>1, <2>2 DEF IInv, TypeOK, TablesOK, RestOK
  <1>3. ASSUME NEW b \in BOOLEAN, AppendRejected(s, l, p, b)
        PROVE  IInv'
    <2>1. AppendStatus(s, l, p, b) \in Statuses
      <3>1. \A c : (IF c THEN "OK" ELSE "STATE") \in Statuses
        BY DEF Statuses
      <3>2. QED
        BY <3>1, LocationTypes, StatusTypes DEF AppendStatus
    <2>2. Reject("append", <<>>, AppendStatus(s, l, p, b))
      BY <1>3 DEF AppendRejected
    <2>3. QED
      BY <1>0, <2>1, <2>2, RejectRest, SameTables DEF Operations
  <1>4. ASSUME NEW b \in BOOLEAN, AppendOutOfMemory(s, l, p, b)
        PROVE  IInv'
    <2>1. RestOK' /\ UNCHANGED <<sessions, pages>>
      <3>1. counters' \in CounterRecords
        <4> DEFINE m == counters.misses + 1
                   e == counters.errors + 1
        <4>1. counters' = [counters EXCEPT !.misses = m, !.errors = e]
          BY <1>4 DEF AppendOutOfMemory
        <4>2. m \in Nat /\ e \in Nat
          BY <1>0 DEF RestOK, CounterRecords
        <4> HIDE DEF m, e
        <4>3. QED
          BY <1>0, <4>1, <4>2 DEF RestOK, CounterRecords
      <3>2. reply'.op = "append" /\ reply'.status = "OOM"
        BY <1>4 DEF AppendOutOfMemory, Answer
      <3>3. UNCHANGED <<sessions, pages>>
        BY <1>4 DEF AppendOutOfMemory
      <3>4. QED
        BY <3>1, <3>2, <3>3 DEF RestOK, Operations, Statuses
    <2>2. QED
      BY <2>1, SameTables
  <1>5. QED
    BY <1>1, <1>2, <1>3, <1>4 DEF AppendStep

LEMMA QueryStepInv ==
    ASSUME IInv, NEW s \in SessionIds, NEW l \in LayerArgs, NEW p \in PositionArgs,
           QueryStep(s, l, p)
    PROVE  IInv'
  <1>0. RestOK /\ p \in Nat /\ CountArgs \subseteq Nat
    BY IInvParts, ArgumentsAreSizes, ConfigValid DEF Size
  <1>1. ASSUME NEW h \in HeadArgs, Read(s, l, h, p)
        PROVE  IInv'
    <2>1. ReadLoop("read", s, l, p, 1, 0)
      BY <1>1 DEF Read
    <2>2. RestOK' /\ UNCHANGED <<sessions, pages>>
      BY <1>0, <2>1, ReadLoopRest DEF Operations
    <2>3. QED
      BY <2>2, SameTables
  <1>2. ASSUME NEW h \in HeadArgs, NEW b \in BOOLEAN, ReadRejected(s, l, h, p, b)
        PROVE  IInv'
    <2>1. ReadStatus(s, l, h, p, b) \in Statuses
      BY LocationTypes, StatusTypes DEF ReadStatus
    <2>2. Reject("read", RequestAddress(s, l, p, 1, h, b), ReadStatus(s, l, h, p, b))
      BY <1>2 DEF ReadRejected
    <2>3. QED
      BY <1>0, <2>1, <2>2, RejectRest, SameTables DEF Operations
  <1>3. ASSUME NEW h \in HeadArgs, NEW n \in CountArgs, CopyRange(s, l, h, p, n)
        PROVE  IInv'
    <2>1. ReadLoop("copy_range", s, l, p, n, 1)
      BY <1>3 DEF CopyRange
    <2>2. RestOK' /\ UNCHANGED <<sessions, pages>>
      BY <1>0, <2>1, ReadLoopRest DEF Operations
    <2>3. QED
      BY <2>2, SameTables
  <1>4. ASSUME NEW h \in HeadArgs, NEW n \in CountArgs, NEW b \in BOOLEAN,
               CopyRangeRejected(s, l, h, p, n, b)
        PROVE  IInv'
    <2>1. CopyStatus(s, l, h, p, n, b) \in Statuses
      BY LocationTypes, StatusTypes DEF CopyStatus
    <2>2. Reject("copy_range", RequestAddress(s, l, p, n, h, b),
                 CopyStatus(s, l, h, p, n, b))
      BY <1>4 DEF CopyRangeRejected
    <2>3. QED
      BY <1>0, <2>1, <2>2, RejectRest, SameTables DEF Operations
  <1>5. CASE LookupPage(s, l, p)
    <2>1. RestOK' /\ UNCHANGED <<sessions, pages>>
      BY <1>0, <1>5 DEF LookupPage, Answer, RestOK, CounterRecords, Operations, Statuses
    <2>2. QED
      BY <2>1, SameTables
  <1>6. ASSUME NEW b \in BOOLEAN, LookupPageRejected(s, l, p, b)
        PROVE  IInv'
    <2>1. Reject("lookup_page", <<>>, Then(NullStatus(b), LocationStatus(s, l, p)))
      BY <1>6 DEF LookupPageRejected
    <2>2. QED
      BY <1>0, <2>1, LocationTypes, RejectRest, SameTables DEF Operations
  <1>7. QED
    BY <1>1, <1>2, <1>3, <1>4, <1>5, <1>6 DEF QueryStep

LEMMA NextIInv == IInv /\ [Next]_vars => IInv'
  <1> SUFFICES ASSUME IInv, [Next]_vars
               PROVE  IInv'
    OBVIOUS
  <1>0. RestOK
    BY IInvParts
  <1>1. ASSUME NEW s \in SessionIds, SessionStep(s)
        PROVE  IInv'
    BY <1>1, SessionStepInv
  <1>2. ASSUME NEW s \in SessionIds, NEW l \in LayerArgs, NEW p \in PositionArgs,
               AppendStep(s, l, p)
        PROVE  IInv'
    BY <1>2, AppendStepInv
  <1>3. ASSUME NEW s \in SessionIds, NEW l \in LayerArgs, NEW p \in PositionArgs,
               QueryStep(s, l, p)
        PROVE  IInv'
    BY <1>3, QueryStepInv
  <1>4. CASE ResetCounters
    <2>1. RestOK' /\ UNCHANGED <<sessions, pages>>
      BY <1>0, <1>4 DEF ResetCounters, ZeroCounters, Answer, RestOK, CounterRecords,
                        Operations, Statuses
    <2>2. QED
      BY <2>1, SameTables
  <1>5. CASE UNCHANGED vars
    <2>1. RestOK' /\ UNCHANGED <<sessions, pages>>
      BY <1>0, <1>5 DEF vars, RestOK
    <2>2. QED
      BY <2>1, SameTables
  <1>6. QED
    BY <1>1, <1>2, <1>3, <1>4, <1>5 DEF Next

(***************************************************************************)
(* The theorems.                                                           *)
(***************************************************************************)

\* The inductive invariant holds in every behaviour of the KV-MMU (kv_mmu.c).
THEOREM InductiveInvariant == Spec => []IInv
  BY InitIInv, NextIInv, PTL DEF Spec

\* Sessions, pages, counters and replies keep their C types, and no page is
\* mapped beyond max_positions (att1_kv_mmu_append).
THEOREM TypeCorrect == Spec => []TypeOK
  <1>1. IInv => TypeOK
    BY DEF IInv
  <1>2. QED
    BY <1>1, InductiveInvariant, PTL

\* No two entries of the session table hold the same live session
\* (att1_kv_mmu_create_session, att1_kv_mmu_find_session).
THEOREM UniqueSessions == Spec => []SessionsUnique
  <1>1. IInv => SessionsUnique
    BY DEF IInv, TableInv
  <1>2. QED
    BY <1>1, InductiveInvariant, PTL

\* At most one physical page is mapped at a session, layer and logical page
\* (att1_kv_mmu_find_page, att1_kv_mmu_alloc_page).
THEOREM UniqueMappings == Spec => []MappingUnique
  <1>1. IInv => MappingUnique
    BY DEF IInv, TableInv
  <1>2. QED
    BY <1>1, InductiveInvariant, PTL

\* Every page in use belongs to a live session (att1_kv_mmu_destroy_session).
THEOREM NoLeakedPage == Spec => []PagesOwned
  <1>1. IInv => PagesOwned
    BY DEF IInv, TableInv
  <1>2. QED
    BY <1>1, InductiveInvariant, PTL

\* The tokens of a session and layer are a prefix of its positions, without
\* gaps (att1_kv_mmu_append, att1_kv_mmu_next_position).
THEOREM NoGaps == Spec => []PrefixClosed
  <1>1. IInv => PrefixClosed
    BY DEF IInv, TableInv
  <1>2. QED
    BY <1>1, InductiveInvariant, PTL

\* No page is allocated before it is needed: every page in use holds the token
\* of its first slot (att1_kv_mmu_alloc_page).
THEOREM NoIdlePage == Spec => []NoEmptyPage
  <1>1. IInv => NoEmptyPage
    BY DEF IInv, TableInv
  <1>2. QED
    BY <1>1, InductiveInvariant, PTL

\* No token lies at a position past max_positions, though the last page may have
\* room for one (att1_kv_mmu_validate_position).
THEOREM NoOverrun == Spec => []WithinPositions
  <1>1. IInv => WithinPositions
    BY DEF IInv, TableInv
  <1>2. QED
    BY <1>1, InductiveInvariant, PTL

(***************************************************************************)
(* The counters.  The bounds of CountersConsistent are inductive on the    *)
(* types alone: each operation moves the counters it compares together.    *)
(***************************************************************************)

\* The readable prefix of a read moves hits and reads alike.
LEMMA ReadLoopCounters ==
    ASSUME RestOK, CountersConsistent, NEW op, NEW s, NEW l, NEW from \in Nat,
           NEW n \in Nat, NEW copied \in Nat, ReadLoop(op, s, l, from, n, copied)
    PROVE  CountersConsistent'
  <1> DEFINE k == ReadableFrom(s, l, from, n)
             failed == k < n
             outside == failed /\ from + k >= MaxPositions
             mapped == FindPage(s, l, LogicalPage(from + k)) # {}
             a == counters.hits + k + OneIf(failed /\ ~ outside /\ mapped)
             b == counters.misses + OneIf(failed /\ ~ outside /\ ~ mapped)
             c == counters.reads + k
             d == IF failed THEN counters.copies ELSE counters.copies + copied
             e == counters.errors + OneIf(failed)
  <1>1. k \in Nat
    BY ReadableFromType
  <1>2. counters' = [counters EXCEPT !.hits = a, !.misses = b, !.reads = c,
                                     !.copies = d, !.errors = e]
    BY DEF ReadLoop
  <1>3. \A x : OneIf(x) \in Nat
    BY DEF OneIf
  <1>4. /\ a \in Nat /\ a >= counters.hits + k
        /\ b \in Nat /\ b >= counters.misses
        /\ c = counters.reads + k
    <2> HIDE DEF k, failed, mapped, outside
    <2>1. QED
      BY <1>1, <1>3 DEF RestOK, CounterRecords
  <1> HIDE DEF k, a, b, c, d, e
  <1>5. /\ counters'.hits = a /\ counters'.misses = b /\ counters'.reads = c
        /\ counters'.allocations = counters.allocations
        /\ counters'.appends = counters.appends
    BY <1>2 DEF RestOK, CounterRecords
  <1>6. QED
    BY <1>1, <1>4, <1>5 DEF CountersConsistent, RestOK, CounterRecords

\* A refusal moves none of the counters compared.
LEMMA RejectCounters ==
    ASSUME RestOK, CountersConsistent, NEW op, NEW addr, NEW status, Reject(op, addr, status)
    PROVE  CountersConsistent'
  BY DEF RestOK, Reject, CounterRecords, CountersConsistent

LEMMA NextCounters == RestOK /\ CountersConsistent /\ [Next]_vars => CountersConsistent'
  <1> SUFFICES ASSUME RestOK, CountersConsistent, [Next]_vars
               PROVE  CountersConsistent'
    OBVIOUS
  <1> USE DEF RestOK, CounterRecords, CountersConsistent
  <1>1. ASSUME NEW s \in SessionIds, SessionStep(s)
        PROVE  CountersConsistent'
    <2>1. CASE CreateSession(s) \/ DestroySession(s)
      BY <2>1 DEF CreateSession, DestroySession
    <2>2. CASE CreateSessionRejected(s)
      BY <2>2, RejectCounters DEF CreateSessionRejected
    <2>3. CASE DestroySessionRejected(s)
      BY <2>3, RejectCounters DEF DestroySessionRejected
    <2>4. QED
      BY <1>1, <2>1, <2>2, <2>3 DEF SessionStep
  <1>2. ASSUME NEW s \in SessionIds, NEW l \in LayerArgs, NEW p \in PositionArgs,
               AppendStep(s, l, p)
        PROVE  CountersConsistent'
    <2>1. ASSUME NEW v \in Payloads, AppendToPage(s, l, p, v)
          PROVE  CountersConsistent'
      BY <2>1 DEF AppendToPage
    <2>2. ASSUME NEW v \in Payloads, AppendNewPage(s, l, p, v)
          PROVE  CountersConsistent'
      BY <2>2 DEF AppendNewPage
    <2>3. ASSUME NEW b \in BOOLEAN, AppendRejected(s, l, p, b)
          PROVE  CountersConsistent'
      BY <2>3, RejectCounters DEF AppendRejected
    <2>4. ASSUME NEW b \in BOOLEAN, AppendOutOfMemory(s, l, p, b)
          PROVE  CountersConsistent'
      BY <2>4 DEF AppendOutOfMemory
    <2>5. QED
      BY <1>2, <2>1, <2>2, <2>3, <2>4 DEF AppendStep
  <1>3. ASSUME NEW s \in SessionIds, NEW l \in LayerArgs, NEW p \in PositionArgs,
               QueryStep(s, l, p)
        PROVE  CountersConsistent'
    <2>0. p \in Nat /\ CountArgs \subseteq Nat
      BY ArgumentsAreSizes, ConfigValid DEF Size
    <2>1. ASSUME NEW h \in HeadArgs, Read(s, l, h, p)
          PROVE  CountersConsistent'
      <3>1. ReadLoop("read", s, l, p, 1, 0)
        BY <2>1 DEF Read
      <3>2. QED
        BY <2>0, <3>1, ReadLoopCounters
    <2>2. ASSUME NEW h \in HeadArgs, NEW b \in BOOLEAN, ReadRejected(s, l, h, p, b)
          PROVE  CountersConsistent'
      BY <2>2, RejectCounters DEF ReadRejected
    <2>3. ASSUME NEW h \in HeadArgs, NEW n \in CountArgs, CopyRange(s, l, h, p, n)
          PROVE  CountersConsistent'
      <3>1. ReadLoop("copy_range", s, l, p, n, 1)
        BY <2>3 DEF CopyRange
      <3>2. n \in Nat
        BY <2>0
      <3>3. QED
        BY <2>0, <3>1, <3>2, ReadLoopCounters
    <2>4. ASSUME NEW h \in HeadArgs, NEW n \in CountArgs, NEW b \in BOOLEAN,
                 CopyRangeRejected(s, l, h, p, n, b)
          PROVE  CountersConsistent'
      BY <2>4, RejectCounters DEF CopyRangeRejected
    <2>5. CASE LookupPage(s, l, p)
      BY <2>5 DEF LookupPage
    <2>6. ASSUME NEW b \in BOOLEAN, LookupPageRejected(s, l, p, b)
          PROVE  CountersConsistent'
      BY <2>6, RejectCounters DEF LookupPageRejected
    <2>7. QED
      BY <1>3, <2>1, <2>2, <2>3, <2>4, <2>5, <2>6 DEF QueryStep
  <1>4. CASE ResetCounters
    BY <1>4 DEF ResetCounters, ZeroCounters
  <1>5. CASE UNCHANGED vars
    BY <1>5 DEF vars
  <1>6. QED
    BY <1>1, <1>2, <1>3, <1>4, <1>5 DEF Next

\* A page is allocated only on a miss, a token is read only on a hit, and every
\* append or read is a hit or an allocation, however reads fail half way and
\* whenever the counters are reset (att1_kv_mmu_trace_counters).
THEOREM CountersAccount == Spec => []CountersConsistent
  <1>1. Init => CountersConsistent
    BY DEF Init, ZeroCounters, CountersConsistent
  <1>2. IInv => RestOK
    BY DEF IInv, TypeOK, RestOK
  <1>3. QED
    BY <1>1, <1>2, NextCounters, InductiveInvariant, PTL DEF Spec

(***************************************************************************)
(* The refinement.  The paged KV-MMU implements the flat append-only store *)
(* of KVStore: its initial states are states of an empty store, and each   *)
(* of its calls is a call of the store, or changes nothing that the store  *)
(* knows of.                                                               *)
(***************************************************************************)

\* What the store holds, as the MMU keeps it.
Held == [a \in SessionIds \X Layers \X Positions |-> Token(a[1], a[2], a[3])]

(***************************************************************************)
(* Reading the store through the page table.                               *)
(***************************************************************************)

\* Only positions below max_positions hold tokens, and only of live sessions.
LEMMA TokenIsStored ==
    ASSUME TablesOK, TableInv, NEW s, NEW l, NEW p \in Nat, TokenPresent(s, l, p)
    PROVE  /\ s \in Live /\ l \in Layers /\ p \in Positions
           /\ Token(s, l, p) \in Payloads
  <1> DEFINE g == LogicalPage(p)
             t == TokenInPage(p)
  <1>1. FindPage(s, l, g) # {}
    BY TokenOfHole DEF TokenPresent
  <1>2. PICK i \in FindPage(s, l, g) : TRUE
    BY <1>1
  <1>3. Token(s, l, p) = pages[i].tokens[t] /\ pages[i].tokens[t] # Absent
    BY <1>2, TokenOfPage DEF TokenPresent, TableInv
  <1>4. /\ i \in PageIndexes /\ pages[i] \in PageRecords /\ pages[i].active
        /\ pages[i].session = s /\ pages[i].layer = l /\ pages[i].logical = g
    BY <1>2 DEF FindPage, TablesOK
  <1>5. t \in Slots /\ p = g * PageTokens + t
    BY DivMod, ConstantTypes DEF TokenInPage, LogicalPage, Slots
  <1> HIDE DEF g, t
  <1>6. p < MaxPositions
    BY <1>3, <1>4, <1>5 DEF TableInv, WithinPositions
  <1>7. p \in Positions
    BY <1>6, ConstantTypes DEF Positions
  <1>8. s \in Live /\ l \in Layers
    BY <1>4 DEF TableInv, PagesOwned, Live, PageRecords
  <1>9. Token(s, l, p) \in Payloads
    BY <1>3, <1>4, <1>5 DEF PageRecords
  <1>10. QED
    BY <1>7, <1>8, <1>9

\* The store holds a token where the MMU does.
LEMMA StoredIsPresent ==
    ASSUME TablesOK, TableInv, NEW s, NEW l, NEW p \in Nat
    PROVE  /\ Store!Stored(s, l, p) <=> TokenPresent(s, l, p)
           /\ Store!Stored(s, l, p) => Held[<<s, l, p>>] = Token(s, l, p)
  <1>1. ASSUME <<s, l, p>> \in SessionIds \X Layers \X Positions
        PROVE  Held[<<s, l, p>>] = Token(s, l, p)
    BY <1>1 DEF Held
  <1>2. Store!Stored(s, l, p) <=>
            /\ s \in Live
            /\ <<s, l, p>> \in SessionIds \X Layers \X Positions
            /\ Held[<<s, l, p>>] # Absent
    BY DEF Store!Stored, Store!Addresses, Store!Layers, Store!Positions,
           Layers, Positions, Held
  <1>3. TokenPresent(s, l, p) => s \in Live /\ l \in Layers /\ p \in Positions
    BY TokenIsStored
  <1>4. s \in Live => s \in SessionIds
    BY DEF Live
  <1>5. QED
    BY <1>1, <1>2, <1>3, <1>4 DEF TokenPresent

(***************************************************************************)
(* What each group of calls does to the store.                             *)
(***************************************************************************)

\* The store sees only the tables and the reply.
LEMMA StoreUnchanged ==
    ASSUME UNCHANGED <<sessions, pages>>
    PROVE  Live' = Live /\ Held' = Held
  <1>1. \A s : FindSession(s)' = FindSession(s)
    BY DEF FindSession
  <1>2. \A s, l, p : Token(s, l, p)' = Token(s, l, p)
    BY DEF Token, FindPage
  <1>3. QED
    BY <1>1, <1>2 DEF Live, Held

LEMMA StoreVarsUnchanged ==
    ASSUME UNCHANGED <<sessions, pages>>
    PROVE  UNCHANGED <<Live, [a \in SessionIds \X Layers \X Positions |->
                                 Token(a[1], a[2], a[3])]>>
  BY StoreUnchanged DEF Held

LEMMA CreateIsStoreCreate ==
    ASSUME TablesOK, TableInv, NEW s \in SessionIds, CreateSession(s)
    PROVE  Store!StoreNext
  <1> DEFINE f == First(FreeSessionSlots)
  <1>1. f \in SessionSlots /\ ~ sessions[f].active
    BY FirstSlot DEF CreateSession, FreeSessionSlots
  <1>2. /\ sessions' = [sessions EXCEPT ![f] = [active |-> TRUE, id |-> s]]
        /\ pages' = pages
        /\ FindSession(s) = {}
    BY DEF CreateSession
  <1> HIDE DEF f
  <1>3. \A x : FindSession(x)' = IF x = s THEN {f} ELSE FindSession(x)
    BY <1>1, <1>2 DEF FindSession, TablesOK
  <1>4. Live' = Live \cup {s} /\ s \notin Live
    BY <1>2, <1>3 DEF Live
  <1>5. Held' = Held
    BY <1>2 DEF Held, Token, FindPage
  <1>6. reply'.op = "create" /\ reply'.status = "OK"
    BY DEF CreateSession, Answer
  <1>7. Store!StoreCreate(s)
    BY <1>4, <1>5 DEF Store!StoreCreate, Held
  <1>8. QED
    BY <1>6, <1>7 DEF Store!StoreNext, Store!StoreUpdate

LEMMA DestroyIsStoreDestroy ==
    ASSUME TablesOK, TableInv, NEW s \in SessionIds, DestroySession(s)
    PROVE  Store!StoreNext
  <1> DEFINE f == First(FindSession(s))
  <1>1. f \in SessionSlots /\ sessions[f].active /\ sessions[f].id = s
    <2>1. FindSession(s) \in SUBSET SessionSlots /\ FindSession(s) # {}
      BY DEF DestroySession, FindSession
    <2>2. f \in FindSession(s)
      BY <2>1, FirstSlot
    <2>3. QED
      BY <2>2 DEF FindSession
  <1>2. /\ sessions' = [sessions EXCEPT ![f] = ZeroSession]
        /\ pages' = [i \in PageIndexes |->
                        IF pages[i].active /\ pages[i].session = s
                        THEN ZeroPage ELSE pages[i]]
    BY DEF DestroySession
  <1> HIDE DEF f
  <1>3. \A x : FindSession(x)' = FindSession(x) \ {f}
    BY <1>1, <1>2 DEF FindSession, TablesOK, ZeroSession
  <1>4. \A x : x # s => f \notin FindSession(x)
    BY <1>1 DEF FindSession
  <1>5. FindSession(s) = {f}
    BY <1>1 DEF FindSession, TableInv, SessionsUnique
  <1>6. Live' = Live \ {s} /\ s \in Live
    BY <1>3, <1>4, <1>5 DEF Live
  <1>7. \A l, p : Token(s, l, p)' = Absent
    <2>1. \A i \in PageIndexes : ~ (pages'[i].active /\ pages'[i].session = s)
      BY <1>2 DEF ZeroPage
    <2>2. \A l, p : FindPage(s, l, LogicalPage(p))' = {}
      BY <2>1 DEF FindPage
    <2>3. QED
      BY <2>2 DEF Token
  <1>8. \A x, l, p : x # s => Token(x, l, p)' = Token(x, l, p)
    BY DestroySessionTokens
  <1>9. Held' = [a \in SessionIds \X Layers \X Positions |->
                    IF a[1] = s THEN Absent ELSE Held[a]]
    BY <1>7, <1>8 DEF Held
  <1>10. reply'.op = "destroy" /\ reply'.status = "OK"
    BY DEF DestroySession, Answer
  <1>11. Store!StoreDestroy(s)
    BY <1>6, <1>9 DEF Store!StoreDestroy, Store!Addresses, Store!Layers,
                      Store!Positions, Layers, Positions, Held
  <1>12. QED
    BY <1>10, <1>11 DEF Store!StoreNext, Store!StoreUpdate

\* A write through the page table changes the token of its position and no other.
LEMMA WriteTokens ==
    ASSUME TablesOK, TableInv, NEW s \in SessionIds, NEW l, NEW p, NEW v \in Payloads,
           NEW f, NEW toks, Writes(s, l, p, v, f, toks)
    PROVE  /\ Token(s, l, p)' = v
           /\ \A x, y : \A q \in Nat :
                 <<x, y, q>> # <<s, l, p>> => Token(x, y, q)' = Token(x, y, q)
  <1> DEFINE g == LogicalPage(p)
             t == TokenInPage(p)
  <1>0. MappingUnique /\ MappingUnique'
    BY WriteTables DEF TableInv
  <1>1. p \in Nat /\ g \in LogicalPages /\ t \in Slots /\ p = g * PageTokens + t
    BY PositionTypes DEF Writes
  <1>2. /\ f \in PageIndexes
        /\ pages'[f].active /\ pages'[f].session = s /\ pages'[f].layer = l
        /\ pages'[f].logical = g /\ pages'[f].tokens = toks
        /\ \A i \in PageIndexes \ {f} : pages'[i] = pages[i]
    BY DEF Writes
  <1>3. pages[f].active => f \in FindPage(s, l, g)
    BY DEF Writes
  <1>4. ~ pages[f].active => FindPage(s, l, g) = {}
    BY DEF Writes, FindPage
  <1>5. toks[t] = v /\ \A u \in Slots \ {t} :
            toks[u] = IF pages[f].active THEN pages[f].tokens[u] ELSE Absent
    BY DEF Writes
  <1> HIDE DEF g, t
  <1>6. f \in FindPage(s, l, g)'
    BY <1>2 DEF FindPage
  <1>7. ASSUME NEW q \in Nat, LogicalPage(q) = g
        PROVE  Token(s, l, q)' = toks[TokenInPage(q)]
    BY <1>0, <1>2, <1>6, <1>7, TokenOfPageNext
  <1>8. Token(s, l, p)' = v
    BY <1>1, <1>5, <1>7 DEF g, t
  <1>9. ASSUME NEW x, NEW y, NEW q \in Nat, <<x, y, q>> # <<s, l, p>>
        PROVE  Token(x, y, q)' = Token(x, y, q)
    <2>1. CASE x = s /\ y = l /\ LogicalPage(q) = g
      <3>1. TokenInPage(q) \in Slots \ {t}
        <4>1. TokenInPage(q) \in Slots /\ q = g * PageTokens + TokenInPage(q)
          BY <2>1, DivMod, ConstantTypes DEF TokenInPage, LogicalPage, Slots
        <4>2. q # p
          BY <1>9, <2>1
        <4>3. QED
          BY <1>1, <4>1, <4>2
      <3>2. CASE pages[f].active
        BY <1>0, <1>3, <1>5, <1>7, <2>1, <3>1, <3>2, TokenOfPage
      <3>3. CASE ~ pages[f].active
        BY <1>4, <1>5, <1>7, <2>1, <3>1, <3>3, TokenOfHole
      <3>4. QED
        BY <3>2, <3>3
    <2>2. CASE ~ (x = s /\ y = l /\ LogicalPage(q) = g)
      <3> DEFINE S == FindPage(x, y, LogicalPage(q))
      <3>1. f \notin S /\ S' = S
        BY <1>2, <1>3, <2>2 DEF FindPage
      <3>2. \A i \in S : pages'[i] = pages[i]
        BY <1>2, <3>1 DEF FindPage
      <3>3. ASSUME S # {}
            PROVE  First(S) \in S
        <4>1. S \in SUBSET PageIndexes
          BY DEF FindPage
        <4> HIDE DEF S
        <4>2. QED
          BY <3>3, <4>1, FirstPage
      <3>4. QED
        BY <3>1, <3>2, <3>3 DEF Token
    <2>3. QED
      BY <2>1, <2>2
  <1>10. QED
    BY <1>8, <1>9

\* Writing the next token of a session and layer is an append to the store.
LEMMA WriteIsStoreAppend ==
    ASSUME TablesOK, TableInv, NEW s \in SessionIds, NEW l, NEW p, NEW v \in Payloads,
           NEW f, NEW toks, Writes(s, l, p, v, f, toks)
    PROVE  l \in Layers /\ p \in Positions /\ Store!StoreAppend(s, l, p, v)
  <1>1. /\ FindSession(s) # {} /\ l \in Layers
        /\ p \in Nat /\ p < MaxPositions /\ IsNextPosition(s, l, p)
        /\ sessions' = sessions
    BY DEF Writes
  <1>2. p \in Positions
    BY <1>1, ConstantTypes DEF Positions
  <1>3. Live' = Live /\ s \in Live
    BY <1>1 DEF Live, FindSession
  <1>4. Positions \subseteq Nat
    BY DEF Positions
  <1>5. Held' = [Held EXCEPT ![<<s, l, p>>] = v]
    <2>1. \A x, y : \A q \in Nat : Token(x, y, q)' =
              IF <<x, y, q>> = <<s, l, p>> THEN v ELSE Token(x, y, q)
      BY WriteTokens
    <2>2. ASSUME NEW a \in SessionIds \X Layers \X Positions
          PROVE  Token(a[1], a[2], a[3])' = IF a = <<s, l, p>> THEN v ELSE Held[a]
      <3>1. PICK x \in SessionIds, y \in Layers, q \in Positions : a = <<x, y, q>>
        OBVIOUS
      <3>2. a[1] = x /\ a[2] = y /\ a[3] = q /\ q \in Nat
        BY <1>4, <3>1
      <3>3. Held[a] = Token(x, y, q)
        BY <3>2 DEF Held
      <3>4. QED
        BY <2>1, <3>1, <3>2, <3>3
    <2>3. QED
      BY <2>2 DEF Held
  <1>6. Store!IsNext(s, l, p)
    <2>1. ~ Store!Stored(s, l, p)
      BY <1>1, StoredIsPresent DEF IsNextPosition
    <2>2. ASSUME NEW q \in Positions, q < p
          PROVE  Store!Stored(s, l, q)
      <3>1. q \in Nat /\ q \in 0..p - 1
        BY <1>1, <1>4, <2>2
      <3>2. TokenPresent(s, l, q)
        BY <1>1, <3>1 DEF IsNextPosition
      <3>3. QED
        BY <3>1, <3>2, StoredIsPresent
    <2>3. QED
      BY <2>1, <2>2 DEF Store!IsNext, Store!Positions, Positions
  <1>7. QED
    BY <1>1, <1>2, <1>3, <1>5, <1>6 DEF Store!StoreAppend, Held

LEMMA AppendIsStoreAppend ==
    ASSUME TablesOK, TableInv, NEW s \in SessionIds, NEW l \in LayerArgs,
           NEW p \in PositionArgs, NEW v \in Payloads,
           AppendToPage(s, l, p, v) \/ AppendNewPage(s, l, p, v)
    PROVE  Store!StoreNext
  <1>1. PICK i, a : Writes(s, l, p, v, i, a)
    BY AppendToPageWrites, AppendNewPageWrites
  <1>2. l \in Layers /\ p \in Positions /\ Store!StoreAppend(s, l, p, v)
    BY <1>1, WriteIsStoreAppend
  <1>3. Answer("append", <<>>, "OK", NoData)
    BY DEF AppendToPage, AppendNewPage
  <1>4. QED
    BY <1>2, <1>3 DEF Answer, Store!StoreNext, Store!StoreUpdate, Store!Layers,
                      Store!Positions, Layers, Positions

(***************************************************************************)
(* Refusals: an update that is refused changes nothing, and a query is     *)
(* refused for its address only where something is missing.                *)
(***************************************************************************)

\* An address outside the tables holds nothing.
LEMMA StoredInside ==
    ASSUME NEW s, NEW l, NEW p, Store!Stored(s, l, p)
    PROVE  FindSession(s) # {} /\ l \in Layers /\ p \in Positions
  BY DEF Store!Stored, Store!Addresses, Store!Layers, Store!Positions, Layers,
         Positions, Live

\* What is refused for its session, layer or position is not stored.
LEMMA LocationRefused ==
    ASSUME NEW s, NEW l \in Nat, NEW p \in Nat, LocationStatus(s, l, p) # "OK"
    PROVE  ~ Store!Stored(s, l, p)
  <1> SUFFICES ASSUME FindSession(s) # {}, l \in Layers, p \in Positions
               PROVE  FALSE
    BY StoredInside
  <1>1. ~ (l >= NumLayers) /\ ~ (p >= MaxPositions)
    BY ConfigValid DEF Layers, Positions
  <1>2. AddressStatus(s, l) = "OK"
    BY <1>1 DEF AddressStatus
  <1>3. PositionStatus(p) = "OK"
    BY <1>1 DEF PositionStatus
  <1>4. QED
    BY <1>2, <1>3 DEF LocationStatus, Then

\* A range refused for its bounds does not lie in the store: the sum that wraps
\* is tested only where it cannot wrap beyond zero.
LEMMA RangeRefused ==
    ASSUME NEW s, NEW l, NEW p \in Size, NEW n \in Size, n > 0, RangeStatus(p, n) # "OK"
    PROVE  ~ Store!RangeStored(s, l, p, n)
  <1>1. /\ SizeMax \in Nat /\ MaxPositions \in Nat \ {0} /\ MaxPositions <= SizeMax
        /\ p \in Nat /\ n \in Nat /\ p <= SizeMax
    <2>1. MaxPages * PageTokens \in Nat
      BY ConfigValid
    <2>2. QED
      BY <2>1, ConfigValid DEF Size
  <1>2. p + (n - 1) >= MaxPositions
    <2>1. CASE p > SizeMax - (n - 1)
      BY <1>1, <2>1
    <2>2. CASE p <= SizeMax - (n - 1) /\ (p + n) % (SizeMax + 1) > MaxPositions
      <3>1. p + n <= SizeMax + 1 /\ p + n \in Nat
        BY <1>1, <2>2
      <3>2. CASE p + n = SizeMax + 1
        <4>1. (p + n) % (SizeMax + 1) = 0
          BY <1>1, <3>2
        <4>2. QED
          BY <1>1, <2>2, <4>1
      <3>3. CASE p + n < SizeMax + 1
        <4>1. (p + n) % (SizeMax + 1) = p + n
          BY <1>1, <3>1, <3>3
        <4>2. QED
          BY <1>1, <2>2, <4>1
      <3>4. QED
        BY <1>1, <3>1, <3>2, <3>3
    <2>3. QED
      BY <1>1, <2>1, <2>2 DEF RangeStatus
  <1>3. ~ Store!Stored(s, l, p + (n - 1))
    <2>1. p + (n - 1) \notin Positions
      BY <1>1, <1>2 DEF Positions
    <2>2. QED
      BY <2>1, StoredInside
  <1>4. n - 1 \in 0..n - 1
    BY <1>1
  <1>5. QED
    BY <1>3, <1>4 DEF Store!RangeStored

\* A range starts at its first position.
LEMMA RangeStart ==
    ASSUME NEW s, NEW l, NEW p \in Nat, NEW n \in Nat, n > 0, Store!RangeStored(s, l, p, n)
    PROVE  Store!Stored(s, l, p)
  <1>1. 0 \in 0..n - 1 /\ p + 0 = p
    OBVIOUS
  <1>2. Store!Stored(s, l, p + 0)
    BY <1>1 DEF Store!RangeStored
  <1>3. QED
    BY <1>1, <1>2

\* A refused update, or a refused query that names no address.
LEMMA RefusedUpdate ==
    ASSUME NEW op, NEW status, Reject(op, <<>>, status),
           op \in {"create", "destroy", "append", "read", "copy_range", "lookup_page"}
    PROVE  Store!StoreNext
  <1>1. /\ reply'.op = op /\ reply'.addr = <<>> /\ reply'.status # "OK"
        /\ UNCHANGED <<sessions, pages>>
    BY DEF Reject, Answer
  <1>2. UNCHANGED <<Live, [a \in SessionIds \X Layers \X Positions |->
                              Token(a[1], a[2], a[3])]>>
    BY <1>1, StoreVarsUnchanged
  <1>3. Store!StoreNoUpdate
    BY <1>1, <1>2 DEF Store!StoreNoUpdate
  <1>4. QED
    BY <1>3 DEF Store!StoreNext

\* A query refused for its address.
LEMMA RefusedQuery ==
    ASSUME NEW op \in {"read", "copy_range"}, NEW s, NEW l, NEW p, NEW n, NEW status,
           Reject(op, <<s, l, p, n>>, status), ~ (n > 0 /\ Store!RangeStored(s, l, p, n))
    PROVE  Store!StoreNext
  <1>1. /\ reply'.op = op /\ reply'.addr = <<s, l, p, n>> /\ reply'.status # "OK"
        /\ UNCHANGED <<sessions, pages>>
    BY DEF Reject, Answer
  <1>2. UNCHANGED <<Live, [a \in SessionIds \X Layers \X Positions |->
                              Token(a[1], a[2], a[3])]>>
    BY <1>1, StoreVarsUnchanged
  <1>3. Store!StoreAnswer(s, l, p, n)
    BY <1>1, <1>2 DEF Store!StoreAnswer
  <1>4. /\ reply'.addr # <<>>
        /\ reply'.addr[1] = s /\ reply'.addr[2] = l /\ reply'.addr[3] = p
        /\ reply'.addr[4] = n
    BY <1>1
  <1>5. Store!StoreQuery
    BY <1>1, <1>3, <1>4 DEF Store!StoreQuery
  <1>6. QED
    BY <1>5 DEF Store!StoreNext

LEMMA ReadRefused ==
    ASSUME NEW s, NEW l \in Nat, NEW h \in Nat, NEW p \in Nat, NEW b \in BOOLEAN,
           ReadRejected(s, l, h, p, b)
    PROVE  Store!StoreNext
  <1> DEFINE status == ReadStatus(s, l, h, p, b)
  <1>1. Reject("read", RequestAddress(s, l, p, 1, h, b), status) /\ status # "OK"
    BY DEF ReadRejected, Reject
  <1>2. CASE b \/ h >= NumHeads
    <2>1. Reject("read", <<>>, status)
      BY <1>1, <1>2 DEF RequestAddress
    <2> HIDE DEF status
    <2>2. QED
      BY <2>1, RefusedUpdate
  <1>3. CASE ~ (b \/ h >= NumHeads)
    <2>1. Reject("read", <<s, l, p, 1>>, status)
      BY <1>1, <1>3 DEF RequestAddress
    <2>2. LocationStatus(s, l, p) # "OK"
      BY <1>1, <1>3 DEF ReadStatus, NullStatus, HeadStatus, Then
    <2>3. ~ Store!RangeStored(s, l, p, 1)
      BY <2>2, LocationRefused, RangeStart
    <2> HIDE DEF status
    <2>4. QED
      BY <2>1, <2>3, RefusedQuery
  <1>4. QED
    BY <1>2, <1>3

LEMMA CopyRangeRefused ==
    ASSUME NEW s, NEW l \in Nat, NEW h \in Nat, NEW p \in Size, NEW n \in Size,
           NEW b \in BOOLEAN, CopyRangeRejected(s, l, h, p, n, b)
    PROVE  Store!StoreNext
  <1> DEFINE status == CopyStatus(s, l, h, p, n, b)
  <1>1. Reject("copy_range", RequestAddress(s, l, p, n, h, b), status) /\ status # "OK"
    BY DEF CopyRangeRejected, Reject
  <1>2. CASE b \/ h >= NumHeads
    <2>1. Reject("copy_range", <<>>, status)
      BY <1>1, <1>2 DEF RequestAddress
    <2> HIDE DEF status
    <2>2. QED
      BY <2>1, RefusedUpdate
  <1>3. CASE ~ (b \/ h >= NumHeads)
    <2>1. Reject("copy_range", <<s, l, p, n>>, status)
      BY <1>1, <1>3 DEF RequestAddress
    <2>2. RangeStatus(p, n) # "OK" \/ LocationStatus(s, l, p) # "OK"
      BY <1>1, <1>3 DEF CopyStatus, NullStatus, HeadStatus, Then
    <2>3. p \in Nat /\ n \in Nat
      BY ConfigValid DEF Size
    <2>4. ~ (n > 0 /\ Store!RangeStored(s, l, p, n))
      BY <2>2, <2>3, LocationRefused, RangeStart, RangeRefused
    <2> HIDE DEF status
    <2>5. QED
      BY <2>1, <2>4, RefusedQuery
  <1>4. QED
    BY <1>2, <1>3

(***************************************************************************)
(* The reads.                                                              *)
(***************************************************************************)

\* A run of reads answers what the store holds, or is refused where it meets a
\* position that holds nothing.
LEMMA ReadLoopIsStoreQuery ==
    ASSUME TablesOK, TableInv, NEW op \in {"read", "copy_range"}, NEW s, NEW l,
           NEW p \in Nat, NEW n \in Nat, n > 0, NEW copied,
           ReadLoop(op, s, l, p, n, copied)
    PROVE  Store!StoreNext
  <1> DEFINE k == ReadableFrom(s, l, p, n)
             outside == k < n /\ p + k >= MaxPositions
             data == [i \in 0..k - 1 |-> Token(s, l, p + i)]
  <1>1. /\ k \in 0..n
        /\ \A i \in 0..k - 1 : TokenPresent(s, l, p + i)
        /\ k < n => ~ TokenPresent(s, l, p + k)
    BY ReadableFromStops
  <1>2. /\ reply'.op = op /\ reply'.addr = <<s, l, p, n>> /\ reply'.data = data
        /\ reply'.status = CASE outside -> "INVALID_ARG"
                             [] k < n /\ ~ outside -> "NOT_FOUND"
                             [] OTHER -> "OK"
        /\ UNCHANGED <<sessions, pages>>
    BY DEF ReadLoop, Answer
  <1>3. UNCHANGED <<Live, [a \in SessionIds \X Layers \X Positions |->
                              Token(a[1], a[2], a[3])]>>
    BY <1>2, StoreVarsUnchanged
  <1> HIDE DEF k
  <1>4. ASSUME k < n
        PROVE  Store!StoreAnswer(s, l, p, n)
    <2>1. reply'.status # "OK"
      BY <1>2, <1>4
    <2>2. ~ Store!RangeStored(s, l, p, n)
      <3>1. k \in 0..n - 1 /\ p + k \in Nat
        BY <1>1, <1>4
      <3>2. ~ Store!Stored(s, l, p + k)
        BY <1>1, <1>4, <3>1, StoredIsPresent
      <3>3. QED
        BY <3>1, <3>2 DEF Store!RangeStored
    <2>3. Store!StoreAnswer(s, l, p, n)
      BY <1>2, <1>3, <2>1, <2>2 DEF Store!StoreAnswer
    <2>4. QED
      BY <2>3
  <1>5. ASSUME ~ (k < n)
        PROVE  Store!StoreAnswer(s, l, p, n)
    <2>1. k = n
      BY <1>1, <1>5
    <2>2. reply'.status = "OK"
      BY <1>2, <1>5
    <2>3. ASSUME NEW i \in 0..n - 1
          PROVE  Store!Stored(s, l, p + i) /\ Held[<<s, l, p + i>>] = Token(s, l, p + i)
      <3>1. p + i \in Nat /\ TokenPresent(s, l, p + i)
        BY <1>1, <2>1
      <3>2. QED
        BY <3>1, StoredIsPresent
    <2>4. Store!RangeStored(s, l, p, n)
      BY <2>3 DEF Store!RangeStored
    <2>5. reply'.data = [i \in 0..n - 1 |-> Held[<<s, l, p + i>>]]
      BY <1>2, <2>1, <2>3
    <2>6. Store!StoreAnswer(s, l, p, n)
      BY <1>2, <1>3, <2>2, <2>4, <2>5 DEF Store!StoreAnswer, Held
    <2>7. QED
      BY <2>6
  <1>6. Store!StoreAnswer(s, l, p, n)
    BY <1>4, <1>5
  <1>7. /\ reply'.addr # <<>>
        /\ reply'.addr[1] = s /\ reply'.addr[2] = l /\ reply'.addr[3] = p
        /\ reply'.addr[4] = n
    BY <1>2
  <1>8. Store!StoreQuery
    BY <1>2, <1>6, <1>7 DEF Store!StoreQuery
  <1>9. QED
    BY <1>8 DEF Store!StoreNext

(***************************************************************************)
(* Every step of the MMU is a step of the store or leaves it alone.        *)
(***************************************************************************)
LEMMA InitIsStoreInit == Init => Store!StoreInit
  <1> SUFFICES ASSUME Init
               PROVE  Store!StoreInit
    OBVIOUS
  <1>1. \A i \in PageIndexes : ~ pages[i].active
    BY DEF Init, ZeroPage
  <1>2. \A i \in SessionSlots : ~ sessions[i].active
    BY DEF Init, ZeroSession
  <1>3. \A s, l, p : Token(s, l, p) = Absent
    BY <1>1 DEF Token, FindPage
  <1>4. Live = {}
    BY <1>2 DEF Live, FindSession
  <1>5. Held = [a \in SessionIds \X Layers \X Positions |-> Absent]
    BY <1>3 DEF Held
  <1>6. reply.op = "create"
    BY DEF Init
  <1>7. QED
    BY <1>4, <1>5, <1>6 DEF Store!StoreInit, Store!Addresses, Store!Layers,
                            Store!Positions, Layers, Positions, Held

\* Operations that concern only pages and counters.
LEMMA QuietIsStoreNoUpdate ==
    ASSUME UNCHANGED <<sessions, pages>>,
           \/ reply'.op \in {"lookup_page", "reset_counters"}
           \/ reply'.op = "append" /\ reply'.status # "OK"
    PROVE  Store!StoreNext
  <1>1. UNCHANGED <<Live, [a \in SessionIds \X Layers \X Positions |->
                              Token(a[1], a[2], a[3])]>>
    BY StoreVarsUnchanged
  <1>2. Store!StoreNoUpdate
    BY <1>1 DEF Store!StoreNoUpdate
  <1>3. QED
    BY <1>2 DEF Store!StoreNext

LEMMA SessionStepIsStoreNext ==
    ASSUME TablesOK, TableInv, NEW s \in SessionIds, SessionStep(s)
    PROVE  Store!StoreNext
  <1>1. CASE CreateSession(s)
    BY <1>1, CreateIsStoreCreate
  <1>2. CASE CreateSessionRejected(s)
    BY <1>2, RefusedUpdate DEF CreateSessionRejected
  <1>3. CASE DestroySession(s)
    BY <1>3, DestroyIsStoreDestroy
  <1>4. CASE DestroySessionRejected(s)
    BY <1>4, RefusedUpdate DEF DestroySessionRejected
  <1>5. QED
    BY <1>1, <1>2, <1>3, <1>4 DEF SessionStep

LEMMA AppendStepIsStoreNext ==
    ASSUME TablesOK, TableInv, NEW s \in SessionIds, NEW l \in LayerArgs,
           NEW p \in PositionArgs, AppendStep(s, l, p)
    PROVE  Store!StoreNext
  <1>1. ASSUME NEW v \in Payloads, AppendToPage(s, l, p, v) \/ AppendNewPage(s, l, p, v)
        PROVE  Store!StoreNext
    BY <1>1, AppendIsStoreAppend
  <1>2. ASSUME NEW b \in BOOLEAN, AppendRejected(s, l, p, b)
        PROVE  Store!StoreNext
    BY <1>2, RefusedUpdate DEF AppendRejected
  <1>3. ASSUME NEW b \in BOOLEAN, AppendOutOfMemory(s, l, p, b)
        PROVE  Store!StoreNext
    <2>1. reply'.op = "append" /\ reply'.status = "OOM" /\ UNCHANGED <<sessions, pages>>
      BY <1>3 DEF AppendOutOfMemory, Answer
    <2>2. QED
      BY <2>1, QuietIsStoreNoUpdate
  <1>4. QED
    BY <1>1, <1>2, <1>3 DEF AppendStep

LEMMA QueryStepIsStoreNext ==
    ASSUME TablesOK, TableInv, NEW s \in SessionIds, NEW l \in LayerArgs,
           NEW p \in PositionArgs, QueryStep(s, l, p)
    PROVE  Store!StoreNext
  <1>0. /\ l \in Nat /\ p \in Nat /\ p \in Size /\ HeadArgs \subseteq Nat
        /\ CountArgs \subseteq Size /\ Size \subseteq Nat
    BY ArgumentsAreSizes, ConfigValid DEF Size, LayerArgs, HeadArgs
  <1>1. ASSUME NEW h \in HeadArgs, Read(s, l, h, p)
        PROVE  Store!StoreNext
    <2>1. ReadLoop("read", s, l, p, 1, 0)
      BY <1>1 DEF Read
    <2>2. QED
      BY <1>0, <2>1, ReadLoopIsStoreQuery
  <1>2. ASSUME NEW h \in HeadArgs, NEW b \in BOOLEAN, ReadRejected(s, l, h, p, b)
        PROVE  Store!StoreNext
    BY <1>0, <1>2, ReadRefused
  <1>3. ASSUME NEW h \in HeadArgs, NEW n \in CountArgs, CopyRange(s, l, h, p, n)
        PROVE  Store!StoreNext
    <2>1. ReadLoop("copy_range", s, l, p, n, 1) /\ n \in Nat
      BY <1>0, <1>3 DEF CopyRange
    <2>2. n > 0
      <3>1. CopyStatus(s, l, h, p, n, FALSE) = "OK"
        BY <1>3 DEF CopyRange
      <3>2. RangeStatus(p, n) = "OK"
        BY <3>1 DEF CopyStatus, NullStatus, Then
      <3>3. n # 0
        BY <3>2 DEF RangeStatus
      <3>4. QED
        BY <2>1, <3>3
    <2>3. QED
      BY <1>0, <2>1, <2>2, ReadLoopIsStoreQuery
  <1>4. ASSUME NEW h \in HeadArgs, NEW n \in CountArgs, NEW b \in BOOLEAN,
               CopyRangeRejected(s, l, h, p, n, b)
        PROVE  Store!StoreNext
    <2>1. n \in Size /\ h \in Nat
      BY <1>0
    <2>2. QED
      BY <1>0, <1>4, <2>1, CopyRangeRefused
  <1>5. CASE LookupPage(s, l, p)
    <2>1. reply'.op = "lookup_page" /\ UNCHANGED <<sessions, pages>>
      BY <1>5 DEF LookupPage, Answer
    <2>2. QED
      BY <2>1, QuietIsStoreNoUpdate
  <1>6. ASSUME NEW b \in BOOLEAN, LookupPageRejected(s, l, p, b)
        PROVE  Store!StoreNext
    BY <1>6, RefusedUpdate DEF LookupPageRejected
  <1>7. QED
    BY <1>1, <1>2, <1>3, <1>4, <1>5, <1>6 DEF QueryStep

LEMMA NextIsStoreNext == IInv /\ [Next]_vars => [Store!StoreNext]_(Store!storeVars)
  <1> SUFFICES ASSUME IInv, [Next]_vars
               PROVE  Store!StoreNext \/ UNCHANGED Store!storeVars
    OBVIOUS
  <1>0. TablesOK /\ TableInv
    BY IInvParts
  <1>1. CASE UNCHANGED vars
    BY <1>1, StoreVarsUnchanged DEF vars, Store!storeVars
  <1>2. CASE ResetCounters
    <2>1. reply'.op = "reset_counters" /\ UNCHANGED <<sessions, pages>>
      BY <1>2 DEF ResetCounters, Answer
    <2>2. QED
      BY <2>1, QuietIsStoreNoUpdate
  <1>3. ASSUME NEW s \in SessionIds, SessionStep(s)
        PROVE  Store!StoreNext
    BY <1>0, <1>3, SessionStepIsStoreNext
  <1>4. ASSUME NEW s \in SessionIds, NEW l \in LayerArgs, NEW p \in PositionArgs,
               AppendStep(s, l, p)
        PROVE  Store!StoreNext
    BY <1>0, <1>4, AppendStepIsStoreNext
  <1>5. ASSUME NEW s \in SessionIds, NEW l \in LayerArgs, NEW p \in PositionArgs,
               QueryStep(s, l, p)
        PROVE  Store!StoreNext
    BY <1>0, <1>5, QueryStepIsStoreNext
  <1>6. QED
    BY <1>1, <1>2, <1>3, <1>4, <1>5 DEF Next

\* The paged MMU implements the flat append-only store: whatever pages are
\* released and reused, a read or a range copy answers exactly what was appended
\* at its address since the session was created, or is refused where nothing was
\* (att1_kv_mmu_append, _read, _copy_range, _destroy_session).
THEOREM PagesImplementStore == Spec => ImplementsStore
  <1>1. QED
    BY InitIsStoreInit, NextIsStoreNext, InductiveInvariant, PTL
       DEF Spec, ImplementsStore, Store!StoreSpec
=============================================================================
