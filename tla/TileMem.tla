------------------------------ MODULE TileMem -------------------------------
(***************************************************************************)
(* The allocator of a tile's simulated memory (src/aimu_mem.c): first fit  *)
(* over the gaps between the live allocations of a table that only grows.  *)
(*                                                                         *)
(* Abstractions.  Region type, dtype, flags and name are stored and never  *)
(* read; a value out of range is one more refused request.  The 64-bit     *)
(* address space has AddressCount addresses; lengths are in its units.     *)
(***************************************************************************)
EXTENDS Integers, FiniteSets, SequencesExt

CONSTANTS Capacity,      \* capacity_bytes
          AddressCount,  \* 2^64: sums of addresses wrap here
          MinAlign,      \* ATT1_AIMU_MEM_MIN_ALIGN
          MaxAlign,      \* ATT1_AIMU_MEM_MAX_ALIGN
          MaxAllocs,     \* ATT1_AIMU_MEM_MAX_ALLOCS
          Sizes,         \* the sizes requested
          Alignments     \* the alignments requested, 0 for the default

ASSUME TileMemConfigValid ==
    /\ {Capacity, MinAlign, MaxAlign, MaxAllocs} \subseteq Nat \ {0}
    /\ AddressCount \in Nat /\ AddressCount > Capacity
    /\ Sizes \subseteq Nat /\ Alignments \subseteq Nat
    /\ \A k \in 0 .. MaxAlign : 2^k <= MaxAlign => AddressCount % 2^k = 0

VARIABLES allocs,        \* m->allocs[0 .. alloc_count - 1], the freed ones too
          nextId         \* m->next_id

memVars == <<allocs, nextId>>

\* att1_aimu_mem_alloc
Allocations == [id : Nat, base : 0 .. Capacity - 1, size : 1 .. Capacity,
                alignment : Nat, live : BOOLEAN]

\* att1_aimu_mem_create
MemInit == allocs = <<>> /\ nextId = 1

-----------------------------------------------------------------------------
IsPow2(n) == \E k \in 0 .. n : n = 2^k

\* Mutation of AlignUp: the address is taken as it is.
AlignNone(x, a) == x
\* The next multiple of a; the sum may wrap.
AlignUp(x, a) == LET y == (x + a - 1) % AddressCount IN y - (y % a)

End(r) == r.base + r.size

\* The entries of the table that are live, by their places in it.
Live == {i \in DOMAIN allocs : allocs[i].live}

\* Mutation of Sorted: the live entries in the order of the table.
TableOrder ==
    CHOOSE s \in Bijection(1 .. Cardinality(Live), Live) :
        \A j, k \in DOMAIN s : j < k => s[j] < s[k]
\* collect_live_sorted: an insertion sort, by base, that keeps the order of ties
Sorted ==
    CHOOSE s \in Bijection(1 .. Cardinality(Live), Live) :
        \A j, k \in DOMAIN s : j < k =>
            \/ allocs[s[j]].base < allocs[s[k]].base
            \/ allocs[s[j]].base = allocs[s[k]].base /\ s[j] < s[k]

\* The gaps a scan of the sorted entries meets: before each, and after the last.
Gaps == LET n == Cardinality(Live)
            s == Sorted
        IN
    [i \in 1 .. n + 1 |->
        [start |-> IF i = 1 THEN 0 ELSE End(allocs[s[i - 1]]),
         end   |-> IF i <= n THEN allocs[s[i]].base ELSE Capacity]]

\* The first address in gap g for n bytes; the loop of the code ends at an
\* alignment that wraps, as do all later gaps, so that the gap is passed over.
Holds(g, n, a) ==
    LET c == AlignUp(g.start, a) IN g.start <= c /\ c <= g.end /\ g.end - c >= n

\* Where att1_aimu_mem_alloc_range puts n bytes; -1 is ATT1_ERR_OOM.
FirstFit(n, a) ==
    LET gaps == Gaps
        fit == {i \in DOMAIN gaps : Holds(gaps[i], n, a)}
    IN IF n > Capacity \/ fit = {} THEN -1 ELSE AlignUp(gaps[Min(fit)].start, a)

ValidAlignment(a) == IsPow2(a) /\ MinAlign <= a /\ a <= MaxAlign

\* m->alloc_count >= ATT1_AIMU_MEM_MAX_ALLOCS
TableFull == Len(allocs) >= MaxAllocs

\* att1_aimu_mem_alloc_range
Alloc(n, requested) ==
    LET a == IF requested = 0 THEN MinAlign ELSE requested
        base == FirstFit(n, a)
    IN IF n = 0 \/ ~ValidAlignment(a) \/ TableFull \/ base = -1
       THEN UNCHANGED memVars
       ELSE /\ allocs' = Append(allocs, [id |-> nextId, base |-> base, size |-> n,
                                         alignment |-> a, live |-> TRUE])
            /\ nextId' = nextId + 1

\* att1_aimu_mem_free: an unknown or freed identifier is refused
Free(id) ==
    IF \E i \in DOMAIN allocs : allocs[i].id = id /\ allocs[i].live
    THEN LET i == CHOOSE j \in DOMAIN allocs : allocs[j].id = id
         IN allocs' = [allocs EXCEPT ![i].live = FALSE] /\ UNCHANGED nextId
    ELSE UNCHANGED memVars

\* att1_aimu_mem_reset
Reset == allocs' = <<>> /\ nextId' = 1

MemNext ==
    \/ \E n \in Sizes, a \in Alignments : Alloc(n, a)
    \/ \E id \in 0 .. MaxAllocs : Free(id)
    \/ Reset

MemSpec == MemInit /\ [][MemNext]_memVars

-----------------------------------------------------------------------------
\* The live entries that hold an address.
Holders(addr) == {i \in Live : allocs[i].base <= addr /\ addr < End(allocs[i])}

\* att1_aimu_mem_query_by_address: the first of them in the table, if any
QueryByAddress(addr) == IF Holders(addr) = {} THEN {} ELSE {Min(Holders(addr))}

\* att1_aimu_mem_range_valid
RangeValid(addr, n) ==
    /\ n # 0 /\ addr <= AddressCount - 1 - n
    /\ \E i \in Live : allocs[i].base <= addr /\ addr + n <= End(allocs[i])

\* The sum of the sizes of the sorted entries.
UsedBytes ==
    LET s == Sorted
        sum[k \in 0 .. Cardinality(Live)] ==
            IF k = 0 THEN 0 ELSE sum[k - 1] + allocs[s[k]].size
    IN  sum[Cardinality(Live)]

\* att1_aimu_mem_get_frag
Frag ==
    LET used == UsedBytes
        free == IF Capacity > used THEN Capacity - used ELSE 0
        gaps == Gaps
        largest == Max({0} \cup {gaps[i].end - gaps[i].start : i \in DOMAIN gaps})
    IN [used |-> used, free |-> free, largest |-> largest, count |-> Cardinality(Live),
        pct |-> IF free = 0 \/ largest >= free THEN 0
                ELSE Min({100, ((free - largest) * 100) \div free})]

\* att1_aimu_mem_render prints Frag and the live entries and changes nothing.

-----------------------------------------------------------------------------
\* The table never outgrows its array, and identifiers are those of the slots.
MemTypeOK ==
    /\ allocs \in Seq(Allocations) /\ Len(allocs) <= MaxAllocs
    /\ nextId = Len(allocs) + 1
    /\ \A i \in DOMAIN allocs : allocs[i].id = i

FreeBytes == {b \in 0 .. Capacity - 1 : QueryByAddress(b) = {}}

\* Live allocations lie inside the capacity, are aligned, and share no byte: an
\* address belongs to at most one, and a range that is valid lies in one.
LiveDisjoint ==
    /\ \A i \in Live : End(allocs[i]) <= Capacity /\ allocs[i].base % allocs[i].alignment = 0
    /\ \A b \in 0 .. Capacity - 1 : Holders(b) = QueryByAddress(b)
    /\ \A b \in 0 .. AddressCount - 1, n \in Sizes :
          RangeValid(b, n) => \A c \in b .. b + n - 1 : QueryByAddress(c) = QueryByAddress(b)

\* The scan over sorted gaps finds room whenever some aligned range of free bytes
\* is large enough, and takes the lowest one, also where aligning wraps.
FirstFitIsLowest ==
    \A n \in Sizes \ {0}, a \in {x \in Alignments : ValidAlignment(x)} :
        LET rooms == {b \in 0 .. Capacity - n : b % a = 0 /\ b .. b + n - 1 \subseteq FreeBytes}
        IN FirstFit(n, a) = IF rooms = {} THEN -1 ELSE Min(rooms)

\* get_frag reports the free bytes and the longest run of them, whatever the order
\* in which allocations were made and freed.
FragIsExact ==
    LET runs == {n \in 0 .. Capacity : \E b \in 0 .. Capacity - n :
                    b .. b + n - 1 \subseteq FreeBytes}
    IN /\ Frag.free = Cardinality(FreeBytes) /\ Frag.used + Frag.free = Capacity
       /\ Frag.largest = Max(runs)
       /\ Frag.pct \in 0 .. 100

\* "Maximum number of live allocations per tile allocator" (att1_aimu_mem.h:75): a
\* request finds the table full only when that many allocations are live.
TableBoundsLive == TableFull => Cardinality(Live) = MaxAllocs
=============================================================================
