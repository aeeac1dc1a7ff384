-------------------------------- MODULE Dma ---------------------------------
(***************************************************************************)
(* The DMA simulator (src/aimu_dma.c): the memory regions registered with  *)
(* it, the validation of a descriptor against them in wrapping 64-bit      *)
(* arithmetic, and the counters a submission moves.                        *)
(*                                                                         *)
(* Abstractions.  Checks 1 to 5 of validate_desc look only at fields that  *)
(* nothing else reads; a descriptor's form is the first of them to fail:   *)
(* its flags, or another one.  Addresses and lengths are in units of which *)
(* AlignBytes make the alignment.                                          *)
(***************************************************************************)
EXTENDS Integers, SequencesExt

CONSTANTS AddressRange,  \* 2^64: an address plus a length wraps here
          AlignBytes,    \* ATT1_AIMU_DMA_ALIGN_BYTES
          MaxRegions,    \* ATT1_AIMU_DMA_MAX_HOST_REGIONS, .._DEVICE_REGIONS
          Regions        \* the regions registered: [base, size]

ASSUME DmaConfigValid ==
    /\ {AddressRange, AlignBytes, MaxRegions} \subseteq Nat \ {0}
    /\ Regions \subseteq [base : 0 .. AddressRange - 1, size : 0 .. AddressRange - 1]

VARIABLES regions,       \* sim->host_regions and device_regions
          counters       \* sim->counters

dmaVars == <<regions, counters>>

Sides == {"host", "device"}
\* att1_aimu_dma_direction
Directions == {"to_device", "to_host", "on_device"}
\* The first format check that fails
Forms == {"valid", "flags", "malformed"}
\* dma_vresult, as far as the counters tell results apart
Verdicts == {"valid", "other", "alignment", "range", "flags"}

\* att1_aimu_dma_counters, in the order of the structure
ZeroCounters ==
    [submitted |-> 0, completed |-> 0, failed |-> 0,
     to_device |-> 0, to_host |-> 0, on_device |-> 0,
     alignment |-> 0, range |-> 0, flags |-> 0]

\* att1_aimu_dma_create
DmaInit ==
    /\ regions = [s \in Sides |-> <<>>]
    /\ counters = ZeroCounters

-----------------------------------------------------------------------------
Plus(x, n) == (x + n) % AddressRange

\* region_contains: a region that ends at the top of the address space has
\* "itself overflowed" and holds nothing.
RegionContains(r, addr, n) ==
    /\ r.base <= addr
    /\ Plus(addr, n) >= addr
    /\ Plus(r.base, r.size) >= r.base
    /\ Plus(addr, n) <= Plus(r.base, r.size)

\* fits_any_region, skipped while no region is registered
InRange(side, addr, n) ==
    \/ regions[side] = <<>>
    \/ \E i \in DOMAIN regions[side] : RegionContains(regions[side][i], addr, n)

\* ranges_overlap, of ranges that do not wrap
Overlap(a, b, n) == ~(Plus(a, n) <= b \/ Plus(b, n) <= a)

\* The sides of a descriptor's first and second address
SidesOf(dir) == IF dir = "on_device" THEN <<"device", "device">> ELSE <<"host", "device">>

\* Mutation of Overflows: only the first end is looked at.
OverflowsFirst(d) == Plus(d.first, d.length) < d.first
\* Check 7, for both addresses
Overflows(d) == Plus(d.first, d.length) < d.first \/ Plus(d.second, d.length) < d.second

\* validate_desc: [dir, first, second, length, form], the two addresses being
\* host and device, or source and destination on the device
Validate(d) ==
    CASE d.form = "flags"     -> "flags"
      [] d.form = "malformed" -> "other"
      [] d.form = "valid" /\ (d.first % AlignBytes # 0 \/ d.second % AlignBytes # 0) -> "alignment"
      [] OTHER ->
            IF \/ Overflows(d)
               \/ d.dir = "on_device" /\ Overlap(d.first, d.second, d.length)
               \/ ~InRange(SidesOf(d.dir)[1], d.first, d.length)
               \/ ~InRange(SidesOf(d.dir)[2], d.second, d.length)
            THEN "range" ELSE "valid"

\* The counters after att1_aimu_dma_submit of d
Counted(d) ==
    LET v == Validate(d) IN
    [c \in DOMAIN counters |-> counters[c] +
        CASE c = "submitted" -> 1
          [] c = "completed" -> IF v = "valid" THEN 1 ELSE 0
          [] c = "failed"    -> IF v = "valid" THEN 0 ELSE 1
          [] c \in Directions -> IF v = "valid" /\ d.dir = c THEN d.length ELSE 0
          [] OTHER           -> IF v = c THEN 1 ELSE 0]

\* The side's table has no slot left
RegionsFull(side) == Len(regions[side]) >= MaxRegions

\* att1_aimu_dma_register_host_region, att1_aimu_dma_register_device_region
RegisterRegion(side, r) ==
    /\ regions' = IF r.size = 0 \/ r.base % AlignBytes # 0 \/ RegionsFull(side)
                  THEN regions
                  ELSE [regions EXCEPT ![side] = Append(@, r)]
    /\ UNCHANGED counters

\* att1_aimu_dma_submit
Submit(d) == counters' = Counted(d) /\ UNCHANGED regions

\* att1_aimu_dma_reset_counters
ResetCounters == counters' = ZeroCounters /\ UNCHANGED regions

-----------------------------------------------------------------------------
\* Every submission is counted once as completed or failed, and a failure in at
\* most one class.
DmaTypeOK ==
    /\ regions \in [Sides -> Seq(Regions)]
    /\ \A s \in Sides : Len(regions[s]) <= MaxRegions
    /\ counters \in [DOMAIN ZeroCounters -> Nat]
    /\ counters.submitted = counters.completed + counters.failed
    /\ counters.alignment + counters.range + counters.flags <= counters.failed
=============================================================================
