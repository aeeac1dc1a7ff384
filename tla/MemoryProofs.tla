---------------------------- MODULE MemoryProofs ----------------------------
(***************************************************************************)
(* The memory of a tile, for every size of the address space, of the       *)
(* chunks and of the tables.  Descriptors that pass validation move bytes  *)
(* that exist, and a tensor is taken for resident only when all of it has  *)
(* been moved; the allocator gives no byte twice, finds room at the lowest *)
(* address that has it, and reports its fragmentation as it is.            *)
(***************************************************************************)
EXTENDS Transfers, TileMem, FiniteSetTheorems, WellFoundedInduction, TLAPS

(***************************************************************************)
(* Sums of addresses.                                                      *)
(***************************************************************************)
Words == 0 .. AddressRange - 1

LEMMA PlusCases ==
    ASSUME NEW x \in Words, NEW n \in Words
    PROVE  /\ x \in Nat /\ n \in Nat
           /\ x + n < AddressRange => Plus(x, n) = x + n
           /\ ~(x + n < AddressRange) => Plus(x, n) = x + n - AddressRange
           /\ Plus(x, n) >= x <=> x + n < AddressRange
  <1>1. AddressRange \in Nat \ {0} /\ x \in Nat /\ n \in Nat
        /\ x < AddressRange /\ n < AddressRange
    BY DmaConfigValid DEF Words
  <1>2. x + n < AddressRange => Plus(x, n) = x + n
    <2>1. x + n < AddressRange => x + n \in 0 .. AddressRange - 1
      BY <1>1
    <2>2. QED
      BY <1>1, <2>1 DEF Plus
  <1>3. ~(x + n < AddressRange) => Plus(x, n) = x + n - AddressRange
    <2> SUFFICES ASSUME ~(x + n < AddressRange)
                 PROVE  Plus(x, n) = x + n - AddressRange
      OBVIOUS
    <2> DEFINE r == x + n - AddressRange
    <2>1. r \in 0 .. AddressRange - 1 /\ 1 * AddressRange + r = x + n
      BY <1>1
    <2> HIDE DEF r
    <2>2. (1 * AddressRange + r) % AddressRange = r
      BY <1>1, <2>1
    <2>3. QED
      BY <2>1, <2>2 DEF Plus, r
  <1>4. QED
    BY <1>1, <1>2, <1>3

LEMMA ArgumentTypes ==
    /\ AddressRange \in Nat \ {0} /\ MaxTransfer \in Nat \ {0} /\ MaxResident \in Nat
    /\ \A a \in Addresses : a \in Words /\ a \in Nat
    /\ \A n \in 1 .. MaxTransfer : n \in Words /\ n \in Nat \ {0}
    /\ \A r \in Regions : r.base \in Words /\ r.size \in Words
  BY DmaConfigValid, TransfersConfigValid DEF Words

RegionsOK == regions \in [Sides -> Seq(Regions)]

\* One region: its end does not wrap, and the bytes lie in it.
LEMMA RegionBytes ==
    ASSUME NEW r \in Regions, NEW a \in Addresses, NEW n \in 1 .. MaxTransfer,
           a + n < AddressRange
    PROVE  /\ RegionContains(r, a, n) =>
                 Bytes(a, n) \subseteq Bytes(r.base, r.size) /\ r.base + r.size <= AddressRange
           /\ Bytes(a, n) \subseteq Bytes(r.base, r.size) /\ r.base + r.size <= AddressRange - 1
                 => RegionContains(r, a, n)
  <1>1. /\ a \in Words /\ n \in Words /\ r.base \in Words /\ r.size \in Words
        /\ a \in Nat /\ n \in Nat \ {0} /\ AddressRange \in Nat
    BY ArgumentTypes
  <1>2. Plus(a, n) = a + n
    BY <1>1, PlusCases
  <1> DEFINE base == r.base
             size == r.size
  <1>3. /\ base \in Nat /\ size \in Nat
        /\ base + size < AddressRange => Plus(base, size) = base + size
        /\ Plus(base, size) >= base <=> base + size < AddressRange
    BY <1>1, PlusCases
  <1> HIDE DEF base, size
  <1>4. Bytes(a, n) \subseteq Bytes(base, size) <=> base <= a /\ a + n <= base + size
    <2>1. a \in Bytes(a, n) /\ a + n - 1 \in Bytes(a, n)
      BY <1>1 DEF Bytes
    <2>2. QED
      BY <1>1, <1>3, <2>1 DEF Bytes
  <1>5. RegionContains(r, a, n) <=>
            base <= a /\ base + size < AddressRange /\ a + n <= base + size
    BY <1>1, <1>2, <1>3 DEF RegionContains, base, size
  <1>6. QED
    BY <1>1, <1>3, <1>4, <1>5 DEF base, size

LEMMA SideBytes ==
    ASSUME RegionsOK, NEW side \in Sides, NEW a \in Addresses, NEW n \in 1 .. MaxTransfer
    PROVE  /\ a + n < AddressRange /\ InRange(side, a, n) => Inside(side, a, n)
           /\ InsideBelowTop(side, a, n) => a + n < AddressRange /\ InRange(side, a, n)
  <1>1. \A i \in DOMAIN regions[side] : regions[side][i] \in Regions
    BY DEF RegionsOK
  <1>2. a \in Nat /\ n \in Nat \ {0} /\ AddressRange \in Nat /\ a + n - 1 \in Bytes(a, n)
    BY ArgumentTypes DEF Bytes
  <1>3. a + n < AddressRange => Bytes(a, n) \subseteq 0 .. AddressRange - 1
    BY <1>2 DEF Bytes
  <1>4. Bytes(a, n) \subseteq 0 .. AddressRange - 1 - 1 => a + n < AddressRange
    BY <1>2
  <1>5. a + n < AddressRange /\ InRange(side, a, n) => Inside(side, a, n)
    BY <1>1, <1>3, RegionBytes DEF InRange, Inside, InsideBelow
  <1>6. InsideBelowTop(side, a, n) => a + n < AddressRange /\ InRange(side, a, n)
    BY <1>1, <1>4, RegionBytes DEF InRange, InsideBelowTop, InsideBelow
  <1>7. QED
    BY <1>5, <1>6

\* The test of check 8 is that the two ranges share no byte.
LEMMA OverlapBytes ==
    ASSUME NEW a \in Addresses, NEW b \in Addresses, NEW n \in 1 .. MaxTransfer,
           a + n < AddressRange, b + n < AddressRange
    PROVE  Overlap(a, b, n) <=> Bytes(a, n) \cap Bytes(b, n) # {}
  <1>1. /\ a \in Words /\ b \in Words /\ n \in Words
        /\ a \in Nat /\ b \in Nat /\ n \in Nat \ {0}
    BY ArgumentTypes
  <1>2. Plus(a, n) = a + n /\ Plus(b, n) = b + n
    BY <1>1, PlusCases
  <1>3. Overlap(a, b, n) <=> b < a + n /\ a < b + n
    BY <1>1, <1>2 DEF Overlap
  <1>4. ASSUME b < a + n, a < b + n
        PROVE  Bytes(a, n) \cap Bytes(b, n) # {}
    <2>1. CASE a <= b
      <3>1. b \in Bytes(a, n) /\ b \in Bytes(b, n)
        BY <1>1, <1>4, <2>1 DEF Bytes
      <3>2. QED
        BY <3>1
    <2>2. CASE b < a
      <3>1. a \in Bytes(a, n) /\ a \in Bytes(b, n)
        BY <1>1, <1>4, <2>2 DEF Bytes
      <3>2. QED
        BY <3>1
    <2>3. QED
      BY <1>1, <2>1, <2>2
  <1>5. ASSUME NEW x \in Bytes(a, n) \cap Bytes(b, n)
        PROVE  b < a + n /\ a < b + n
    BY <1>1 DEF Bytes
  <1>6. QED
    BY <1>3, <1>4, <1>5

\* What the verdict on a descriptor of valid form says of its bytes.
LEMMA VerdictBytes ==
    ASSUME RegionsOK, NEW dir \in Directions, NEW a \in Addresses, NEW b \in Addresses,
           NEW n \in 1 .. MaxTransfer
    PROVE  LET apart == dir = "on_device" => Bytes(a, n) \cap Bytes(b, n) = {}
               verdict == Validate(Descriptor(dir, a, b, n, "valid"))
           IN /\ verdict = "valid" =>
                    Inside(SidesOf(dir)[1], a, n) /\ Inside(SidesOf(dir)[2], b, n) /\ apart
              /\ verdict # "valid" =>
                    \/ a % AlignBytes # 0 \/ b % AlignBytes # 0 \/ ~apart
                    \/ ~InsideBelowTop(SidesOf(dir)[1], a, n)
                    \/ ~InsideBelowTop(SidesOf(dir)[2], b, n)
  <1> DEFINE d == Descriptor(dir, a, b, n, "valid")
             first == SidesOf(dir)[1]
             second == SidesOf(dir)[2]
             apart == dir = "on_device" => Bytes(a, n) \cap Bytes(b, n) = {}
             aligned == a % AlignBytes = 0 /\ b % AlignBytes = 0
  <1>1. /\ d.form = "valid" /\ d.dir = dir /\ d.first = a /\ d.second = b /\ d.length = n
    BY DEF Descriptor
  <1>2. first \in Sides /\ second \in Sides
    BY DEF Directions, SidesOf, Sides
  <1>3. Overflows(d) <=> ~(a + n < AddressRange /\ b + n < AddressRange)
    <2>1. a \in Words /\ b \in Words /\ n \in Words /\ AddressRange \in Nat
      BY ArgumentTypes
    <2>2. /\ Plus(a, n) < a <=> ~(a + n < AddressRange)
          /\ Plus(b, n) < b <=> ~(b + n < AddressRange)
      <3>1. \A x \in Words : Plus(x, n) < x <=> ~(x + n < AddressRange)
        <4> TAKE x \in Words
        <4>1. /\ x \in Nat /\ n \in Nat /\ n < AddressRange
              /\ x + n < AddressRange => Plus(x, n) = x + n
              /\ ~(x + n < AddressRange) => Plus(x, n) = x + n - AddressRange
          BY <2>1, PlusCases DEF Words
        <4>2. QED
          BY <2>1, <4>1
      <3>2. QED
        BY <2>1, <3>1
    <2>3. QED
      BY <1>1, <2>2 DEF Overflows
  <1>4. Validate(d) = "valid" <=>
            /\ aligned /\ ~Overflows(d)
            /\ ~(dir = "on_device" /\ Overlap(a, b, n))
            /\ InRange(first, a, n) /\ InRange(second, b, n)
    BY <1>1 DEF Validate
  <1> HIDE DEF d, first, second
  <1>5. ASSUME Validate(d) = "valid"
        PROVE  Inside(first, a, n) /\ Inside(second, b, n) /\ apart
    BY <1>2, <1>3, <1>4, <1>5, SideBytes, OverlapBytes
  <1>6. ASSUME aligned, apart, InsideBelowTop(first, a, n), InsideBelowTop(second, b, n)
        PROVE  Validate(d) = "valid"
    BY <1>2, <1>3, <1>4, <1>6, SideBytes, OverlapBytes
  <1>7. QED
    BY <1>5, <1>6 DEF d, first, second

(***************************************************************************)
(* The inductive invariant.  The table alone is not inductive: its entry   *)
(* is made when the last chunk is accepted, so the load half way counts,   *)
(* whose bytes before the offset have been moved, whose next chunk starts  *)
(* at an address that exists, and whose entry is new and has a slot.       *)
(***************************************************************************)
BytesOf(t, set) ==
    UNION {Bytes(m.desc.second, m.desc.length) : m \in {x \in set : x.tensor = t}}

Loads == [tensor : Tensors, host : Addresses, device : Addresses, length : Nat \ {0}, offset : Nat]
ResidentEntries == [tensor : Tensors, device : Addresses, length : Nat]

LoadHalfWay ==
    /\ loading \in Loads
    /\ loading.offset < loading.length
    /\ loading.device + loading.offset < AddressRange
    /\ Bytes(loading.device, loading.offset) \subseteq BytesOf(loading.tensor, moved)
    /\ ~IsResident(loading.tensor)
    /\ Len(resident) < MaxResident

Residencies == [transfers : Nat, descriptors : Nat, bytes : Nat, duplicates : Nat]

ResidentTable ==
    /\ resident \in Seq(ResidentEntries)
    /\ residency \in Residencies
    /\ \A i \in DOMAIN resident :
          Bytes(resident[i].device, resident[i].length) \subseteq BytesOf(resident[i].tensor, moved)
    /\ \A i, j \in DOMAIN resident : resident[i].tensor = resident[j].tensor => i = j
    /\ Len(resident) <= MaxResident
    /\ residency.transfers = Len(resident)

TransfersInv ==
    /\ RegionsOK
    /\ ResidentTable
    /\ loading = NoLoad \/ LoadHalfWay

(***************************************************************************)
(* Validation, in every state.                                             *)
(***************************************************************************)

\* A registration appends a region of the set or nothing.
LEMMA RegionsStayOK ==
    ASSUME RegionsOK, [Next]_vars
    PROVE  RegionsOK'
  <1>1. CASE UNCHANGED regions
    BY <1>1 DEF RegionsOK
  <1>2. ASSUME NEW side \in Sides, NEW r \in Regions, RegisterRegion(side, r)
        PROVE  RegionsOK'
    <2>1. Append(regions[side], r) \in Seq(Regions)
      BY DEF RegionsOK
    <2>2. QED
      BY <1>2, <2>1 DEF RegisterRegion, RegionsOK
  <1>3. (\E side \in Sides, r \in Regions : RegisterRegion(side, r)) \/ UNCHANGED regions
    BY DEF Next, vars, dmaVars, LoadBegin, LoadChunk, Handled, OtherSubmit, OtherRegister,
           OtherReset, Submit, ResetCounters
  <1>4. QED
    BY <1>1, <1>2, <1>3

\* What the verdict says of the bytes of a descriptor (validate_desc) it says in
\* every reachable state, whatever regions have been registered.
THEOREM ValidMovesExistingBytes == Spec => []ValidIsInside
  <1>1. Init => RegionsOK
    BY DEF Init, DmaInit, RegionsOK
  <1>2. RegionsOK /\ [Next]_vars => RegionsOK'
    BY RegionsStayOK
  <1>3. RegionsOK => ValidIsInside
    BY VerdictBytes DEF ValidIsInside
  <1>4. QED
    BY <1>1, <1>2, <1>3, PTL DEF Spec

(***************************************************************************)
(* The chunks of a load.                                                   *)
(***************************************************************************)

\* The next chunk: where it lies, and when it is valid.
LEMMA NextChunkBytes ==
    ASSUME LoadHalfWay, NEW form \in ChunkForms
    PROVE  /\ ChunkLength \in 1 .. MaxTransfer
           /\ loading.offset + ChunkLength <= loading.length
           /\ NextChunk(form).second = loading.device + loading.offset
           /\ NextChunk(form).length = ChunkLength
           /\ Validate(NextChunk(form)) = "valid" =>
                 loading.device + loading.offset + ChunkLength < AddressRange
  <1> DEFINE device == loading.device
             offset == loading.offset
             length == loading.length
             n == ChunkLength
             second == device + offset
  <1>1. device \in Nat /\ offset \in Nat /\ length \in Nat /\ offset < length
    <2>1. loading.device \in Addresses
      BY DEF LoadHalfWay, Loads
    <2>2. QED
      BY <2>1, ArgumentTypes DEF LoadHalfWay, Loads
  <1>2. AddressRange \in Nat \ {0} /\ MaxTransfer \in Nat \ {0} /\ second < AddressRange
    BY ArgumentTypes DEF LoadHalfWay
  <1>3. n \in 1 .. MaxTransfer /\ offset + n <= length
    BY <1>1, <1>2 DEF ChunkLength
  <1>4. n \in Words /\ n \in Nat
    BY <1>3, ArgumentTypes
  <1>5. device \in Words /\ offset \in Words /\ second \in Words /\ second \in Nat
    BY <1>1, <1>2 DEF Words
  <1>6. NextChunk(form).second = second /\ NextChunk(form).length = n
    <2>1. NextChunk(form).second = Plus(device, offset) /\ NextChunk(form).length = n
      BY DEF NextChunk, Descriptor
    <2>2. Plus(device, offset) = device + offset
      BY <1>2, <1>5, PlusCases
    <2>3. QED
      BY <2>1, <2>2
  <1> HIDE DEF n, second
  <1>7. ASSUME Validate(NextChunk(form)) = "valid"
        PROVE  second + n < AddressRange
    <2>1. NextChunk(form).form = "valid"
      BY <1>7 DEF NextChunk, Descriptor, ChunkForms, Validate
    <2>2. ~Overflows(NextChunk(form))
      BY <1>7, <2>1 DEF Validate
    <2>3. ~(Plus(second, n) < second)
      BY <1>6, <2>2 DEF Overflows
    <2>4. ~(second + n < AddressRange) => Plus(second, n) = second + n - AddressRange
      BY <1>4, <1>5, PlusCases
    <2>5. n < AddressRange
      BY <1>2, <1>4 DEF Words
    <2>6. QED
      BY <1>2, <1>4, <1>5, <2>3, <2>4, <2>5
  <1>8. QED
    BY <1>3, <1>6, <1>7 DEF n, second

\* Bytes up to an offset and n bytes from there on.
LEMMA BytesJoin ==
    ASSUME NEW a \in Nat, NEW m \in Nat, NEW n \in Nat
    PROVE  Bytes(a, m + n) \subseteq Bytes(a, m) \cup Bytes(a + m, n)
  BY DEF Bytes

\* The bytes moved for a tensor only grow.
LEMMA MovedGrows ==
    ASSUME NEW before, NEW after, before \subseteq after, NEW t
    PROVE  BytesOf(t, before) \subseteq BytesOf(t, after)
  BY DEF BytesOf

\* A table that stays as it is keeps what holds of it when more is moved.
LEMMA TableKept ==
    ASSUME ResidentTable, moved \subseteq moved', resident' = resident,
           residency' \in Residencies, residency'.transfers = residency.transfers
    PROVE  ResidentTable'
  BY MovedGrows DEF ResidentTable

LEMMA HalfWayKept ==
    ASSUME loading = NoLoad \/ LoadHalfWay, moved \subseteq moved',
           loading' = loading, resident' = resident
    PROVE  (loading = NoLoad \/ LoadHalfWay)'
  BY MovedGrows DEF LoadHalfWay, IsResident

\* Nothing the engine does for others takes bytes off the set.
LEMMA MovedOnlyGrows ==
    ASSUME [Next]_vars
    PROVE  moved \subseteq moved'
  BY DEF Next, vars, LoadBegin, LoadChunk, Handled, OtherSubmit, OtherRegister, OtherReset

(***************************************************************************)
(* The steps of a load.                                                    *)
(***************************************************************************)

\* att1_backend_pcie_load_tensor up to its loop: a resident tensor is counted as a
\* duplicate, a full table ends it, and otherwise nothing is moved yet.
LEMMA LoadBeginKeeps ==
    ASSUME ResidentTable, loading = NoLoad \/ LoadHalfWay,
           NEW t \in Tensors, NEW host \in Addresses, NEW device \in Addresses, NEW n \in Lengths,
           LoadBegin(t, host, device, n)
    PROVE  ResidentTable' /\ (loading = NoLoad \/ LoadHalfWay)'
  <1>1. resident' = resident /\ moved' = moved /\ n \in Nat /\ device \in Nat
    BY ArgumentTypes, TransfersConfigValid DEF LoadBegin
  <1>2. CASE n # 0 /\ IsResident(t)
    <2>1. residency' = [residency EXCEPT !.duplicates = @ + 1] /\ loading' = loading
      BY <1>2 DEF LoadBegin
    <2>2. residency' \in Residencies /\ residency'.transfers = residency.transfers
      BY <2>1 DEF ResidentTable, Residencies
    <2>3. QED
      BY <1>1, <2>1, <2>2, TableKept, HalfWayKept
  <1>3. CASE ~(n # 0 /\ IsResident(t))
    <2>1. /\ residency' = residency
          /\ loading' = IF n = 0 \/ Len(resident) >= MaxResident THEN NoLoad
                        ELSE [tensor |-> t, host |-> host, device |-> device,
                              length |-> n, offset |-> 0]
      BY <1>3 DEF LoadBegin
    <2>2. ResidentTable'
      BY <1>1, <2>1, TableKept DEF ResidentTable
    <2>3. CASE n = 0 \/ Len(resident) >= MaxResident
      BY <2>1, <2>2, <2>3 DEF NoLoad
    <2>4. CASE ~(n = 0 \/ Len(resident) >= MaxResident)
      <3>1. loading' = [tensor |-> t, host |-> host, device |-> device,
                        length |-> n, offset |-> 0]
        BY <2>1, <2>4
      <3>2. /\ loading' \in Loads /\ loading'.offset < loading'.length
            /\ loading'.tensor = t /\ loading'.device = device /\ loading'.offset = 0
        BY <1>1, <2>4, <3>1 DEF Loads
      <3>3. device + 0 < AddressRange /\ Bytes(device, 0) = {}
        BY <1>1, ArgumentTypes DEF Bytes, Words
      <3>4. ~IsResident(t)' /\ (Len(resident) < MaxResident)'
        <4>1. ~IsResident(t)
          BY <1>3, <2>4
        <4>2. Len(resident) \in Nat /\ MaxResident \in Nat
          BY ArgumentTypes DEF ResidentTable
        <4>3. QED
          BY <1>1, <2>4, <4>1, <4>2 DEF IsResident
      <3>5. LoadHalfWay'
        BY <3>2, <3>3, <3>4 DEF LoadHalfWay, IsResident
      <3>6. QED
        BY <2>2, <3>5
    <2>5. QED
      BY <2>3, <2>4
  <1>4. QED
    BY <1>2, <1>3

\* A chunk the engine accepted and whose answer arrived: the bytes moved reach up to
\* the new offset; after the last chunk that is all of the tensor.
LEMMA ChunkAcceptedKeeps ==
    ASSUME ResidentTable, LoadHalfWay, moved \subseteq moved', NEW form \in ChunkForms,
           Validate(NextChunk(form)) = "valid", Handled(NextChunk(form)), ChunkAccepted(ChunkLength)
    PROVE  ResidentTable' /\ (loading = NoLoad \/ LoadHalfWay)'
  <1> DEFINE t == loading.tensor
             device == loading.device
             offset == loading.offset
             length == loading.length
             n == ChunkLength
             done == offset + n >= length
             entry == [tensor |-> t, device |-> device, length |-> length]
  <1>1. /\ t \in Tensors /\ device \in Addresses /\ device \in Nat /\ offset \in Nat
        /\ length \in Nat /\ n \in Nat \ {0} /\ AddressRange \in Nat /\ MaxResident \in Nat
    <2>1. loading \in Loads /\ n \in 1 .. MaxTransfer
      BY NextChunkBytes DEF LoadHalfWay
    <2>2. QED
      BY <2>1, ArgumentTypes DEF Loads
  <1>2. offset + n <= length /\ device + offset + n < AddressRange
    BY NextChunkBytes
  <1>3. Bytes(device, offset + n) \subseteq BytesOf(t, moved')
    <2>1. moved' = moved \cup {[desc |-> NextChunk(form), tensor |-> t]}
      BY DEF Handled
    <2>2. Bytes(device + offset, n) \subseteq BytesOf(t, moved')
      <3> DEFINE m == [desc |-> NextChunk(form), tensor |-> t]
      <3>1. m \in {x \in moved' : x.tensor = t}
        BY <2>1
      <3>2. m.desc.second = device + offset /\ m.desc.length = n
        BY NextChunkBytes
      <3> HIDE DEF m
      <3>3. Bytes(m.desc.second, m.desc.length) \subseteq BytesOf(t, moved')
        BY <3>1 DEF BytesOf
      <3>4. QED
        BY <3>2, <3>3
    <2>3. Bytes(device, offset) \subseteq BytesOf(t, moved')
      BY MovedGrows DEF LoadHalfWay
    <2>4. QED
      BY <1>1, <2>2, <2>3, BytesJoin
  <1>4. /\ resident' = IF done THEN Append(resident, entry) ELSE resident
        /\ residency' = [residency EXCEPT !.descriptors = @ + 1, !.bytes = @ + n,
                                          !.transfers = @ + IF done THEN 1 ELSE 0]
        /\ loading' = IF done THEN NoLoad ELSE [loading EXCEPT !.offset = @ + n]
    BY DEF ChunkAccepted
  <1>5. residency' \in Residencies
        /\ residency'.transfers = residency.transfers + IF done THEN 1 ELSE 0
    <2> DEFINE more == IF done THEN 1 ELSE 0
    <2>1. residency \in Residencies /\ more \in Nat /\ n \in Nat
      BY <1>1 DEF ResidentTable
    <2>2. residency' = [residency EXCEPT !.descriptors = @ + 1, !.bytes = @ + n,
                                         !.transfers = @ + more]
      BY <1>4
    <2> HIDE DEF n, more
    <2>3. /\ residency.transfers \in Nat /\ residency.descriptors \in Nat
          /\ residency.bytes \in Nat /\ residency.duplicates \in Nat
      BY <2>1 DEF Residencies
    <2>4. residency' = [transfers |-> residency.transfers + more,
                        descriptors |-> residency.descriptors + 1,
                        bytes |-> residency.bytes + n,
                        duplicates |-> residency.duplicates]
      BY <2>1, <2>2 DEF Residencies
    <2>5. residency' \in Residencies
      BY <2>1, <2>3, <2>4 DEF Residencies
    <2>6. QED
      BY <2>4, <2>5 DEF more
  <1>6. CASE done
    <2>1. resident' = Append(resident, entry) /\ loading' = NoLoad
      BY <1>4, <1>6
    <2>2. residency'.transfers = residency.transfers + 1
      BY <1>5, <1>6
    <2>3. offset + n = length
      BY <1>1, <1>2, <1>6
    <2>4. entry \in ResidentEntries
      BY <1>1 DEF ResidentEntries
    <2>5. Bytes(entry.device, entry.length) \subseteq BytesOf(entry.tensor, moved')
      BY <1>3, <2>3
    <2>6. entry.tensor = t
      OBVIOUS
    <2> HIDE DEF entry
    <2>7. resident \in Seq(ResidentEntries) /\ Len(resident) \in Nat
      BY DEF ResidentTable
    <2>8. /\ resident' \in Seq(ResidentEntries)
          /\ Len(resident') = Len(resident) + 1
          /\ DOMAIN resident' = 1 .. Len(resident) + 1
          /\ DOMAIN resident = 1 .. Len(resident)
          /\ resident'[Len(resident) + 1] = entry
          /\ \A i \in DOMAIN resident : resident'[i] = resident[i]
      BY <2>1, <2>4, <2>7
    <2>9. \A i \in DOMAIN resident' : i \in DOMAIN resident \/ i = Len(resident) + 1
      BY <2>7, <2>8
    <2>10. \A i \in DOMAIN resident' :
              Bytes(resident'[i].device, resident'[i].length) \subseteq
                  BytesOf(resident'[i].tensor, moved')
      <3> TAKE i \in DOMAIN resident'
      <3>1. CASE i \in DOMAIN resident
        BY <2>8, <3>1, MovedGrows DEF ResidentTable
      <3>2. CASE i = Len(resident) + 1
        BY <2>5, <2>8, <3>2
      <3>3. QED
        BY <2>9, <3>1, <3>2
    <2>11. \A i \in DOMAIN resident : resident[i].tensor # entry.tensor
      BY <2>6 DEF LoadHalfWay, IsResident
    <2>12. \A i, j \in DOMAIN resident' : resident'[i].tensor = resident'[j].tensor => i = j
      <3> TAKE i, j \in DOMAIN resident'
      <3>1. CASE i \in DOMAIN resident /\ j \in DOMAIN resident
        BY <2>8, <3>1 DEF ResidentTable
      <3>2. CASE i \in DOMAIN resident /\ j = Len(resident) + 1
        BY <2>8, <2>11, <3>2
      <3>3. CASE i = Len(resident) + 1 /\ j \in DOMAIN resident
        BY <2>8, <2>11, <3>3
      <3>4. QED
        BY <2>9, <3>1, <3>2, <3>3
    <2>13. Len(resident') <= MaxResident /\ residency'.transfers = Len(resident')
      BY <1>1, <2>2, <2>7, <2>8 DEF LoadHalfWay, ResidentTable
    <2>14. QED
      BY <1>5, <2>1, <2>8, <2>10, <2>12, <2>13 DEF ResidentTable, NoLoad
  <1>7. CASE ~done
    <2>1. resident' = resident /\ loading' = [loading EXCEPT !.offset = @ + n]
          /\ residency'.transfers = residency.transfers
      <3>1. residency.transfers \in Nat
        BY DEF ResidentTable, Residencies
      <3>2. QED
        BY <1>4, <1>5, <1>7, <3>1
    <2>2. ResidentTable'
      BY <1>5, <2>1, TableKept
    <2>3. /\ loading' \in Loads /\ loading'.offset = offset + n
          /\ loading'.tensor = t /\ loading'.device = device /\ loading'.length = length
      <3>1. loading \in Loads
        BY DEF LoadHalfWay
      <3> HIDE DEF n
      <3>2. QED
        BY <1>1, <2>1, <3>1 DEF Loads
    <2>4. offset + n < length /\ device + (offset + n) < AddressRange
      BY <1>1, <1>2, <1>7
    <2>5. ~IsResident(t)' /\ (Len(resident) < MaxResident)'
      BY <2>1 DEF LoadHalfWay, IsResident
    <2>6. LoadHalfWay'
      BY <1>3, <2>3, <2>4, <2>5 DEF LoadHalfWay, IsResident
    <2>7. QED
      BY <2>2, <2>6
  <1>8. QED
    BY <1>6, <1>7

\* One chunk, whatever becomes of its message: only an answered and valid one goes
\* on, any other ends the load and leaves no entry.
LEMMA LoadChunkKeeps ==
    ASSUME ResidentTable, loading = NoLoad \/ LoadHalfWay, moved \subseteq moved',
           NEW fate \in {"answered", "unsent", "unanswered"}, NEW form \in ChunkForms,
           LoadChunk(fate, form)
    PROVE  ResidentTable' /\ (loading = NoLoad \/ LoadHalfWay)'
  <1>1. LoadHalfWay
    BY DEF LoadChunk
  <1>2. CASE fate = "answered" /\ Validate(NextChunk(form)) = "valid"
    <2>1. Handled(NextChunk(form)) /\ ChunkAccepted(ChunkLength)
      BY <1>2 DEF LoadChunk
    <2>2. QED
      BY <1>1, <1>2, <2>1, ChunkAcceptedKeeps
  <1>3. CASE ~(fate = "answered" /\ Validate(NextChunk(form)) = "valid")
    <2>1. loading' = NoLoad /\ resident' = resident /\ residency' = residency
      BY <1>3 DEF LoadChunk
    <2>2. ResidentTable'
      BY <2>1, TableKept DEF ResidentTable
    <2>3. QED
      BY <2>1, <2>2 DEF NoLoad
  <1>4. QED
    BY <1>2, <1>3

\* Every step of the backend, of other programs and of the engine keeps the table of
\* resident tensors and the load half way consistent with the descriptors accepted.
THEOREM TransfersInductive == Spec => []TransfersInv
  <1>1. Init => TransfersInv
    <2> SUFFICES ASSUME Init
                 PROVE  TransfersInv
      OBVIOUS
    <2>1. RegionsOK /\ loading = NoLoad
      BY DEF Init, DmaInit, RegionsOK
    <2>2. ResidentTable
      BY ArgumentTypes DEF Init, ResidentTable, Residencies
    <2>3. QED
      BY <2>1, <2>2 DEF TransfersInv
  <1>2. TransfersInv /\ [Next]_vars => TransfersInv'
    <2> SUFFICES ASSUME TransfersInv, [Next]_vars
                 PROVE  TransfersInv'
      OBVIOUS
    <2>1. RegionsOK' /\ moved \subseteq moved'
      BY RegionsStayOK, MovedOnlyGrows DEF TransfersInv
    <2>2. ASSUME NEW t \in Tensors, NEW h \in Addresses, NEW d \in Addresses, NEW n \in Lengths,
                 LoadBegin(t, h, d, n)
          PROVE  TransfersInv'
      BY <2>1, <2>2, LoadBeginKeeps DEF TransfersInv
    <2>3. ASSUME NEW fate \in {"answered", "unsent", "unanswered"}, NEW form \in ChunkForms,
                 LoadChunk(fate, form)
          PROVE  TransfersInv'
      BY <2>1, <2>3, LoadChunkKeeps DEF TransfersInv
    <2>4. CASE UNCHANGED backendVars
      <3>1. UNCHANGED <<loading, resident, residency>>
        BY <2>4 DEF backendVars
      <3>2. QED
        BY <2>1, <3>1, TableKept, HalfWayKept DEF TransfersInv, ResidentTable
    <2>5. \/ UNCHANGED backendVars
          \/ \E t \in Tensors, h \in Addresses, d \in Addresses, n \in Lengths :
                LoadBegin(t, h, d, n)
          \/ \E fate \in {"answered", "unsent", "unanswered"}, form \in ChunkForms :
                LoadChunk(fate, form)
      BY DEF Next, vars, OtherSubmit, OtherRegister, OtherReset
    <2>6. QED
      BY <2>2, <2>3, <2>4, <2>5
  <1>3. QED
    BY <1>1, <1>2, PTL DEF Spec

\* A tensor the backend answers for as resident has every byte accepted by the engine,
\* has one entry, and is not sent again (att1_backend_pcie_load_tensor).
THEOREM ResidentTensorsAreMoved == Spec => []ResidencySound
  <1>1. TransfersInv => ResidencySound
    BY DEF TransfersInv, ResidentTable, LoadHalfWay, ResidencySound, ResidentMeansMoved,
           LoadedOnce, BytesOf, NoLoad
  <1>2. QED
    BY <1>1, TransfersInductive, PTL

LEMMA LeastNumber ==
    ASSUME NEW S, S \subseteq Nat, S # {}
    PROVE  \E m \in S : \A k \in S : m <= k
  <1> DEFINE R == OpToRel(<, Nat)
  <1>1. IsWellFoundedOn(R, Nat)
    BY NatLessThanWellFounded
  <1>2. PICK m \in S : \A k \in S : ~ (<<k, m>> \in R)
    <2> HIDE DEF R
    <2>1. QED
      BY <1>1, WFMin
  <1>3. ASSUME NEW k \in S
        PROVE  m <= k
    <2>1. ~(k < m)
      BY <1>2 DEF OpToRel
    <2>2. QED
      BY <2>1
  <1>4. QED
    BY <1>3

(***************************************************************************)
(* Alignment.                                                              *)
(***************************************************************************)
LEMMA Division ==
    ASSUME NEW x \in Nat, NEW a \in Nat \ {0}
    PROVE  /\ x \div a \in Nat
           /\ x % a \in 0 .. a - 1
           /\ x = (x \div a) * a + (x % a)
  BY SMT

LEMMA MultiplesHaveNoRest ==
    ASSUME NEW q \in Nat, NEW a \in Nat \ {0}
    PROVE  (q * a) % a = 0
  BY SMT

\* A multiple below another is a whole a below it.
LEMMA MultiplesApart ==
    ASSUME NEW p \in Nat, NEW q \in Nat, NEW a \in Nat \ {0}, p * a < q * a + a
    PROVE  p * a <= q * a
  <1>1. p <= q
    <2> SUFFICES ASSUME p >= q + 1
                 PROVE  FALSE
      OBVIOUS
    <2>1. PICK d \in Nat : p = q + 1 + d
      <3>1. p - q - 1 \in Nat /\ p = q + 1 + (p - q - 1)
        OBVIOUS
      <3>2. QED
        BY <3>1
    <2>2. p * a = q * a + a + d * a /\ d * a \in Nat /\ q * a \in Nat
      BY <2>1
    <2>3. QED
      BY <2>2
  <1>2. PICK d \in Nat : q = p + d
    <2>1. q - p \in Nat /\ q = p + (q - p)
      BY <1>1
    <2>2. QED
      BY <2>1
  <1>3. q * a = p * a + d * a /\ d * a \in Nat /\ p * a \in Nat
    BY <1>2
  <1>4. QED
    BY <1>3

LEMMA AlignedIsMultiple ==
    ASSUME NEW x \in Nat, NEW a \in Nat \ {0}
    PROVE  AlignUp(x, a) \in Nat /\ AlignUp(x, a) % a = 0
  <1> DEFINE y == (x + a - 1) % AddressCount
  <1>1. AddressCount \in Nat \ {0} /\ x + a - 1 \in Nat
    BY TileMemConfigValid
  <1>2. y \in Nat
    BY <1>1, Division
  <1> HIDE DEF y
  <1>3. /\ y \div a \in Nat /\ y = (y \div a) * a + (y % a) /\ y % a \in 0 .. a - 1
        /\ (y \div a) * a \in Nat
    <2>1. y \div a \in Nat /\ y = (y \div a) * a + (y % a) /\ y % a \in 0 .. a - 1
      BY <1>2, Division
    <2>2. \A q \in Nat : q * a \in Nat
      OBVIOUS
    <2>3. QED
      BY <2>1, <2>2
  <1>4. AlignUp(x, a) = (y \div a) * a
    <2>1. AlignUp(x, a) = y - (y % a)
      BY DEF AlignUp, y
    <2>2. QED
      BY <1>3, <2>1
  <1>5. QED
    BY <1>3, <1>4, MultiplesHaveNoRest

\* Without an aligned address from x on there is nothing to find; with one, aligning
\* does not wrap and finds the first.
LEMMA AlignedIsLeast ==
    ASSUME NEW x \in Nat, NEW a \in Nat \ {0}, NEW b \in Nat, AddressCount % a = 0,
           x <= b, b < AddressCount, b % a = 0
    PROVE  x <= AlignUp(x, a) /\ AlignUp(x, a) <= b
  <1> DEFINE q == b \div a
             m == AddressCount \div a
             y == x + a - 1
             p == y \div a
  <1>1. AddressCount \in Nat \ {0} /\ y \in Nat
    BY TileMemConfigValid
  <1>2. q \in Nat /\ b = q * a
    BY Division
  <1>3. m \in Nat /\ AddressCount = m * a
    BY <1>1, Division
  <1>4. p \in Nat /\ y = p * a + (y % a) /\ y % a \in 0 .. a - 1
    BY <1>1, Division
  <1>5. y < AddressCount
    <2>1. ~ (m * a < q * a + a)
      <3>1. ~ (m * a <= q * a)
        BY <1>1, <1>2, <1>3
      <3> HIDE DEF m, q
      <3>2. QED
        BY <1>2, <1>3, <3>1, MultiplesApart
    <2>2. b + a <= AddressCount
      <3> HIDE DEF m, q
      <3>1. PICK u \in Nat, v \in Nat : u = m * a /\ v = q * a
        BY <1>2, <1>3
      <3>2. QED
        BY <1>2, <1>3, <2>1, <3>1
    <2>3. QED
      BY <1>1, <2>2
  <1>6. AlignUp(x, a) = p * a
    <2>1. y % AddressCount = y
      BY <1>1, <1>5, SMT
    <2>2. AlignUp(x, a) = y - (y % a)
      BY <2>1 DEF AlignUp
    <2> HIDE DEF p, y
    <2>3. PICK u \in Nat : u = p * a
      BY <1>4
    <2>4. QED
      BY <1>4, <2>2, <2>3
  <1> HIDE DEF p, q, m
  <1>7. PICK u \in Nat, v \in Nat : u = p * a /\ v = q * a
    BY <1>2, <1>4
  <1>8. x <= u /\ u < v + a
    BY <1>2, <1>4, <1>7 DEF y
  <1>9. u <= v
    BY <1>2, <1>4, <1>7, <1>8, MultiplesApart
  <1>10. QED
    BY <1>2, <1>6, <1>7, <1>8, <1>9

LEMMA ValidAlignments ==
    ASSUME NEW a \in Nat, ValidAlignment(a)
    PROVE  a \in Nat \ {0} /\ AddressCount % a = 0
  <1>1. MinAlign \in Nat \ {0} /\ MaxAlign \in Nat \ {0} /\ MinAlign <= a /\ a <= MaxAlign
    BY TileMemConfigValid DEF ValidAlignment
  <1>2. PICK k \in 0 .. a : a = 2^k
    BY DEF ValidAlignment, IsPow2
  <1>3. k \in 0 .. MaxAlign /\ 2^k <= MaxAlign
    BY <1>1, <1>2
  <1>4. AddressCount % 2^k = 0
    BY <1>3, TileMemConfigValid
  <1>5. QED
    BY <1>1, <1>2, <1>4

(***************************************************************************)
(* The live entries in the order of their addresses.                       *)
(***************************************************************************)
Placed ==
    \A i \in Live : End(allocs[i]) <= Capacity /\ allocs[i].base % allocs[i].alignment = 0

\* No two live entries share a byte.
Apart ==
    \A i, j \in Live :
        i # j => \/ End(allocs[i]) <= allocs[j].base
                 \/ End(allocs[j]) <= allocs[i].base

MemInv == MemTypeOK /\ Placed /\ Apart

LEMMA EntryTypes ==
    ASSUME MemInv, NEW i \in Live
    PROVE  /\ i \in 1 .. Len(allocs) /\ allocs[i] \in Allocations
           /\ allocs[i].base \in Nat /\ allocs[i].size \in Nat \ {0}
           /\ End(allocs[i]) \in Nat /\ allocs[i].base < End(allocs[i])
           /\ End(allocs[i]) = allocs[i].base + allocs[i].size
           /\ End(allocs[i]) <= Capacity
  <1>1. i \in 1 .. Len(allocs) /\ allocs[i] \in Allocations
    BY DEF MemInv, MemTypeOK, Live
  <1>2. allocs[i].base \in Nat /\ allocs[i].size \in Nat \ {0}
    BY <1>1, TileMemConfigValid DEF Allocations
  <1>3. End(allocs[i]) = allocs[i].base + allocs[i].size /\ End(allocs[i]) <= Capacity
    BY DEF MemInv, Placed, End
  <1>4. QED
    BY <1>1, <1>2, <1>3

LEMMA LiveIsFinite ==
    ASSUME MemInv
    PROVE  IsFiniteSet(Live) /\ Cardinality(Live) \in Nat
  <1>1. Len(allocs) \in Nat /\ Live \subseteq 1 .. Len(allocs)
    BY DEF MemInv, MemTypeOK, Live
  <1>2. IsFiniteSet(Live)
    <2>1. IsFiniteSet(1 .. Len(allocs))
      BY <1>1, FS_Interval
    <2>2. QED
      BY <1>1, <2>1, FS_Subset
  <1>3. QED
    BY <1>2, FS_CardinalityType

\* s lists S from low addresses to high ones.
Ascends(s, n, S) ==
    /\ s \in [1 .. n -> S]
    /\ \A i \in S : \E k \in 1 .. n : s[k] = i
    /\ \A j, k \in 1 .. n : j < k => allocs[s[j]].base < allocs[s[k]].base

\* The entry of S with the highest address.
LEMMA HighestEntry ==
    ASSUME MemInv, NEW S \in SUBSET Live, S # {}
    PROVE  \E m \in S : \A i \in S \ {m} : allocs[i].base < allocs[m].base
  <1> DEFINE Depths == {Capacity - allocs[i].base : i \in S}
  <1>1. \A i \in S : /\ allocs[i].base \in Nat /\ allocs[i].base < Capacity
                     /\ allocs[i].base < End(allocs[i]) /\ End(allocs[i]) \in Nat
    BY EntryTypes, TileMemConfigValid
  <1>2. Depths \subseteq Nat /\ Depths # {}
    BY <1>1, TileMemConfigValid
  <1>3. PICK d \in Depths : \A e \in Depths : d <= e
    <2> HIDE DEF Depths
    <2>1. QED
      BY <1>2, LeastNumber
  <1>4. PICK m \in S : d = Capacity - allocs[m].base
    OBVIOUS
  <1>5. ASSUME NEW i \in S \ {m}
        PROVE  allocs[i].base < allocs[m].base
    <2>1. Capacity - allocs[m].base <= Capacity - allocs[i].base
      BY <1>3, <1>4
    <2>2. allocs[i].base # allocs[m].base
      BY <1>1 DEF MemInv, Apart
    <2>3. QED
      BY <1>1, <2>1, <2>2, TileMemConfigValid
  <1>6. QED
    BY <1>5

LEMMA AscendingLists ==
    ASSUME MemInv, NEW S \in SUBSET Live
    PROVE  \E s : Ascends(s, Cardinality(S), S)
  <1> DEFINE Without == {n \in Nat : \E T \in SUBSET Live :
                            Cardinality(T) = n /\ ~ \E s : Ascends(s, n, T)}
  <1>0. \A T \in SUBSET Live : IsFiniteSet(T) /\ Cardinality(T) \in Nat
    BY LiveIsFinite, FS_Subset, FS_CardinalityType
  <1>1. ASSUME Without # {}
        PROVE  FALSE
    <2>0. Without \subseteq Nat
      OBVIOUS
    <2>1. PICK n \in Without : \A k \in Without : n <= k
      <3> HIDE DEF Without
      <3>1. QED
        BY <1>1, <2>0, LeastNumber
    <2>2. PICK T \in SUBSET Live : Cardinality(T) = n /\ ~ \E s : Ascends(s, n, T)
      OBVIOUS
    <2>3. n \in Nat
      OBVIOUS
    <2>4. T # {}
      <3>1. ASSUME T = {}
            PROVE  FALSE
        <4>1. n = 0
          BY <2>2, <3>1, FS_EmptySet
        <4>2. Ascends([k \in 1 .. 0 |-> 0], 0, {})
          BY DEF Ascends
        <4>3. QED
          BY <2>2, <3>1, <4>1, <4>2
      <3>2. QED
        BY <3>1
    <2>5. PICK m \in T : \A i \in T \ {m} : allocs[i].base < allocs[m].base
      BY <2>4, HighestEntry
    <2>6. Cardinality(T \ {m}) = n - 1 /\ n - 1 \in Nat /\ T \ {m} \in SUBSET Live
      <3>1. Cardinality(T \ {m}) = Cardinality(T) - 1
        BY <1>0, FS_RemoveElement
      <3>2. T \ {m} \in SUBSET Live /\ Cardinality(T \ {m}) \in Nat
        BY <1>0
      <3>3. QED
        BY <2>2, <3>1, <3>2
    <2>7. n - 1 \notin Without
      <3> HIDE DEF Without
      <3>1. QED
        BY <2>1, <2>3, <2>6
    <2>8. PICK s : Ascends(s, n - 1, T \ {m})
      BY <2>6, <2>7
    <2> HIDE DEF Without
    <2> DEFINE r == [k \in 1 .. n |-> IF k = n THEN m ELSE s[k]]
    <2>9. /\ n \in 1 .. n /\ r[n] = m
          /\ \A k \in 1 .. n : k # n => k \in 1 .. n - 1 /\ r[k] = s[k] /\ r[k] \in T \ {m}
      <3>1. n \in 1 .. n /\ \A k \in 1 .. n : k # n => k \in 1 .. n - 1
        BY <2>3, <2>6
      <3>2. QED
        BY <2>8, <3>1 DEF Ascends
    <2>10. r \in [1 .. n -> T]
      BY <2>5, <2>9
    <2>11. ASSUME NEW i \in T
           PROVE  \E k \in 1 .. n : r[k] = i
      <3>1. CASE i = m
        BY <2>9, <3>1
      <3>2. CASE i # m
        <4>1. PICK k \in 1 .. n - 1 : s[k] = i
          BY <2>8, <3>2 DEF Ascends
        <4>2. k \in 1 .. n /\ k # n
          BY <2>3
        <4>3. QED
          BY <4>1, <4>2
      <3>3. QED
        BY <3>1, <3>2
    <2>12. ASSUME NEW j \in 1 .. n, NEW k \in 1 .. n, j < k
           PROVE  allocs[r[j]].base < allocs[r[k]].base
      <3>1. j # n
        BY <2>3, <2>12
      <3> HIDE DEF r
      <3>2. CASE k = n
        BY <2>5, <2>9, <3>1, <3>2
      <3>3. CASE k # n
        BY <2>8, <2>9, <2>12, <3>1, <3>3 DEF Ascends
      <3>4. QED
        BY <3>2, <3>3
    <2> HIDE DEF r
    <2>13. Ascends(r, n, T)
      BY <2>10, <2>11, <2>12 DEF Ascends
    <2>14. QED
      BY <2>2, <2>13
  <1>2. QED
    BY <1>0, <1>1

\* Sorted lists the live entries from low addresses to high ones.
LEMMA SortedAscends ==
    ASSUME MemInv
    PROVE  Ascends(Sorted, Cardinality(Live), Live)
  <1> DEFINE n == Cardinality(Live)
             InTable(s) == \A j, k \in DOMAIN s : j < k =>
                              \/ allocs[s[j]].base < allocs[s[k]].base
                              \/ allocs[s[j]].base = allocs[s[k]].base /\ s[j] < s[k]
  <1>1. n \in Nat /\ \A i \in Live : allocs[i].base \in Nat
    BY LiveIsFinite, EntryTypes
  <1>2. PICK s : Ascends(s, n, Live)
    BY AscendingLists
  <1>3. s \in Bijection(1 .. n, Live) /\ InTable(s)
    <2>1. s \in [1 .. n -> Live] /\ DOMAIN s = 1 .. n
      BY <1>2 DEF Ascends
    <2>2. \A j, k \in 1 .. n : j < k => allocs[s[j]].base < allocs[s[k]].base
      BY <1>2 DEF Ascends
    <2>3. \A j, k \in 1 .. n : s[j] = s[k] => j = k
      <3> SUFFICES ASSUME NEW j \in 1 .. n, NEW k \in 1 .. n, s[j] = s[k], j # k
                   PROVE  FALSE
        OBVIOUS
      <3>1. j < k \/ k < j
        OBVIOUS
      <3>2. allocs[s[j]].base \in Nat
        BY <1>1, <2>1
      <3>3. QED
        BY <2>2, <3>1, <3>2
    <2>4. IsInjective(s)
      BY <2>1, <2>3 DEF IsInjective
    <2>5. \A i \in Live : \E k \in 1 .. n : s[k] = i
      BY <1>2 DEF Ascends
    <2>6. QED
      BY <2>1, <2>2, <2>4, <2>5 DEF Bijection, Injection, Surjection
  <1>4. Sorted = CHOOSE r \in Bijection(1 .. n, Live) : InTable(r)
    BY DEF Sorted
  <1> HIDE DEF InTable
  <1>5. Sorted \in Bijection(1 .. n, Live) /\ InTable(Sorted)
    BY <1>3, <1>4
  <1>6. /\ Sorted \in [1 .. n -> Live] /\ DOMAIN Sorted = 1 .. n
        /\ \A i \in Live : \E k \in 1 .. n : Sorted[k] = i
        /\ \A j, k \in 1 .. n : Sorted[j] = Sorted[k] => j = k
    BY <1>5 DEF Bijection, Injection, Surjection, IsInjective
  <1>7. ASSUME NEW j \in 1 .. n, NEW k \in 1 .. n, j < k
        PROVE  allocs[Sorted[j]].base < allocs[Sorted[k]].base
    <2> DEFINE u == Sorted[j]
               v == Sorted[k]
    <2>1. u \in Live /\ v \in Live /\ u # v
      BY <1>6, <1>7
    <2>2. \/ allocs[u].base < allocs[v].base
          \/ allocs[u].base = allocs[v].base
      BY <1>5, <1>6, <1>7 DEF InTable
    <2> HIDE DEF u, v
    <2>3. /\ allocs[u].base < End(allocs[u]) /\ allocs[v].base < End(allocs[v])
          /\ allocs[u].base \in Nat /\ allocs[v].base \in Nat
          /\ End(allocs[u]) \in Nat /\ End(allocs[v]) \in Nat
      BY <2>1, EntryTypes
    <2>4. allocs[u].base # allocs[v].base
      BY <2>1, <2>3 DEF MemInv, Apart
    <2>5. QED
      BY <2>2, <2>4 DEF u, v
  <1>8. QED
    BY <1>6, <1>7 DEF Ascends

(***************************************************************************)
(* The gaps of a scan.                                                     *)
(***************************************************************************)
Count == Cardinality(Live)

LEMMA SortedEntries ==
    ASSUME MemInv
    PROVE  /\ Count \in Nat
           /\ \A k \in 1 .. Count : Sorted[k] \in Live
           /\ \A i \in Live : \E k \in 1 .. Count : Sorted[k] = i
           /\ \A j, k \in 1 .. Count : j < k =>
                 /\ allocs[Sorted[j]].base < allocs[Sorted[k]].base
                 /\ End(allocs[Sorted[j]]) <= allocs[Sorted[k]].base
  <1>1. Ascends(Sorted, Count, Live)
    BY SortedAscends DEF Count
  <1>2. Count \in Nat
    BY LiveIsFinite DEF Count
  <1>3. /\ \A k \in 1 .. Count : Sorted[k] \in Live
        /\ \A i \in Live : \E k \in 1 .. Count : Sorted[k] = i
        /\ \A j, k \in 1 .. Count : j < k => allocs[Sorted[j]].base < allocs[Sorted[k]].base
    BY <1>1 DEF Ascends
  <1>4. ASSUME NEW j \in 1 .. Count, NEW k \in 1 .. Count, j < k
        PROVE  End(allocs[Sorted[j]]) <= allocs[Sorted[k]].base
    <2> DEFINE u == Sorted[j]
               v == Sorted[k]
    <2>1. u \in Live /\ v \in Live /\ allocs[u].base < allocs[v].base
      BY <1>3, <1>4
    <2> HIDE DEF u, v
    <2>2. /\ allocs[v].base < End(allocs[v])
          /\ allocs[u].base \in Nat /\ allocs[v].base \in Nat
          /\ End(allocs[u]) \in Nat /\ End(allocs[v]) \in Nat
      BY <2>1, EntryTypes
    <2>3. End(allocs[u]) <= allocs[v].base \/ End(allocs[v]) <= allocs[u].base
      BY <2>1, <2>2 DEF MemInv, Apart
    <2>4. End(allocs[u]) <= allocs[v].base
      BY <2>1, <2>2, <2>3
    <2>5. QED
      BY <2>4 DEF u, v
  <1>5. QED
    BY <1>2, <1>3, <1>4

LEMMA GapEnds ==
    ASSUME MemInv
    PROVE  /\ DOMAIN Gaps = 1 .. Count + 1 /\ Count \in Nat
           /\ Gaps[1].start = 0 /\ Gaps[Count + 1].end = Capacity
           /\ \A k \in 1 .. Count : /\ Gaps[k + 1].start = End(allocs[Sorted[k]])
                                    /\ Gaps[k].end = allocs[Sorted[k]].base
           /\ \A i \in 1 .. Count + 1 : Gaps[i].start \in Nat /\ Gaps[i].end \in Nat
  <1>1. Count \in Nat /\ \A k \in 1 .. Count : Sorted[k] \in Live
    BY SortedEntries
  <1>2. Gaps = [i \in 1 .. Count + 1 |->
                   [start |-> IF i = 1 THEN 0 ELSE End(allocs[Sorted[i - 1]]),
                    end   |-> IF i <= Count THEN allocs[Sorted[i]].base ELSE Capacity]]
    BY DEF Gaps, Count
  <1>3. DOMAIN Gaps = 1 .. Count + 1 /\ 1 \in 1 .. Count + 1 /\ Count + 1 \in 1 .. Count + 1
    BY <1>1, <1>2
  <1>4. Gaps[1].start = 0 /\ Gaps[Count + 1].end = Capacity
    BY <1>1, <1>2, <1>3
  <1>5. ASSUME NEW k \in 1 .. Count
        PROVE  /\ Gaps[k + 1].start = End(allocs[Sorted[k]])
               /\ Gaps[k].end = allocs[Sorted[k]].base
    <2>1. k \in 1 .. Count + 1 /\ k + 1 \in 1 .. Count + 1 /\ k + 1 # 1 /\ k + 1 - 1 = k
          /\ k <= Count
      BY <1>1
    <2>2. QED
      BY <1>2, <2>1
  <1>6. ASSUME NEW i \in 1 .. Count + 1
        PROVE  Gaps[i].start \in Nat /\ Gaps[i].end \in Nat
    <2>1. i = 1 \/ (i - 1 \in 1 .. Count /\ (i - 1) + 1 = i)
      BY <1>1
    <2>2. i = Count + 1 \/ i \in 1 .. Count
      BY <1>1
    <2>3. \A k \in 1 .. Count : End(allocs[Sorted[k]]) \in Nat /\ allocs[Sorted[k]].base \in Nat
      BY <1>1, EntryTypes
    <2>4. Gaps[i].start \in Nat
      BY <1>4, <1>5, <2>1, <2>3
    <2>5. Gaps[i].end \in Nat
      BY <1>4, <1>5, <2>2, <2>3, TileMemConfigValid
    <2>6. QED
      BY <2>4, <2>5
  <1>7. QED
    BY <1>1, <1>3, <1>4, <1>5, <1>6

LEMMA GapsEndInside ==
    ASSUME MemInv, NEW i \in 1 .. Count + 1
    PROVE  Gaps[i].end <= Capacity
  <1>1. Count \in Nat
    BY GapEnds
  <1>2. CASE i = Count + 1
    BY <1>2, GapEnds, TileMemConfigValid
  <1>3. CASE i # Count + 1
    <2>1. i \in 1 .. Count
      BY <1>1, <1>3
    <2>2. Gaps[i].end = allocs[Sorted[i]].base /\ Sorted[i] \in Live
      BY <2>1, GapEnds, SortedEntries
    <2>3. /\ allocs[Sorted[i]].base \in Nat /\ End(allocs[Sorted[i]]) \in Nat
          /\ allocs[Sorted[i]].base < End(allocs[Sorted[i]])
          /\ End(allocs[Sorted[i]]) <= Capacity
      BY <2>2, EntryTypes
    <2>4. QED
      BY <2>2, <2>3, TileMemConfigValid
  <1>4. QED
    BY <1>2, <1>3

\* No live entry has a byte in a gap.
LEMMA GapsAreFree ==
    ASSUME MemInv, NEW i \in 1 .. Count + 1, NEW l \in Live
    PROVE  End(allocs[l]) <= Gaps[i].start \/ Gaps[i].end <= allocs[l].base
  <1>1. PICK k \in 1 .. Count : Sorted[k] = l
    BY SortedEntries
  <1>2. Count \in Nat /\ i \in Nat /\ k \in Nat
    BY SortedEntries
  <1>3. CASE k < i
    <2> DEFINE h == i - 1
    <2>1. h \in 1 .. Count /\ i = h + 1 /\ (k = h \/ k < h)
      BY <1>2, <1>3
    <2> HIDE DEF h
    <2>2. Gaps[i].start = End(allocs[Sorted[h]]) /\ Sorted[h] \in Live
      BY <2>1, GapEnds, SortedEntries
    <2>3. CASE k = h
      <3>1. End(allocs[l]) \in Nat
        BY EntryTypes
      <3>2. QED
        BY <1>1, <2>2, <2>3, <3>1
    <2>4. CASE k < h
      <3>1. End(allocs[l]) <= allocs[Sorted[h]].base
        BY <1>1, <2>1, <2>4, SortedEntries
      <3>2. /\ allocs[Sorted[h]].base < End(allocs[Sorted[h]]) /\ End(allocs[l]) \in Nat
            /\ allocs[Sorted[h]].base \in Nat /\ End(allocs[Sorted[h]]) \in Nat
        BY <2>2, EntryTypes
      <3>3. QED
        BY <2>2, <3>1, <3>2
    <2>5. QED
      BY <2>1, <2>3, <2>4
  <1>4. CASE ~ (k < i)
    <2>1. i \in 1 .. Count /\ (i = k \/ i < k)
      BY <1>2, <1>4
    <2>2. Gaps[i].end = allocs[Sorted[i]].base /\ allocs[l].base \in Nat
      BY <2>1, GapEnds, EntryTypes
    <2>3. i < k => allocs[Sorted[i]].base < allocs[l].base
      BY <1>1, <2>1, SortedEntries
    <2>4. allocs[Sorted[i]].base \in Nat
      BY <2>1, SortedEntries, EntryTypes
    <2>5. QED
      BY <1>1, <2>1, <2>2, <2>3, <2>4
  <1>5. QED
    BY <1>3, <1>4

\* A gap ends where a later one starts, or before.
LEMMA GapsAscend ==
    ASSUME MemInv, NEW i \in 1 .. Count + 1, NEW j \in 1 .. Count + 1, j < i
    PROVE  Gaps[j].end <= Gaps[i].start
  <1> DEFINE h == i - 1
  <1>1. Count \in Nat
    BY SortedEntries
  <1>2. h \in 1 .. Count /\ i = h + 1 /\ j \in 1 .. Count /\ (j = h \/ j < h)
    BY <1>1
  <1> HIDE DEF h
  <1>3. Gaps[i].start = End(allocs[Sorted[h]]) /\ Gaps[j].end = allocs[Sorted[j]].base
    BY <1>2, GapEnds
  <1>4. Sorted[h] \in Live /\ Sorted[j] \in Live
    BY <1>2, SortedEntries
  <1>5. /\ allocs[Sorted[h]].base < End(allocs[Sorted[h]])
        /\ allocs[Sorted[h]].base \in Nat /\ End(allocs[Sorted[h]]) \in Nat
        /\ allocs[Sorted[j]].base \in Nat
    BY <1>4, EntryTypes
  <1>6. j < h => allocs[Sorted[j]].base < allocs[Sorted[h]].base
    BY <1>2, SortedEntries
  <1>7. QED
    BY <1>2, <1>3, <1>5, <1>6

\* Bytes that no live entry has lie in one gap.
LEMMA FreeBytesInGap ==
    ASSUME MemInv, NEW b \in Nat, NEW n \in Nat \ {0}, b + n <= Capacity,
           \A l \in Live : End(allocs[l]) <= b \/ b + n <= allocs[l].base
    PROVE  \E i \in 1 .. Count + 1 : Gaps[i].start <= b /\ b + n <= Gaps[i].end
  <1> DEFINE Behind == {i \in 1 .. Count + 1 : b + n <= Gaps[i].end}
  <1>1. Count \in Nat /\ Count + 1 \in Behind /\ Behind \subseteq Nat
    BY GapEnds
  <1>2. PICK i \in Behind : \A j \in Behind : i <= j
    <2> HIDE DEF Behind
    <2>1. QED
      BY <1>1, LeastNumber
  <1>3. i \in 1 .. Count + 1 /\ b + n <= Gaps[i].end
    OBVIOUS
  <1>4. CASE i = 1
    BY <1>3, <1>4, GapEnds
  <1>5. CASE i # 1
    <2> DEFINE h == i - 1
    <2>1. h \in 1 .. Count /\ h \in 1 .. Count + 1 /\ i = h + 1 /\ h < i
      BY <1>1, <1>3, <1>5
    <2>2. h \notin Behind
      <3> HIDE DEF Behind
      <3>1. QED
        BY <1>2, <2>1
    <2> HIDE DEF h
    <2>3. ~ (b + n <= Gaps[h].end)
      BY <2>1, <2>2
    <2>4. Gaps[h].end = allocs[Sorted[h]].base /\ Gaps[i].start = End(allocs[Sorted[h]])
      BY <2>1, GapEnds
    <2>5. Sorted[h] \in Live
      BY <2>1, SortedEntries
    <2>6. End(allocs[Sorted[h]]) <= b
      BY <2>3, <2>4, <2>5
    <2>7. QED
      BY <1>3, <2>4, <2>6
  <1>6. QED
    BY <1>4, <1>5

(***************************************************************************)
(* First fit.                                                              *)
(***************************************************************************)
LEMMA MinIsLeast ==
    ASSUME NEW S \in SUBSET Nat, S # {}
    PROVE  Min(S) \in S /\ \A k \in S : Min(S) <= k
  <1>1. \E m \in S : \A k \in S : m <= k
    BY LeastNumber
  <1>2. QED
    BY <1>1 DEF Min

\* The bytes from b on are n, inside the capacity, and of no live entry.
Room(b, n) ==
    /\ b \in Nat /\ b + n <= Capacity
    /\ \A l \in Live : End(allocs[l]) <= b \/ b + n <= allocs[l].base

Fit(n, a) == {i \in 1 .. Count + 1 : Holds(Gaps[i], n, a)}

LEMMA FirstFitCases ==
    ASSUME MemInv, NEW n \in Nat, NEW a
    PROVE  IF n > Capacity \/ Fit(n, a) = {}
           THEN FirstFit(n, a) = -1
           ELSE /\ Min(Fit(n, a)) \in Fit(n, a) /\ \A i \in Fit(n, a) : Min(Fit(n, a)) <= i
                /\ FirstFit(n, a) = AlignUp(Gaps[Min(Fit(n, a))].start, a)
  <1>1. DOMAIN Gaps = 1 .. Count + 1 /\ Count \in Nat
    BY GapEnds
  <1>2. FirstFit(n, a) = IF n > Capacity \/ Fit(n, a) = {} THEN -1
                         ELSE AlignUp(Gaps[Min(Fit(n, a))].start, a)
    BY <1>1 DEF FirstFit, Fit
  <1>3. Fit(n, a) \in SUBSET Nat
    BY <1>1 DEF Fit
  <1>4. Fit(n, a) # {} =>
            Min(Fit(n, a)) \in Fit(n, a) /\ \A i \in Fit(n, a) : Min(Fit(n, a)) <= i
    BY <1>3, MinIsLeast
  <1>5. QED
    BY <1>2, <1>4

\* Where a gap holds the bytes, they are in it.
LEMMA HeldIsRoom ==
    ASSUME MemInv, NEW n \in Nat \ {0}, NEW a \in Nat \ {0}, NEW i \in Fit(n, a)
    PROVE  LET c == AlignUp(Gaps[i].start, a)
           IN  /\ c \in Nat /\ c % a = 0 /\ Room(c, n)
               /\ Gaps[i].start <= c /\ c <= Gaps[i].end
  <1> DEFINE c == AlignUp(Gaps[i].start, a)
             s == Gaps[i].start
             e == Gaps[i].end
  <1>1. i \in 1 .. Count + 1 /\ Holds(Gaps[i], n, a)
    BY DEF Fit
  <1>2. s \in Nat /\ e \in Nat
    BY <1>1, GapEnds
  <1>3. c \in Nat /\ c % a = 0
    BY <1>2, AlignedIsMultiple
  <1>4. s <= c /\ c <= e /\ e - c >= n
    BY <1>1 DEF Holds
  <1>5. e <= Capacity
    BY <1>1, GapsEndInside
  <1>6. \A l \in Live : End(allocs[l]) <= s \/ e <= allocs[l].base
    BY <1>1, GapsAreFree
  <1>7. \A l \in Live : End(allocs[l]) \in Nat /\ allocs[l].base \in Nat
    BY EntryTypes
  <1> HIDE DEF c, s, e
  <1>8. Capacity \in Nat
    BY TileMemConfigValid
  <1>9. c + n <= Capacity
    BY <1>2, <1>3, <1>4, <1>5, <1>8
  <1>10. \A l \in Live : End(allocs[l]) <= c \/ c + n <= allocs[l].base
    BY <1>2, <1>3, <1>4, <1>6, <1>7
  <1>11. Room(c, n)
    BY <1>3, <1>9, <1>10 DEF Room
  <1>12. c \in Nat /\ c % a = 0 /\ Room(c, n) /\ s <= c /\ c <= e
    BY <1>3, <1>4, <1>11
  <1>13. QED
    BY <1>12 DEF c, s, e

\* An aligned room is in a gap that holds the bytes, not before where they are put.
LEMMA RoomIsHeld ==
    ASSUME MemInv, NEW n \in Nat \ {0}, NEW a \in Nat \ {0}, AddressCount % a = 0,
           NEW b \in Nat, b % a = 0, Room(b, n)
    PROVE  \E i \in Fit(n, a) : AlignUp(Gaps[i].start, a) <= b
  <1>1. b + n <= Capacity /\ \A l \in Live : End(allocs[l]) <= b \/ b + n <= allocs[l].base
    BY DEF Room
  <1>2. PICK i \in 1 .. Count + 1 : Gaps[i].start <= b /\ b + n <= Gaps[i].end
    BY <1>1, FreeBytesInGap
  <1> DEFINE c == AlignUp(Gaps[i].start, a)
             s == Gaps[i].start
             e == Gaps[i].end
  <1>3. s \in Nat /\ e \in Nat /\ b < AddressCount
    BY <1>1, GapEnds, TileMemConfigValid
  <1>4. s <= c /\ c <= b
    BY <1>2, <1>3, AlignedIsLeast
  <1>5. c \in Nat
    BY <1>3, AlignedIsMultiple
  <1>6. c <= e /\ e - c >= n
    <2> HIDE DEF c
    <2>1. QED
      BY <1>2, <1>3, <1>4, <1>5
  <1>7. Holds(Gaps[i], n, a)
    BY <1>4, <1>6 DEF Holds
  <1>8. QED
    BY <1>4, <1>7 DEF Fit

\* The address found is the lowest aligned room; none is found where there is none.
LEMMA FoundIsLowest ==
    ASSUME MemInv, NEW n \in Nat \ {0}, NEW a \in Nat \ {0}, AddressCount % a = 0
    PROVE  /\ FirstFit(n, a) # -1 =>
                 /\ FirstFit(n, a) \in Nat /\ FirstFit(n, a) % a = 0 /\ Room(FirstFit(n, a), n)
           /\ \A b \in Nat : b % a = 0 /\ Room(b, n) =>
                 FirstFit(n, a) \in Nat /\ FirstFit(n, a) <= b
  <1>1. CASE n > Capacity \/ Fit(n, a) = {}
    <2>1. FirstFit(n, a) = -1
      BY <1>1, FirstFitCases
    <2>2. ASSUME NEW b \in Nat, b % a = 0, Room(b, n)
          PROVE  FALSE
      <3>1. n <= Capacity
        BY <2>2, TileMemConfigValid DEF Room
      <3>2. Fit(n, a) # {}
        BY <2>2, RoomIsHeld
      <3>3. QED
        BY <1>1, <3>1, <3>2, TileMemConfigValid
    <2>3. QED
      BY <2>1, <2>2
  <1>2. CASE ~ (n > Capacity \/ Fit(n, a) = {})
    <2> DEFINE j == Min(Fit(n, a))
               c == AlignUp(Gaps[j].start, a)
    <2>1. j \in Fit(n, a) /\ (\A i \in Fit(n, a) : j <= i) /\ FirstFit(n, a) = c
      BY <1>2, FirstFitCases
    <2> HIDE DEF j
    <2>2. c \in Nat /\ c % a = 0 /\ Room(c, n) /\ c <= Gaps[j].end
      BY <2>1, HeldIsRoom
    <2>3. ASSUME NEW b \in Nat, b % a = 0, Room(b, n)
          PROVE  c <= b
      <3>1. PICK i \in Fit(n, a) : AlignUp(Gaps[i].start, a) <= b
        BY <2>3, RoomIsHeld
      <3>2. CASE i = j
        BY <3>1, <3>2
      <3>3. CASE i # j
        <4>1. i \in 1 .. Count + 1 /\ j \in 1 .. Count + 1 /\ Count \in Nat
          BY <2>1, GapEnds DEF Fit
        <4>2. j < i
          BY <2>1, <3>3, <4>1
        <4>3. Gaps[j].end <= Gaps[i].start
          BY <4>1, <4>2, GapsAscend
        <4>4. /\ Gaps[i].start <= AlignUp(Gaps[i].start, a) /\ AlignUp(Gaps[i].start, a) \in Nat
          BY HeldIsRoom
        <4>5. Gaps[j].end \in Nat /\ Gaps[i].start \in Nat
          BY <4>1, GapEnds
        <4> HIDE DEF c
        <4>6. PICK x \in Nat, y \in Nat, z \in Nat :
                  x = Gaps[j].end /\ y = Gaps[i].start /\ z = AlignUp(Gaps[i].start, a)
          BY <4>4, <4>5
        <4>7. QED
          BY <2>2, <3>1, <4>3, <4>4, <4>6
      <3>4. QED
        BY <3>2, <3>3
    <2> HIDE DEF c
    <2>4. c # -1
      BY <2>2
    <2>5. QED
      BY <2>1, <2>2, <2>3
  <1>3. QED
    BY <1>1, <1>2

\* Rooms, told by the bytes an address search finds nothing at.
LEMMA RoomsAreFreeBytes ==
    ASSUME MemInv, NEW n \in Nat \ {0}, NEW b \in Nat
    PROVE  b + n <= Capacity /\ b .. b + n - 1 \subseteq FreeBytes <=> Room(b, n)
  <1>1. \A l \in Live : /\ End(allocs[l]) \in Nat /\ allocs[l].base \in Nat
                        /\ allocs[l].base < End(allocs[l])
    BY EntryTypes
  <1>2. FreeBytes = {c \in 0 .. Capacity - 1 : Holders(c) = {}}
    BY DEF FreeBytes, QueryByAddress
  <1>3. Capacity \in Nat
    BY TileMemConfigValid
  <1>4. ASSUME b + n <= Capacity, b .. b + n - 1 \subseteq FreeBytes
        PROVE  Room(b, n)
    <2>1. ASSUME NEW l \in Live, ~ (End(allocs[l]) <= b \/ b + n <= allocs[l].base)
          PROVE  FALSE
      <3> DEFINE c == IF allocs[l].base <= b THEN b ELSE allocs[l].base
      <3>1. c \in b .. b + n - 1 /\ allocs[l].base <= c /\ c < End(allocs[l])
        BY <1>1, <2>1
      <3> HIDE DEF c
      <3>2. Holders(c) = {}
        BY <1>2, <1>4, <3>1
      <3>3. QED
        BY <3>1, <3>2 DEF Holders
    <2>2. QED
      BY <1>4, <2>1 DEF Room
  <1>5. ASSUME Room(b, n)
        PROVE  b + n <= Capacity /\ b .. b + n - 1 \subseteq FreeBytes
    <2>1. b + n <= Capacity /\ \A l \in Live : End(allocs[l]) <= b \/ b + n <= allocs[l].base
      BY <1>5 DEF Room
    <2>2. ASSUME NEW c \in b .. b + n - 1
          PROVE  c \in 0 .. Capacity - 1 /\ Holders(c) = {}
      BY <1>1, <1>3, <2>1 DEF Holders
    <2>3. QED
      BY <1>2, <2>1, <2>2
  <1>6. QED
    BY <1>4, <1>5

(***************************************************************************)
(* The steps.                                                              *)
(***************************************************************************)
LEMMA MemStarts == MemInit => MemInv
  <1> SUFFICES ASSUME MemInit
               PROVE  MemInv
    OBVIOUS
  <1>1. allocs = <<>> /\ nextId = 1
    BY DEF MemInit
  <1>2. Live = {} /\ allocs \in Seq(Allocations) /\ Len(allocs) = 0
    BY <1>1 DEF Live
  <1>3. QED
    BY <1>1, <1>2, TileMemConfigValid DEF MemInv, MemTypeOK, Placed, Apart

LEMMA AllocKeeps ==
    ASSUME MemInv, NEW n \in Nat, NEW requested \in Nat, Alloc(n, requested)
    PROVE  MemInv'
  <1> DEFINE a == IF requested = 0 THEN MinAlign ELSE requested
             base == FirstFit(n, a)
             r == [id |-> nextId, base |-> base, size |-> n, alignment |-> a, live |-> TRUE]
             k == Len(allocs) + 1
  <1>1. CASE UNCHANGED memVars
    BY <1>1 DEF memVars, MemInv, MemTypeOK, Placed, Apart, Live
  <1>2. CASE ~ UNCHANGED memVars
    <2>1. /\ n # 0 /\ ValidAlignment(a) /\ ~TableFull /\ base # -1
          /\ allocs' = Append(allocs, r) /\ nextId' = nextId + 1
      BY <1>2 DEF Alloc
    <2>2. a \in Nat /\ Capacity \in Nat
      BY TileMemConfigValid
    <2>3. a \in Nat \ {0} /\ AddressCount % a = 0
      BY <2>1, <2>2, ValidAlignments
    <2>4. base \in Nat /\ base % a = 0 /\ Room(base, n)
      BY <2>1, <2>3, FoundIsLowest
    <2> HIDE DEF a, base
    <2>5. base + n <= Capacity /\ \A l \in Live : End(allocs[l]) <= base \/ base + n <= allocs[l].base
      BY <2>4 DEF Room
    <2>6. /\ allocs \in Seq(Allocations) /\ Len(allocs) \in Nat /\ Len(allocs) <= MaxAllocs
          /\ nextId = k /\ \A i \in 1 .. Len(allocs) : allocs[i].id = i
      BY DEF MemInv, MemTypeOK
    <2>7. r \in Allocations
      <3>1. base \in 0 .. Capacity - 1 /\ n \in 1 .. Capacity /\ nextId \in Nat
        BY <2>1, <2>2, <2>4, <2>5, <2>6
      <3>2. QED
        BY <2>2, <3>1 DEF Allocations
    <2>8. /\ r.id = k /\ r.base = base /\ r.size = n /\ r.alignment = a /\ r.live
      BY <2>6
    <2> HIDE DEF r
    <2>9. /\ allocs' \in Seq(Allocations) /\ Len(allocs') = k
          /\ allocs'[k] = r /\ \A i \in 1 .. Len(allocs) : allocs'[i] = allocs[i]
      BY <2>1, <2>6, <2>7
    <2>10. MemTypeOK'
      <3>1. k <= MaxAllocs
        BY <2>1, <2>6, TileMemConfigValid DEF TableFull
      <3>2. \A i \in 1 .. k : allocs'[i].id = i
        BY <2>6, <2>8, <2>9
      <3>3. nextId' = k + 1
        BY <2>1, <2>6
      <3>4. QED
        BY <2>6, <2>9, <3>1, <3>2, <3>3 DEF MemTypeOK
    <2>11. /\ Live' = Live \cup {k} /\ k \notin Live
           /\ \A l \in Live : allocs'[l] = allocs[l]
      <3>1. DOMAIN allocs = 1 .. Len(allocs) /\ DOMAIN allocs' = 1 .. k
        BY <2>6, <2>9
      <3>2. QED
        BY <2>6, <2>8, <2>9, <3>1 DEF Live
    <2>12. End(allocs'[k]) = base + n /\ allocs'[k].base = base
      BY <2>8, <2>9 DEF End
    <2>13. Placed'
      <3>1. \A i \in Live : End(allocs[i]) <= Capacity /\ allocs[i].base % allocs[i].alignment = 0
        BY DEF MemInv, Placed
      <3>2. allocs'[k].base % allocs'[k].alignment = 0
        BY <2>4, <2>8, <2>9
      <3>3. QED
        BY <2>5, <2>11, <2>12, <3>1, <3>2 DEF Placed
    <2>14. Apart'
      BY <2>5, <2>11, <2>12 DEF MemInv, Apart
    <2>15. QED
      BY <2>10, <2>13, <2>14 DEF MemInv
  <1>3. QED
    BY <1>1, <1>2

LEMMA FreeKeeps ==
    ASSUME MemInv, NEW id, Free(id)
    PROVE  MemInv'
  <1>1. CASE UNCHANGED memVars
    BY <1>1 DEF memVars, MemInv, MemTypeOK, Placed, Apart, Live
  <1>2. CASE ~ UNCHANGED memVars
    <2> DEFINE k == CHOOSE j \in DOMAIN allocs : allocs[j].id = id
    <2>1. /\ \E i \in DOMAIN allocs : allocs[i].id = id /\ allocs[i].live
          /\ allocs' = [allocs EXCEPT ![k].live = FALSE] /\ nextId' = nextId
      BY <1>2 DEF Free
    <2>2. k \in DOMAIN allocs
      BY <2>1
    <2> HIDE DEF k
    <2>3. allocs \in Seq(Allocations) /\ k \in 1 .. Len(allocs) /\ Len(allocs) \in Nat
      BY <2>2 DEF MemInv, MemTypeOK
    <2> DEFINE r == [allocs[k] EXCEPT !.live = FALSE]
    <2>4. /\ r \in Allocations /\ ~ r.live /\ r.id = allocs[k].id
      <3>1. allocs[k] \in Allocations
        BY <2>3
      <3>2. \A x \in Allocations : LET y == [x EXCEPT !.live = FALSE]
                                  IN  y \in Allocations /\ ~ y.live /\ y.id = x.id
        BY DEF Allocations
      <3>3. QED
        BY <3>1, <3>2
    <2>5. allocs' = [allocs EXCEPT ![k] = r]
      BY <2>1
    <2> HIDE DEF r
    <2>6. /\ allocs' \in Seq(Allocations) /\ Len(allocs') = Len(allocs)
          /\ allocs'[k] = r /\ \A i \in 1 .. Len(allocs) : i # k => allocs'[i] = allocs[i]
      BY <2>3, <2>4, <2>5
    <2>7. MemTypeOK'
      <3>1. \A i \in 1 .. Len(allocs) : allocs'[i].id = allocs[i].id
        BY <2>4, <2>6
      <3>2. QED
        BY <2>1, <2>3, <2>6, <3>1 DEF MemInv, MemTypeOK
    <2>8. Live' \subseteq Live /\ \A l \in Live' : allocs'[l] = allocs[l]
      <3>1. DOMAIN allocs = 1 .. Len(allocs) /\ DOMAIN allocs' = 1 .. Len(allocs)
        BY <2>3, <2>6
      <3>2. QED
        BY <2>4, <2>6, <3>1 DEF Live
    <2>9. Placed' /\ Apart'
      BY <2>8 DEF MemInv, Placed, Apart
    <2>10. QED
      BY <2>7, <2>9 DEF MemInv
  <1>3. QED
    BY <1>1, <1>2

LEMMA MemContinues == MemInv /\ [MemNext]_memVars => MemInv'
  <1> SUFFICES ASSUME MemInv, [MemNext]_memVars
               PROVE  MemInv'
    OBVIOUS
  <1>1. CASE \E n \in Sizes, a \in Alignments : Alloc(n, a)
    <2>1. PICK n \in Nat, a \in Nat : Alloc(n, a)
      BY <1>1, TileMemConfigValid
    <2>2. QED
      BY <2>1, AllocKeeps
  <1>2. CASE \E id \in 0 .. MaxAllocs : Free(id)
    BY <1>2, FreeKeeps
  <1>3. CASE Reset
    <2>1. allocs' = <<>> /\ nextId' = 1
      BY <1>3 DEF Reset
    <2>2. Live' = {} /\ allocs' \in Seq(Allocations) /\ Len(allocs') = 0
      BY <2>1 DEF Live
    <2>3. QED
      BY <2>1, <2>2, TileMemConfigValid DEF MemInv, MemTypeOK, Placed, Apart
  <1>4. CASE UNCHANGED memVars
    BY <1>4 DEF memVars, MemInv, MemTypeOK, Placed, Apart, Live
  <1>5. QED
    BY <1>1, <1>2, <1>3, <1>4 DEF MemNext

\* Live allocations lie inside the capacity, aligned and apart; the table keeps to
\* its length and its identifiers (att1_aimu_mem_alloc_range, att1_aimu_mem_free).
THEOREM AllocatorInductive == MemSpec => []MemInv
  BY MemStarts, MemContinues, PTL DEF MemSpec

\* An address belongs to one live allocation at most, so that a search by address
\* has one answer, and a range that is valid lies in one
\* (att1_aimu_mem_query_by_address, att1_aimu_mem_range_valid).
THEOREM AllocationsShareNoByte == MemSpec => []LiveDisjoint
  <1>1. MemInv => LiveDisjoint
    <2> SUFFICES ASSUME MemInv
                 PROVE  LiveDisjoint
      OBVIOUS
    <2>1. \A l \in Live : /\ l \in Nat /\ End(allocs[l]) \in Nat /\ allocs[l].base \in Nat
                          /\ allocs[l].base < End(allocs[l])
      BY EntryTypes
    <2>2. ASSUME NEW b \in Nat, NEW i \in Holders(b)
          PROVE  Holders(b) = {i} /\ QueryByAddress(b) = {i}
      <3>1. ASSUME NEW j \in Holders(b), j # i
            PROVE  FALSE
        <4>1. /\ i \in Live /\ j \in Live
              /\ allocs[i].base <= b /\ b < End(allocs[i])
              /\ allocs[j].base <= b /\ b < End(allocs[j])
          BY <2>2, <3>1 DEF Holders
        <4>2. End(allocs[i]) <= allocs[j].base \/ End(allocs[j]) <= allocs[i].base
          BY <3>1, <4>1 DEF MemInv, Apart
        <4>3. QED
          BY <2>1, <4>1, <4>2
      <3>2. Holders(b) = {i}
        BY <2>2, <3>1
      <3>3. Holders(b) \in SUBSET Nat
        BY <2>1 DEF Holders
      <3>4. Min(Holders(b)) = i
        BY <3>2, <3>3, MinIsLeast
      <3>5. QED
        BY <3>2, <3>4 DEF QueryByAddress
    <2>3. ASSUME NEW b \in 0 .. Capacity - 1
          PROVE  Holders(b) = QueryByAddress(b)
      <3>1. b \in Nat
        OBVIOUS
      <3>2. CASE Holders(b) = {}
        BY <3>2 DEF QueryByAddress
      <3>3. CASE Holders(b) # {}
        BY <2>2, <3>1, <3>3
      <3>4. QED
        BY <3>2, <3>3
    <2>4. ASSUME NEW b \in 0 .. AddressCount - 1, NEW n \in Sizes, RangeValid(b, n),
                 NEW c \in b .. b + n - 1
          PROVE  QueryByAddress(c) = QueryByAddress(b)
      <3>1. n \in Nat \ {0} /\ b \in Nat
        BY <2>4, TileMemConfigValid DEF RangeValid
      <3>2. PICK i \in Live : allocs[i].base <= b /\ b + n <= End(allocs[i])
        BY <2>4 DEF RangeValid
      <3>3. c \in Nat /\ b <= c /\ c < b + n
        BY <3>1
      <3>4. i \in Holders(b) /\ i \in Holders(c)
        BY <2>1, <3>1, <3>2, <3>3 DEF Holders
      <3>5. QED
        BY <2>2, <3>1, <3>3, <3>4
    <2>5. QED
      BY <2>3, <2>4 DEF LiveDisjoint, MemInv, Placed
  <1>2. QED
    BY <1>1, AllocatorInductive, PTL

\* The scan finds room whenever some aligned range of free bytes is long enough,
\* and takes the lowest: sorting the table and skipping gaps whose alignment wraps
\* loses none (att1_aimu_mem_alloc_range, collect_live_sorted, align_up).
THEOREM ScanFindsLowestRoom == MemSpec => []FirstFitIsLowest
  <1>1. MemInv => FirstFitIsLowest
    <2> SUFFICES ASSUME MemInv, NEW n \in Sizes \ {0}, NEW a \in Alignments, ValidAlignment(a)
                 PROVE  LET rooms == {b \in 0 .. Capacity - n :
                                        b % a = 0 /\ b .. b + n - 1 \subseteq FreeBytes}
                        IN  FirstFit(n, a) = IF rooms = {} THEN -1 ELSE Min(rooms)
      BY DEF FirstFitIsLowest
    <2> DEFINE rooms == {b \in 0 .. Capacity - n :
                           b % a = 0 /\ b .. b + n - 1 \subseteq FreeBytes}
               c == FirstFit(n, a)
    <2>1. n \in Nat \ {0} /\ a \in Nat /\ Capacity \in Nat
      BY TileMemConfigValid
    <2>2. a \in Nat \ {0} /\ AddressCount % a = 0
      BY <2>1, ValidAlignments
    <2>3. \A b : b \in rooms <=> b \in Nat /\ b % a = 0 /\ Room(b, n)
      <3>1. \A b : b \in 0 .. Capacity - n <=> b \in Nat /\ b + n <= Capacity
        BY <2>1
      <3>2. \A b \in Nat : b + n <= Capacity /\ b .. b + n - 1 \subseteq FreeBytes <=> Room(b, n)
        BY <2>1, RoomsAreFreeBytes
      <3>3. QED
        BY <3>1, <3>2
    <2>4. /\ c # -1 => c \in rooms
          /\ \A b \in rooms : c \in Nat /\ c <= b
      <3>1. /\ c # -1 => c \in Nat /\ c % a = 0 /\ Room(c, n)
            /\ \A b \in Nat : b % a = 0 /\ Room(b, n) => c \in Nat /\ c <= b
        BY <2>1, <2>2, FoundIsLowest
      <3> HIDE DEF rooms, c
      <3>2. QED
        BY <2>3, <3>1
    <2>5. rooms \in SUBSET Nat
      <3> HIDE DEF rooms
      <3>1. QED
        BY <2>3
    <2> HIDE DEF rooms, c
    <2>6. CASE rooms = {}
      BY <2>4, <2>6 DEF rooms, c
    <2>7. CASE rooms # {}
      <3>1. c \in rooms
        <4>1. c \in Nat
          BY <2>4, <2>7
        <4>2. QED
          BY <2>4, <4>1
      <3>2. Min(rooms) \in rooms /\ Min(rooms) <= c /\ c <= Min(rooms)
        BY <2>4, <2>5, <2>7, <3>1, MinIsLeast
      <3>3. c = Min(rooms)
        <4>1. PICK x \in Nat, y \in Nat : x = c /\ y = Min(rooms)
          BY <2>5, <3>1, <3>2
        <4>2. QED
          BY <3>2, <4>1
      <3>4. QED
        BY <2>7, <3>3 DEF rooms, c
    <2>8. QED
      BY <2>6, <2>7
  <1>2. QED
    BY <1>1, AllocatorInductive, PTL

(***************************************************************************)
(* The accounts of get_frag.                                               *)
(***************************************************************************)
\* r adds up the sizes of the entries s lists, up to n of them.
Sums(r, n, s) ==
    r = [k \in 0 .. n |-> IF k = 0 THEN 0 ELSE r[k - 1] + allocs[s[k]].size]

LEMMA SumsExist ==
    ASSUME NEW s, NEW n \in Nat
    PROVE  \E r : Sums(r, n, s)
  <1> DEFINE Without == {k \in Nat : ~ \E r : Sums(r, k, s)}
  <1>1. ASSUME Without # {}
        PROVE  FALSE
    <2>0. Without \subseteq Nat
      OBVIOUS
    <2>1. PICK m \in Without : \A k \in Without : m <= k
      BY <1>1, <2>0, LeastNumber
    <2>2. m \in Nat /\ ~ \E r : Sums(r, m, s)
      OBVIOUS
    <2>3. m # 0
      <3>1. Sums([k \in 0 .. 0 |-> 0], 0, s)
        BY DEF Sums
      <3>2. QED
        BY <2>2, <3>1
    <2>4. m - 1 \in Nat /\ m - 1 \notin Without
      BY <2>1, <2>2, <2>3
    <2>5. PICK r : Sums(r, m - 1, s)
      BY <2>4
    <2> DEFINE q == [k \in 0 .. m |-> IF k = m THEN r[m - 1] + allocs[s[m]].size ELSE r[k]]
    <2>6. ASSUME NEW k \in 0 .. m
          PROVE  q[k] = IF k = 0 THEN 0 ELSE q[k - 1] + allocs[s[k]].size
      <3>1. CASE k = m
        <4>1. k - 1 \in 0 .. m /\ k - 1 # m /\ k # 0
          BY <2>2, <2>3, <3>1
        <4>2. QED
          BY <3>1, <4>1
      <3>2. CASE k # m /\ k # 0
        <4>1. k \in 0 .. m - 1 /\ k - 1 \in 0 .. m /\ k - 1 # m
          BY <2>2, <3>2
        <4>2. r[k] = r[k - 1] + allocs[s[k]].size
          BY <2>5, <3>2, <4>1 DEF Sums
        <4>3. QED
          BY <3>2, <4>1, <4>2
      <3>3. CASE k # m /\ k = 0
        <4>1. k \in 0 .. m - 1
          BY <2>4, <3>3
        <4>2. r[k] = 0
          BY <2>5, <3>3, <4>1 DEF Sums
        <4>3. QED
          BY <3>3, <4>2
      <3>4. QED
        BY <3>1, <3>2, <3>3
    <2>7. q = [k \in 0 .. m |-> IF k = 0 THEN 0 ELSE q[k - 1] + allocs[s[k]].size]
      <3>1. q = [k \in 0 .. m |-> q[k]]
        OBVIOUS
      <3> HIDE DEF q
      <3>2. QED
        BY <2>6, <3>1
    <2>8. Sums(q, m, s)
      BY <2>7 DEF Sums
    <2>9. QED
      BY <2>2, <2>8
  <1>2. QED
    BY <1>1

LEMMA UsedIsLastSum ==
    ASSUME MemInv
    PROVE  \E r : /\ r[0] = 0 /\ UsedBytes = r[Count]
                  /\ \A k \in 1 .. Count : r[k] = r[k - 1] + allocs[Sorted[k]].size
  <1> DEFINE r == CHOOSE q : Sums(q, Count, Sorted)
  <1>0. Count \in Nat
    BY SortedEntries
  <1>1. Sums(r, Count, Sorted)
    BY <1>0, SumsExist
  <1>2. UsedBytes = r[Count]
    BY DEF UsedBytes, Sums, Count
  <1> HIDE DEF r
  <1>3. 0 \in 0 .. Count /\ \A k \in 1 .. Count : k \in 0 .. Count /\ k # 0
    BY <1>0
  <1>4. r[0] = 0 /\ \A k \in 1 .. Count : r[k] = r[k - 1] + allocs[Sorted[k]].size
    BY <1>1, <1>3 DEF Sums
  <1>5. QED
    BY <1>2, <1>4

\* The bytes of the first k of the sorted entries.
BytesUpTo(k) == UNION {allocs[Sorted[j]].base .. End(allocs[Sorted[j]]) - 1 : j \in 1 .. k}

LEMMA IntervalSize ==
    ASSUME NEW a \in Nat, NEW b \in Nat, a < b
    PROVE  IsFiniteSet(a .. b - 1) /\ Cardinality(a .. b - 1) = b - a
  <1>1. IsFiniteSet(a .. b - 1) /\ Cardinality(a .. b - 1) = IF a > b - 1 THEN 0 ELSE b - 1 - a + 1
    BY FS_Interval
  <1>2. QED
    BY <1>1

LEMMA UsedIsHeld ==
    ASSUME MemInv
    PROVE  /\ IsFiniteSet(BytesUpTo(Count))
           /\ UsedBytes \in Nat /\ UsedBytes = Cardinality(BytesUpTo(Count))
  <1>1. PICK r : /\ r[0] = 0 /\ UsedBytes = r[Count]
                 /\ \A k \in 1 .. Count : r[k] = r[k - 1] + allocs[Sorted[k]].size
    BY UsedIsLastSum
  <1> DEFINE Good(k) == /\ IsFiniteSet(BytesUpTo(k)) /\ r[k] \in Nat
                        /\ r[k] = Cardinality(BytesUpTo(k))
             Wrong == {k \in 0 .. Count : ~Good(k)}
  <1>2. Count \in Nat
    BY SortedEntries
  <1>3. ASSUME Wrong # {}
        PROVE  FALSE
    <2>0. Wrong \subseteq Nat
      BY <1>2
    <2>1. PICK m \in Wrong : \A k \in Wrong : m <= k
      <3> HIDE DEF Wrong
      <3>1. QED
        BY <1>3, <2>0, LeastNumber
    <2>2. m \in 0 .. Count /\ ~Good(m)
      OBVIOUS
    <2>3. m # 0
      <3>1. BytesUpTo(0) = {}
        BY DEF BytesUpTo
      <3>2. Good(0)
        BY <1>1, <3>1, FS_EmptySet
      <3>3. QED
        BY <2>2, <3>2
    <2>4. m \in 1 .. Count /\ m - 1 \in 0 .. Count /\ m - 1 < m /\ m \in Nat
      BY <1>2, <2>2, <2>3
    <2>5. Good(m - 1)
      BY <2>1, <2>4
    <2> DEFINE e == allocs[Sorted[m]]
               Own == e.base .. End(e) - 1
    <2>6. /\ e.base \in Nat /\ End(e) \in Nat /\ e.base < End(e) /\ e.size \in Nat
          /\ End(e) = e.base + e.size
      BY <2>4, SortedEntries, EntryTypes
    <2>7. BytesUpTo(m) = BytesUpTo(m - 1) \cup Own
      <3>1. 1 .. m = (1 .. m - 1) \cup {m}
        BY <2>4
      <3>2. QED
        BY <3>1 DEF BytesUpTo
    <2>8. BytesUpTo(m - 1) \cap Own = {}
      <3>1. ASSUME NEW j \in 1 .. m - 1, NEW c \in Own,
                   c \in allocs[Sorted[j]].base .. End(allocs[Sorted[j]]) - 1
            PROVE  FALSE
        <4>1. j \in 1 .. Count /\ j < m
          BY <1>2, <2>4
        <4>2. End(allocs[Sorted[j]]) <= e.base
          BY <2>4, <4>1, SortedEntries
        <4>3. End(allocs[Sorted[j]]) \in Nat /\ allocs[Sorted[j]].base \in Nat
          BY <4>1, SortedEntries, EntryTypes
        <4> HIDE DEF e
        <4>4. QED
          BY <2>6, <3>1, <4>2, <4>3
      <3> HIDE DEF Own
      <3>2. QED
        BY <3>1 DEF BytesUpTo
    <2>9. IsFiniteSet(Own) /\ Cardinality(Own) = e.size
      <3> HIDE DEF e
      <3>1. IsFiniteSet(Own) /\ Cardinality(Own) = End(e) - e.base
        BY <2>6, IntervalSize
      <3>2. QED
        BY <2>6, <3>1
    <2> HIDE DEF Own
    <2>10. /\ IsFiniteSet(BytesUpTo(m))
           /\ Cardinality(BytesUpTo(m)) = Cardinality(BytesUpTo(m - 1)) + e.size
      <3>1. /\ IsFiniteSet(BytesUpTo(m - 1) \cup Own)
            /\ Cardinality(BytesUpTo(m - 1) \cup Own)
                  = Cardinality(BytesUpTo(m - 1)) + Cardinality(Own)
                      - Cardinality(BytesUpTo(m - 1) \cap Own)
        BY <2>5, <2>9, FS_Union
      <3>2. Cardinality(BytesUpTo(m - 1) \cap Own) = 0
        BY <2>8, FS_EmptySet
      <3>3. QED
        BY <2>5, <2>6, <2>7, <2>9, <3>1, <3>2
    <2>11. r[m] = r[m - 1] + e.size
      BY <1>1, <2>4
    <2>12. Good(m)
      BY <2>5, <2>6, <2>10, <2>11
    <2>13. QED
      BY <2>2, <2>12
  <1>4. Good(Count)
    BY <1>2, <1>3
  <1>5. QED
    BY <1>1, <1>4

\* Every byte is free or used.
LEMMA BytesAccount ==
    ASSUME MemInv
    PROVE  /\ UsedBytes \in Nat /\ UsedBytes <= Capacity
           /\ Cardinality(FreeBytes) = Capacity - UsedBytes
  <1> DEFINE All == 0 .. Capacity - 1
             Held == BytesUpTo(Count)
  <1>0. Capacity \in Nat \ {0}
    BY TileMemConfigValid
  <1>1. /\ \A l \in Live : /\ End(allocs[l]) \in Nat /\ allocs[l].base \in Nat
                           /\ End(allocs[l]) <= Capacity
        /\ \A k \in 1 .. Count : Sorted[k] \in Live
        /\ \A i \in Live : \E k \in 1 .. Count : Sorted[k] = i
    BY EntryTypes, SortedEntries
  <1>2. IsFiniteSet(All) /\ Cardinality(All) = Capacity
    <2>1. IsFiniteSet(0 .. Capacity - 1) /\ Cardinality(0 .. Capacity - 1) = Capacity - 0
      BY <1>0, IntervalSize
    <2>2. QED
      BY <1>0, <2>1
  <1>3. ASSUME NEW c
        PROVE  c \in Held <=> c \in All /\ Holders(c) # {}
    <2>1. ASSUME c \in Held
          PROVE  c \in All /\ Holders(c) # {}
      <3>1. PICK k \in 1 .. Count : c \in allocs[Sorted[k]].base .. End(allocs[Sorted[k]]) - 1
        BY <2>1 DEF BytesUpTo
      <3> DEFINE i == Sorted[k]
      <3>2. i \in Live /\ c \in allocs[i].base .. End(allocs[i]) - 1
        BY <1>1, <3>1
      <3> HIDE DEF i
      <3>3. c \in All /\ i \in Holders(c)
        BY <1>0, <1>1, <3>2 DEF Holders
      <3>4. QED
        BY <3>3
    <2>2. ASSUME c \in All, Holders(c) # {}
          PROVE  c \in Held
      <3>1. PICK i \in Live : allocs[i].base <= c /\ c < End(allocs[i])
        BY <2>2 DEF Holders
      <3>2. PICK k \in 1 .. Count : Sorted[k] = i
        BY <1>1
      <3>3. c \in allocs[Sorted[k]].base .. End(allocs[Sorted[k]]) - 1
        BY <1>0, <1>1, <2>2, <3>1, <3>2
      <3>4. QED
        BY <3>3 DEF BytesUpTo
    <2>3. QED
      BY <2>1, <2>2
  <1>4. FreeBytes = All \ Held
    <2>1. FreeBytes = {c \in All : Holders(c) = {}}
      BY DEF FreeBytes, QueryByAddress
    <2> HIDE DEF All, Held
    <2>2. QED
      BY <1>3, <2>1
  <1>5. Held \subseteq All /\ IsFiniteSet(Held) /\ UsedBytes = Cardinality(Held) /\ UsedBytes \in Nat
    <2>1. IsFiniteSet(Held) /\ UsedBytes = Cardinality(Held) /\ UsedBytes \in Nat
      BY UsedIsHeld
    <2> HIDE DEF All, Held
    <2>2. QED
      BY <1>3, <2>1
  <1> HIDE DEF All, Held
  <1>6. Cardinality(All \ Held) = Cardinality(All) - Cardinality(Held)
    <2>1. Cardinality(All \ Held) = Cardinality(All) - Cardinality(All \cap Held)
      BY <1>2, <1>5, FS_Difference
    <2>2. All \cap Held = Held
      BY <1>5
    <2>3. QED
      BY <2>1, <2>2
  <1>7. Cardinality(Held) <= Cardinality(All)
    BY <1>2, <1>5, FS_Subset
  <1>8. QED
    BY <1>2, <1>4, <1>5, <1>6, <1>7

GapLengths == {Gaps[i].end - Gaps[i].start : i \in DOMAIN Gaps}
Runs == {n \in 0 .. Capacity : \E b \in 0 .. Capacity - n : b .. b + n - 1 \subseteq FreeBytes}

LEMMA MaxIsGreatest ==
    ASSUME NEW S, NEW c \in Nat, S \subseteq Int, S # {}, \A k \in S : k <= c
    PROVE  Max(S) \in S /\ \A k \in S : Max(S) >= k
  <1> DEFINE D == {c - k : k \in S}
  <1>1. D \subseteq Nat /\ D # {}
    OBVIOUS
  <1>2. PICK d \in D : \A e \in D : d <= e
    <2> HIDE DEF D
    <2>1. QED
      BY <1>1, LeastNumber
  <1>3. PICK m \in S : d = c - m
    OBVIOUS
  <1>4. \A k \in S : m >= k
    <2> SUFFICES ASSUME NEW k \in S
                 PROVE  m >= k
      OBVIOUS
    <2>1. c - m <= c - k
      BY <1>2, <1>3
    <2>2. m \in Int /\ k \in Int
      OBVIOUS
    <2>3. QED
      BY <2>1, <2>2
  <1>5. QED
    BY <1>4 DEF Max

\* The longest gap is the longest run of free bytes.
LEMMA LargestIsLongestRun ==
    ASSUME MemInv
    PROVE  /\ Max({0} \cup GapLengths) = Max(Runs)
           /\ Max({0} \cup GapLengths) \in 0 .. Capacity
  <1> DEFINE S == {0} \cup GapLengths
  <1>0. Capacity \in Nat \ {0} /\ DOMAIN Gaps = 1 .. Count + 1
    BY TileMemConfigValid, GapEnds
  <1>1. \A i \in 1 .. Count + 1 : Gaps[i].start \in Nat /\ Gaps[i].end \in Nat
    BY GapEnds
  <1>2. ASSUME NEW i \in 1 .. Count + 1, Gaps[i].end - Gaps[i].start \in Nat \ {0}
        PROVE  Room(Gaps[i].start, Gaps[i].end - Gaps[i].start)
    <2> DEFINE s == Gaps[i].start
               e == Gaps[i].end
    <2>1. s \in Nat /\ e \in Nat /\ s + (e - s) = e
      BY <1>1
    <2>2. \A l \in Live : End(allocs[l]) <= s \/ e <= allocs[l].base
      BY GapsAreFree
    <2>3. e <= Capacity
      BY GapsEndInside
    <2> HIDE DEF s, e
    <2>4. Room(s, e - s)
      BY <2>1, <2>2, <2>3 DEF Room
    <2>5. QED
      BY <2>4 DEF s, e
  <1>3. S \subseteq Int /\ S # {} /\ \A k \in S : k <= Capacity
    <2>1. ASSUME NEW i \in 1 .. Count + 1
          PROVE  /\ Gaps[i].end - Gaps[i].start \in Int
                 /\ Gaps[i].end - Gaps[i].start <= Capacity
      BY <1>0, <1>1, GapsEndInside
    <2>2. QED
      BY <1>0, <2>1 DEF GapLengths
  <1>4. Max(S) \in S /\ \A k \in S : Max(S) >= k
    <2> HIDE DEF S
    <2>1. QED
      BY <1>0, <1>3, MaxIsGreatest
  <1>5. 0 \in S
    OBVIOUS
  <1>6. Max(S) \in 0 .. Capacity
    <2> HIDE DEF S
    <2>1. Max(S) \in S
      BY <1>4
    <2>2. Max(S) >= 0
      BY <1>4, <1>5
    <2>3. Max(S) <= Capacity
      BY <1>3, <2>1
    <2>4. Max(S) \in Int
      BY <1>3, <2>1
    <2>5. PICK x \in Int : x = Max(S)
      BY <2>4
    <2>6. QED
      BY <1>0, <2>2, <2>3, <2>5
  <1>7. Max(S) \in Runs
    <2>1. CASE Max(S) = 0
      <3>1. 0 .. 0 + 0 - 1 = {} /\ 0 \in 0 .. Capacity - 0 /\ 0 \in 0 .. Capacity
        BY <1>0
      <3>2. 0 \in Runs
        BY <3>1 DEF Runs
      <3>3. QED
        BY <2>1, <3>2
    <2>2. CASE Max(S) # 0
      <3>1. PICK i \in 1 .. Count + 1 : Max(S) = Gaps[i].end - Gaps[i].start
        BY <1>0, <1>4, <2>2 DEF GapLengths
      <3> DEFINE n == Gaps[i].end - Gaps[i].start
                 b == Gaps[i].start
      <3>2. n \in Nat \ {0} /\ n = Max(S) /\ b \in Nat /\ n <= Capacity
        BY <1>1, <1>6, <2>2, <3>1
      <3>3. Room(b, n)
        BY <1>2, <3>2
      <3> HIDE DEF n, b, S
      <3>4. b + n <= Capacity /\ b .. b + n - 1 \subseteq FreeBytes
        BY <3>2, <3>3, RoomsAreFreeBytes
      <3>5. n \in 0 .. Capacity /\ b \in 0 .. Capacity - n
        BY <1>0, <3>2, <3>4
      <3>6. n \in Runs
        BY <3>4, <3>5 DEF Runs
      <3>7. QED
        BY <3>2, <3>6
    <2>3. QED
      BY <2>1, <2>2
  <1>8. ASSUME NEW n \in Runs
        PROVE  n <= Max(S)
    <2>1. n \in 0 .. Capacity
      BY DEF Runs
    <2>2. PICK b \in 0 .. Capacity - n : b .. b + n - 1 \subseteq FreeBytes
      BY DEF Runs
    <2>3. CASE n = 0
      <3> HIDE DEF S
      <3>1. QED
        BY <1>6, <2>3
    <2>4. CASE n # 0
      <3>1. n \in Nat \ {0} /\ b \in Nat /\ b + n <= Capacity
        BY <1>0, <2>1, <2>4
      <3>2. Room(b, n)
        BY <2>2, <3>1, RoomsAreFreeBytes
      <3>3. \A l \in Live : End(allocs[l]) <= b \/ b + n <= allocs[l].base
        BY <3>2 DEF Room
      <3>4. PICK i \in 1 .. Count + 1 : Gaps[i].start <= b /\ b + n <= Gaps[i].end
        BY <3>1, <3>3, FreeBytesInGap
      <3>5. Gaps[i].end - Gaps[i].start \in S
        BY <1>0 DEF GapLengths
      <3>6. Gaps[i].end - Gaps[i].start <= Max(S)
        <4> HIDE DEF S
        <4>1. Max(S) >= Gaps[i].end - Gaps[i].start
          BY <1>4, <3>5
        <4>2. QED
          BY <1>1, <1>6, <4>1
      <3> HIDE DEF S
      <3>7. PICK x \in Nat, y \in Nat : x = Gaps[i].start /\ y = Gaps[i].end
        BY <1>1
      <3>8. PICK z \in Nat : z = Max(S)
        BY <1>6
      <3>9. QED
        BY <3>1, <3>4, <3>6, <3>7, <3>8
    <2>5. QED
      BY <2>3, <2>4
  <1> HIDE DEF S
  <1>9. Max(Runs) \in Runs /\ \A n \in Runs : Max(Runs) >= n
    <2>1. Runs \subseteq Int /\ Runs # {} /\ \A n \in Runs : n <= Capacity
      <3>1. Runs \subseteq 0 .. Capacity
        BY DEF Runs
      <3>2. QED
        BY <1>0, <1>7, <3>1
    <2>2. QED
      BY <1>0, <2>1, MaxIsGreatest
  <1>10. Max(S) = Max(Runs)
    <2>1. Max(Runs) <= Max(S)
      BY <1>8, <1>9
    <2>2. Max(Runs) >= Max(S)
      BY <1>7, <1>9
    <2>3. Max(Runs) \in 0 .. Capacity
      <3>1. Runs \subseteq 0 .. Capacity
        BY DEF Runs
      <3>2. QED
        BY <1>9, <3>1
    <2>4. PICK x \in Nat, y \in Nat : x = Max(S) /\ y = Max(Runs)
      BY <1>0, <1>6, <2>3
    <2>5. QED
      BY <2>1, <2>2, <2>4
  <1>11. QED
    BY <1>6, <1>10 DEF S

\* get_frag: what it calls free are the bytes of no live entry, and the largest block
\* is the longest run of them, for any order of allocations and frees
\* (att1_aimu_mem_get_frag).
THEOREM FragmentationIsExact == MemSpec => []FragIsExact
  <1>1. MemInv => FragIsExact
    <2> SUFFICES ASSUME MemInv
                 PROVE  FragIsExact
      OBVIOUS
    <2> DEFINE used == UsedBytes
               free == IF Capacity > used THEN Capacity - used ELSE 0
               largest == Max({0} \cup GapLengths)
               share == ((free - largest) * 100) \div free
               pct == IF free = 0 \/ largest >= free THEN 0 ELSE Min({100, share})
    <2>0. Capacity \in Nat \ {0}
      BY TileMemConfigValid
    <2>1. used \in Nat /\ used <= Capacity /\ Cardinality(FreeBytes) = Capacity - used
      BY BytesAccount
    <2>2. largest = Max(Runs) /\ largest \in 0 .. Capacity
      BY LargestIsLongestRun
    <2>3. Frag = [used |-> used, free |-> free, largest |-> largest,
                  count |-> Cardinality(Live), pct |-> pct]
      BY DEF Frag, GapLengths
    <2> HIDE DEF used, largest
    <2>4. free = Capacity - used /\ free \in Nat
      BY <2>0, <2>1
    <2> HIDE DEF free
    <2>5. pct \in 0 .. 100
      <3>1. CASE free = 0 \/ largest >= free
        BY <3>1
      <3>2. CASE ~ (free = 0 \/ largest >= free)
        <4>1. free \in Nat \ {0} /\ (free - largest) * 100 \in Nat
          BY <2>2, <2>4, <3>2
        <4>2. share \in Nat
          BY <4>1, Division
        <4> HIDE DEF share
        <4>3. Min({100, share}) \in {100, share} /\ Min({100, share}) <= 100
          BY <4>2, MinIsLeast
        <4>4. QED
          BY <3>2, <4>2, <4>3
      <3>3. QED
        BY <3>1, <3>2
    <2> HIDE DEF pct
    <2>6. /\ Frag.free = free /\ Frag.used = used /\ Frag.largest = largest /\ Frag.pct = pct
      BY <2>3
    <2>7. used + free = Capacity
      BY <2>0, <2>1, <2>4
    <2>8. QED
      BY <2>1, <2>2, <2>4, <2>5, <2>6, <2>7 DEF FragIsExact, Runs
  <1>2. QED
    BY <1>1, AllocatorInductive, PTL
=============================================================================
