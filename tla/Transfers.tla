----------------------------- MODULE Transfers ------------------------------
(***************************************************************************)
(* Tensors made resident through the DMA engine: the loading and residency *)
(* part of the PCIe backend (src/backend_pcie.c) over Dma, next to other   *)
(* programs' transfers and registrations on the same engine.               *)
(*                                                                         *)
(* A load sends one descriptor per chunk.  It is one thread's loop, so no  *)
(* other call of this backend runs inside it, but over the socket endpoint *)
(* each descriptor is a message: its request or its answer may be lost,    *)
(* and other clients' calls reach the engine between two of them.          *)
(***************************************************************************)
EXTENDS Dma, FiniteSets

CONSTANTS Tensors,       \* tensor identifiers
          MaxTransfer,   \* ATT1_AIMU_DMA_MAX_TRANSFER_BYTES
          MaxResident,   \* ATT1_BACKEND_PCIE_MAX_RESIDENT_TENSORS
          Addresses,     \* the addresses used
          Lengths,       \* the lengths of loads; descriptors up to MaxTransfer
          AttemptLimit,  \* descriptors submitted, for a finite model
          RefusalLimit   \* duplicate loads refused, for a finite model

ASSUME TransfersConfigValid ==
    /\ {MaxTransfer, MaxResident, AttemptLimit, RefusalLimit} \subseteq Nat \ {0}
    /\ MaxTransfer < AddressRange
    /\ Addresses \subseteq 0 .. AddressRange - 1 /\ Lengths \subseteq Nat

NoLoad == [offset |-> -1]

VARIABLES loading,       \* the running load_tensor: its arguments and offset
          resident,      \* data->resident
          residency,     \* data->residency_counters
          moved,         \* the loads' descriptors the engine accepted
          attempts       \* descriptors handed to the engine

backendVars == <<loading, resident, residency>>
vars == <<dmaVars, backendVars, moved, attempts>>

\* att1_backend_pcie_create
Init ==
    /\ DmaInit
    /\ loading = NoLoad /\ resident = <<>>
    /\ residency = [transfers |-> 0, descriptors |-> 0, bytes |-> 0, duplicates |-> 0]
    /\ moved = {} /\ attempts = 0

Descriptor(dir, a, b, n, form) ==
    [dir |-> dir, first |-> a, second |-> b, length |-> n, form |-> form]

\* The engine handles the load's descriptor d.
Handled(d) ==
    /\ Submit(d)
    /\ moved' = IF Validate(d) = "valid"
                THEN moved \cup {[desc |-> d, tensor |-> loading.tensor]} ELSE moved

IsResident(t) == \E i \in DOMAIN resident : resident[i].tensor = t

\* att1_backend_pcie_load_tensor up to its loop
LoadBegin(t, host, device, n) ==
    /\ loading = NoLoad
    /\ UNCHANGED <<dmaVars, resident, moved, attempts>>
    /\ IF n # 0 /\ IsResident(t)
       THEN /\ residency' = [residency EXCEPT !.duplicates = @ + 1]
            /\ residency'.duplicates <= RefusalLimit
            /\ UNCHANGED loading
       ELSE /\ UNCHANGED residency
            /\ loading' = IF n = 0 \/ Len(resident) >= MaxResident THEN NoLoad
                          ELSE [tensor |-> t, host |-> host, device |-> device,
                                length |-> n, offset |-> 0]

\* The length of the next chunk
ChunkLength ==
    LET remaining == loading.length - loading.offset
    IN IF remaining > MaxTransfer THEN MaxTransfer ELSE remaining

NextChunk(form) == Descriptor("to_device", Plus(loading.host, loading.offset),
                              Plus(loading.device, loading.offset), ChunkLength, form)

\* The caller's dtype may be none, and a chunk's length no multiple of its Q4 groups;
\* the flags are the backend's own.
ChunkForms == {"valid", "malformed"}

\* Mutation of ChunkAccepted: the entry is recorded with the first chunk.
ChunkAcceptedEarly(n) ==
    LET done == loading.offset + n >= loading.length IN
    /\ resident' = IF loading.offset = 0
                   THEN Append(resident, [tensor |-> loading.tensor, device |-> loading.device,
                                          length |-> loading.length]) ELSE resident
    /\ residency' = [residency EXCEPT !.descriptors = @ + 1, !.bytes = @ + n,
                                      !.transfers = @ + IF done THEN 1 ELSE 0]
    /\ loading' = IF done THEN NoLoad ELSE [loading EXCEPT !.offset = @ + n]

\* The rest of the loop's body, and after the last chunk the entry of the tensor
ChunkAccepted(n) ==
    LET done == loading.offset + n >= loading.length IN
    /\ resident' = IF done
                   THEN Append(resident, [tensor |-> loading.tensor, device |-> loading.device,
                                          length |-> loading.length]) ELSE resident
    /\ residency' = [residency EXCEPT !.descriptors = @ + 1, !.bytes = @ + n,
                                      !.transfers = @ + IF done THEN 1 ELSE 0]
    /\ loading' = IF done THEN NoLoad ELSE [loading EXCEPT !.offset = @ + n]

\* One chunk: the engine answers, or request or answer are lost; on a failure the
\* load returns and leaves no entry.
LoadChunk(fate, form) ==
    /\ loading # NoLoad
    /\ attempts' = attempts + 1 /\ attempts' <= AttemptLimit
    /\ IF fate = "unsent" THEN UNCHANGED <<dmaVars, moved>> ELSE Handled(NextChunk(form))
    /\ IF fate = "answered" /\ Validate(NextChunk(form)) = "valid"
       THEN ChunkAccepted(ChunkLength)
       ELSE loading' = NoLoad /\ UNCHANGED <<resident, residency>>

\* Another program's descriptor, registration or reset of the counters
OtherSubmit(dir, a, b, n, form) ==
    /\ attempts' = attempts + 1 /\ attempts' <= AttemptLimit
    /\ Submit(Descriptor(dir, a, b, n, form))
    /\ UNCHANGED <<backendVars, moved>>
OtherRegister(side, r) ==
    RegisterRegion(side, r) /\ UNCHANGED <<backendVars, moved, attempts>>
OtherReset == ResetCounters /\ UNCHANGED <<backendVars, moved, attempts>>

Next ==
    \/ \E t \in Tensors, h \in Addresses, d \in Addresses, n \in Lengths : LoadBegin(t, h, d, n)
    \/ \E fate \in {"answered", "unsent", "unanswered"}, form \in ChunkForms :
          LoadChunk(fate, form)
    \/ \E dir \in Directions, a \in Addresses, b \in Addresses, form \in Forms :
          OtherSubmit(dir, a, b, MaxTransfer, form)
    \/ \E side \in Sides, r \in Regions : OtherRegister(side, r)
    \/ OtherReset

Spec == Init /\ [][Next]_vars

-----------------------------------------------------------------------------
Bytes(a, n) == a .. a + n - 1
\* All n bytes from a exist below top, in one region that ends at or below it.
InsideBelow(side, a, n, top) ==
    /\ Bytes(a, n) \subseteq 0 .. top - 1
    /\ regions[side] # <<>> => \E i \in DOMAIN regions[side] :
          LET r == regions[side][i] IN
          Bytes(a, n) \subseteq Bytes(r.base, r.size) /\ r.base + r.size <= top
Inside(side, a, n) == InsideBelow(side, a, n, AddressRange)
InsideBelowTop(side, a, n) == InsideBelow(side, a, n, AddressRange - 1)

\* A valid descriptor moves bytes that exist, all of them in one of the regions
\* registered on each side, and between two places of the device they differ; and
\* an aligned one inside a region is not refused, unless it ends at the very top.
\* The checks work on ends modulo 2^64.
ValidIsInside ==
    \A dir \in Directions, a \in Addresses, b \in Addresses, n \in 1 .. MaxTransfer :
        LET apart == dir = "on_device" => Bytes(a, n) \cap Bytes(b, n) = {}
            verdict == Validate(Descriptor(dir, a, b, n, "valid"))
        IN /\ verdict = "valid" =>
                 Inside(SidesOf(dir)[1], a, n) /\ Inside(SidesOf(dir)[2], b, n) /\ apart
           /\ verdict # "valid" =>
                 \/ a % AlignBytes # 0 \/ b % AlignBytes # 0 \/ ~apart
                 \/ ~InsideBelowTop(SidesOf(dir)[1], a, n)
                 \/ ~InsideBelowTop(SidesOf(dir)[2], b, n)

\* The backend takes a tensor for resident only when the engine has accepted every
\* byte of it, chunk by chunk, also when earlier attempts failed half way; the
\* chunks never run across the end of the address space.
ResidentMeansMoved ==
    \A i \in DOMAIN resident :
        LET r == resident[i] IN
        Bytes(r.device, r.length) \subseteq
            UNION {Bytes(m.desc.second, m.desc.length) : m \in {x \in moved : x.tensor = r.tensor}}

\* att1_backend.h: each tensor is loaded once.  Nothing is sent for a tensor that is
\* resident; it has one entry, and the counter of transfers is that of entries.
LoadedOnce ==
    /\ \A i, j \in DOMAIN resident : resident[i].tensor = resident[j].tensor => i = j
    /\ loading # NoLoad => ~IsResident(loading.tensor)
    /\ Len(resident) <= MaxResident
    /\ residency.transfers = Len(resident)

\* Both: the table of resident tensors tells what is on the device, once.
ResidencySound == ResidentMeansMoved /\ LoadedOnce
=============================================================================
