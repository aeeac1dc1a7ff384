------------------------------- MODULE KVMMU -------------------------------
(***************************************************************************)
(* The paged KV-cache MMU (src/kv_mmu.c): a table of sessions and a pool   *)
(* of physical pages shared by all sessions and layers.  A token position  *)
(* of a session and layer lives in the page of logical number              *)
(* position / page_tokens, in slot position % page_tokens.                 *)
(*                                                                         *)
(* Abstractions.  The keys and values of one token, over all heads, are    *)
(* one payload: a read for any valid head returns its slice of it.         *)
(* token_present and the data are one function: a slot holds a payload or  *)
(* Absent.  Null handles cannot happen between create and destroy; null    *)
(* argument pointers are the input nullArg.                                *)
(***************************************************************************)
EXTENDS Naturals, FiniteSets

CONSTANTS SessionIds,    \* the uint64_t identifiers callers use; 0 is one of them
          MaxSessions,   \* config.max_sessions
          MaxPages,      \* config.max_pages
          NumLayers,     \* config.num_layers
          NumHeads,      \* config.num_heads
          PageTokens,    \* config.page_tokens
          MaxPositions,  \* config.max_positions
          SizeMax,       \* SIZE_MAX of the machine
          Payloads,      \* what a token may hold
          Absent,        \* a slot whose token_present byte is 0
          CounterLimit   \* bound on the trace counters between two resets

\* att1_kv_mmu_config_valid, and what size_t can hold.
ASSUME ConfigValid ==
    /\ SessionIds \subseteq Nat /\ 0 \in SessionIds
    /\ MaxSessions \in Nat \ {0}
    /\ MaxPages \in Nat \ {0}
    /\ NumLayers \in Nat \ {0}
    /\ NumHeads \in Nat \ {0}
    /\ PageTokens \in Nat \ {0}
    /\ MaxPositions \in Nat \ {0}
    /\ MaxPositions <= MaxPages * PageTokens
    /\ SizeMax \in Nat /\ MaxPages * PageTokens <= SizeMax
    /\ NumLayers <= SizeMax /\ NumHeads <= SizeMax
    /\ Absent \notin Payloads
    /\ CounterLimit \in Nat

VARIABLES sessions,      \* att1_kv_mmu.sessions: the session table
          pages,         \* att1_kv_mmu.pages: the physical pages
          counters,      \* att1_kv_mmu.counters
          reply          \* what the last call returned, and to which request

vars == <<sessions, pages, counters, reply>>

SessionSlots == 0..MaxSessions - 1
PageIndexes == 0..MaxPages - 1
Slots == 0..PageTokens - 1
Layers == 0..NumLayers - 1
Positions == 0..MaxPositions - 1
Size == 0..SizeMax

Statuses == {"OK", "INVALID_ARG", "NOT_FOUND", "STATE", "OOM"}
Operations == {"create", "destroy", "append", "read", "copy_range",
               "lookup_page", "reset_counters"}

-----------------------------------------------------------------------------
(* Records as calloc and memset leave them: inactive, all fields zero.     *)

ZeroSession == [active |-> FALSE, id |-> 0]

ZeroPage == [active |-> FALSE, session |-> 0, layer |-> 0, logical |-> 0,
             tokens |-> [t \in Slots |-> Absent]]

ZeroCounters == [hits |-> 0, misses |-> 0, allocations |-> 0, appends |-> 0,
                 reads |-> 0, copies |-> 0, errors |-> 0]

-----------------------------------------------------------------------------
(* Searches.                                                               *)

FindSession(s) == {i \in SessionSlots : sessions[i].active /\ sessions[i].id = s}

LogicalPage(p) == p \div PageTokens
TokenInPage(p) == p % PageTokens

\* Mutation of FindPage: the session of a page is not compared.
FindPageOfAnySession(s, l, g) ==
    {i \in PageIndexes : pages[i].active /\ pages[i].layer = l /\ pages[i].logical = g}

FindPage(s, l, g) ==
    {i \in PageIndexes : /\ pages[i].active
                         /\ pages[i].session = s
                         /\ pages[i].layer = l
                         /\ pages[i].logical = g}

\* Both searches run upwards from index 0 and stop at the first match.
First(S) == CHOOSE i \in S : \A j \in S : i <= j

\* What the slot of a position holds: Absent when no page is mapped there.
Token(s, l, p) ==
    LET S == FindPage(s, l, LogicalPage(p))
    IN  IF S = {} THEN Absent ELSE pages[First(S)].tokens[TokenInPage(p)]

TokenPresent(s, l, p) == Token(s, l, p) # Absent

\* Mutation of IsNextPosition: an append may leave a gap.
IsFreePosition(s, l, p) == ~TokenPresent(s, l, p)

\* p is where the upward scan of att1_kv_mmu_next_position stops.
IsNextPosition(s, l, p) ==
    /\ ~TokenPresent(s, l, p)
    /\ \A q \in 0..p - 1 : TokenPresent(s, l, q)

FreePages == {i \in PageIndexes : ~pages[i].active}

-----------------------------------------------------------------------------
(* Validation, in the order of the checks of the code.                     *)

\* Mutation of AddressStatus: one layer too many.
AddressStatusOneLayerMore(s, l) ==
    CASE FindSession(s) = {} -> "NOT_FOUND"
      [] FindSession(s) # {} /\ l > NumLayers -> "INVALID_ARG"
      [] OTHER -> "OK"

AddressStatus(s, l) ==
    CASE FindSession(s) = {} -> "NOT_FOUND"
      [] FindSession(s) # {} /\ l >= NumLayers -> "INVALID_ARG"
      [] OTHER -> "OK"

PositionStatus(p) == IF p >= MaxPositions THEN "INVALID_ARG" ELSE "OK"

\* The sum of the second test is computed in size_t and may wrap.
RangeStatus(from, n) ==
    IF \/ n = 0
       \/ from > SizeMax - (n - 1)
       \/ (from + n) % (SizeMax + 1) > MaxPositions
    THEN "INVALID_ARG"
    ELSE "OK"

\* The first failing check of a sequence of two.
Then(first, second) == IF first # "OK" THEN first ELSE second

LocationStatus(s, l, p) == Then(AddressStatus(s, l), PositionStatus(p))

NullStatus(nullArg) == IF nullArg THEN "INVALID_ARG" ELSE "OK"

-----------------------------------------------------------------------------
(* Replies and counters.                                                   *)

Answer(op, addr, status, data) ==
    reply' = [op |-> op, addr |-> addr, status |-> status, data |-> data]

OneIf(c) == IF c THEN 1 ELSE 0

NoData == [k \in {} |-> Absent]

\* The bound on the counters: an operation runs while they are below it.
Budget == counters.hits + counters.misses + counters.errors < CounterLimit

\* att1_kv_mmu_error, then return the status.
Reject(op, addr, status) ==
    /\ status # "OK"
    /\ counters' = [counters EXCEPT !.errors = @ + 1]
    /\ Answer(op, addr, status, NoData)
    /\ UNCHANGED <<sessions, pages>>

-----------------------------------------------------------------------------
Init ==
    /\ sessions = [i \in SessionSlots |-> ZeroSession]
    /\ pages = [i \in PageIndexes |-> ZeroPage]
    /\ counters = ZeroCounters
    /\ reply = [op |-> "create", addr |-> <<>>, status |-> "OK", data |-> NoData]

-----------------------------------------------------------------------------
(* att1_kv_mmu_create_session                                              *)

FreeSessionSlots == {i \in SessionSlots : ~sessions[i].active}

CreateSession(s) ==
    /\ FindSession(s) = {}
    /\ FreeSessionSlots # {}
    /\ sessions' = [sessions EXCEPT ![First(FreeSessionSlots)] =
                        [active |-> TRUE, id |-> s]]
    /\ Answer("create", <<>>, "OK", NoData)
    /\ UNCHANGED <<pages, counters>>

CreateSessionRejected(s) ==
    Reject("create", <<>>,
           CASE FindSession(s) # {} -> "STATE"
             [] FindSession(s) = {} /\ FreeSessionSlots = {} -> "OOM"
             [] OTHER -> "OK")

(* att1_kv_mmu_destroy_session: releases every page of the session.        *)

\* Mutation of DestroySession: the pages stay.
DestroySessionOnly(s) ==
    /\ FindSession(s) # {}
    /\ sessions' = [sessions EXCEPT ![First(FindSession(s))] = ZeroSession]
    /\ Answer("destroy", <<>>, "OK", NoData)
    /\ UNCHANGED <<pages, counters>>

DestroySession(s) ==
    /\ FindSession(s) # {}
    /\ pages' = [i \in PageIndexes |->
                    IF pages[i].active /\ pages[i].session = s
                    THEN ZeroPage ELSE pages[i]]
    /\ sessions' = [sessions EXCEPT ![First(FindSession(s))] = ZeroSession]
    /\ Answer("destroy", <<>>, "OK", NoData)
    /\ UNCHANGED counters

DestroySessionRejected(s) ==
    /\ FindSession(s) = {}
    /\ Reject("destroy", <<>>, "NOT_FOUND")

(* att1_kv_mmu_append.  The last check of the code, that the slot found is *)
(* empty, repeats what the scan for the next position has just seen.       *)

AppendStatus(s, l, p, nullArg) ==
    Then(Then(NullStatus(nullArg), LocationStatus(s, l, p)),
         IF IsNextPosition(s, l, p) THEN "OK" ELSE "STATE")

AppendRejected(s, l, p, nullArg) ==
    Reject("append", <<>>, AppendStatus(s, l, p, nullArg))

\* The page is mapped: a hit.
AppendToPage(s, l, p, v) ==
    LET S == FindPage(s, l, LogicalPage(p)) IN
    /\ AppendStatus(s, l, p, FALSE) = "OK"
    /\ S # {}
    /\ pages' = [pages EXCEPT ![First(S)].tokens[TokenInPage(p)] = v]
    /\ counters' = [counters EXCEPT !.hits = @ + 1, !.appends = @ + 1]
    /\ Answer("append", <<>>, "OK", NoData)
    /\ UNCHANGED sessions

\* Mutation of AppendNewPage: a page per token.
AppendAlwaysNewPage(s, l, p, v) ==
    /\ AppendStatus(s, l, p, FALSE) = "OK"
    /\ FreePages # {}
    /\ pages' = [pages EXCEPT ![First(FreePages)] =
                    [active |-> TRUE, session |-> s, layer |-> l,
                     logical |-> LogicalPage(p),
                     tokens |-> [t \in Slots |->
                                    IF t = TokenInPage(p) THEN v ELSE Absent]]]
    /\ Answer("append", <<>>, "OK", NoData)
    /\ UNCHANGED <<sessions, counters>>

\* No page is mapped: a miss, and the first free page is taken.
AppendNewPage(s, l, p, v) ==
    /\ AppendStatus(s, l, p, FALSE) = "OK"
    /\ FindPage(s, l, LogicalPage(p)) = {}
    /\ FreePages # {}
    /\ pages' = [pages EXCEPT ![First(FreePages)] =
                    [active |-> TRUE, session |-> s, layer |-> l,
                     logical |-> LogicalPage(p),
                     tokens |-> [t \in Slots |->
                                    IF t = TokenInPage(p) THEN v ELSE Absent]]]
    /\ counters' = [counters EXCEPT !.misses = @ + 1,
                                    !.allocations = @ + 1,
                                    !.appends = @ + 1]
    /\ Answer("append", <<>>, "OK", NoData)
    /\ UNCHANGED sessions

\* Mutation of AppendOutOfMemory: the page is not released when calloc fails.
AppendKeepsFailedPage(s, l, p, callocFails) ==
    /\ AppendStatus(s, l, p, FALSE) = "OK"
    /\ FindPage(s, l, LogicalPage(p)) = {}
    /\ FreePages # {} /\ callocFails
    /\ pages' = [pages EXCEPT ![First(FreePages)] =
                    [ZeroPage EXCEPT !.active = TRUE, !.session = s, !.layer = l,
                                     !.logical = LogicalPage(p)]]
    /\ counters' = [counters EXCEPT !.misses = @ + 1, !.errors = @ + 1]
    /\ Answer("append", <<>>, "OOM", NoData)
    /\ UNCHANGED sessions

\* No page is mapped and none can be had: the pool is exhausted, or calloc
\* fails and the page is released again.
AppendOutOfMemory(s, l, p, callocFails) ==
    /\ AppendStatus(s, l, p, FALSE) = "OK"
    /\ FindPage(s, l, LogicalPage(p)) = {}
    /\ FreePages = {} \/ callocFails
    /\ counters' = [counters EXCEPT !.misses = @ + 1, !.errors = @ + 1]
    /\ Answer("append", <<>>, "OOM", NoData)
    /\ UNCHANGED <<sessions, pages>>

(* att1_kv_mmu_read, and the reads att1_kv_mmu_copy_range makes.           *)

\* How many positions from the first on can be read before one is missing.
ReadableFrom(s, l, from, n) ==
    CHOOSE k \in 0..n :
        /\ \A i \in 0..k - 1 : TokenPresent(s, l, from + i)
        /\ k < n => ~TokenPresent(s, l, from + k)

\* Mutation of ReadLoop: a copy that fails midway counts all its reads.
ReadLoopCountsAll(op, s, l, from, n, copied) ==
    LET k == ReadableFrom(s, l, from, n) IN
    /\ counters' = [counters EXCEPT !.hits = @ + k, !.reads = @ + n]
    /\ Answer(op, <<s, l, from, n>>, IF k < n THEN "NOT_FOUND" ELSE "OK", NoData)
    /\ UNCHANGED <<sessions, pages>>

\* n reads in a row for a valid session and layer, stopping at the first that
\* fails: no token there (after a hit or a miss), or a position out of range
\* (before either).  The output buffer keeps what the successful ones copied;
\* copied is what a complete run adds to range_copy_ops.
ReadLoop(op, s, l, from, n, copied) ==
    LET k       == ReadableFrom(s, l, from, n)
        failed  == k < n
        outside == failed /\ from + k >= MaxPositions
        mapped  == FindPage(s, l, LogicalPage(from + k)) # {}
    IN  /\ counters' = [counters EXCEPT
               !.hits   = @ + k + OneIf(failed /\ ~outside /\ mapped),
               !.misses = @ + OneIf(failed /\ ~outside /\ ~mapped),
               !.reads  = @ + k,
               !.copies = IF failed THEN @ ELSE @ + copied,
               !.errors = @ + OneIf(failed)]
        /\ Answer(op, <<s, l, from, n>>,
                  CASE outside -> "INVALID_ARG"
                    [] failed /\ ~outside -> "NOT_FOUND"
                    [] OTHER -> "OK",
                  [i \in 0..k - 1 |-> Token(s, l, from + i)])
        /\ UNCHANGED <<sessions, pages>>

HeadStatus(h) == IF h >= NumHeads THEN "INVALID_ARG" ELSE "OK"

\* The address a rejected request was about; a request without an output buffer
\* or for a head the model does not have is about no address.
RequestAddress(s, l, from, n, h, nullArg) ==
    IF nullArg \/ h >= NumHeads THEN <<>> ELSE <<s, l, from, n>>

ReadStatus(s, l, h, p, nullArg) ==
    Then(Then(NullStatus(nullArg), LocationStatus(s, l, p)), HeadStatus(h))

ReadRejected(s, l, h, p, nullArg) ==
    Reject("read", RequestAddress(s, l, p, 1, h, nullArg),
           ReadStatus(s, l, h, p, nullArg))

Read(s, l, h, p) ==
    /\ ReadStatus(s, l, h, p, FALSE) = "OK"
    /\ ReadLoop("read", s, l, p, 1, 0)

(* att1_kv_mmu_copy_range: the range is checked before the address is, by  *)
(* the first read.                                                         *)

CopyStatus(s, l, h, from, n, nullArg) ==
    Then(Then(Then(NullStatus(nullArg), RangeStatus(from, n)), HeadStatus(h)),
         LocationStatus(s, l, from))

CopyRangeRejected(s, l, h, from, n, nullArg) ==
    Reject("copy_range", RequestAddress(s, l, from, n, h, nullArg),
           CopyStatus(s, l, h, from, n, nullArg))

CopyRange(s, l, h, from, n) ==
    /\ CopyStatus(s, l, h, from, n, FALSE) = "OK"
    /\ ReadLoop("copy_range", s, l, from, n, 1)

(* att1_kv_mmu_lookup_page: a miss is not counted as an error.             *)

LookupPageRejected(s, l, p, nullArg) ==
    Reject("lookup_page", <<>>, Then(NullStatus(nullArg), LocationStatus(s, l, p)))

LookupPage(s, l, p) ==
    LET S == FindPage(s, l, LogicalPage(p)) IN
    /\ LocationStatus(s, l, p) = "OK"
    /\ IF S = {}
       THEN /\ counters' = [counters EXCEPT !.misses = @ + 1]
            /\ Answer("lookup_page", <<>>, "NOT_FOUND", NoData)
       ELSE /\ counters' = [counters EXCEPT !.hits = @ + 1]
            /\ Answer("lookup_page", <<>>, "OK", [k \in {0} |-> First(S)])
    /\ UNCHANGED <<sessions, pages>>

ResetCounters ==
    /\ counters' = ZeroCounters
    /\ Answer("reset_counters", <<>>, "OK", NoData)
    /\ UNCHANGED <<sessions, pages>>

-----------------------------------------------------------------------------
(* The arguments callers pass: every session, valid or not; layers, heads, *)
(* positions and counts up to and beyond the limits.                       *)

CONSTANTS PositionArgs,  \* positions passed by callers, any size_t values
          CountArgs      \* counts passed to att1_kv_mmu_copy_range

ASSUME ArgumentsAreSizes == PositionArgs \subseteq Size /\ CountArgs \subseteq Size

LayerArgs == 0..NumLayers
HeadArgs == {0, NumHeads}

SessionStep(s) ==
    \/ CreateSession(s)
    \/ CreateSessionRejected(s)
    \/ DestroySession(s)
    \/ DestroySessionRejected(s)

AppendStep(s, l, p) ==
    \/ \E v \in Payloads : AppendToPage(s, l, p, v) \/ AppendNewPage(s, l, p, v)
    \/ \E b \in BOOLEAN : AppendRejected(s, l, p, b) \/ AppendOutOfMemory(s, l, p, b)

QueryStep(s, l, p) ==
    \/ \E h \in HeadArgs : Read(s, l, h, p)
    \/ \E h \in HeadArgs, b \in BOOLEAN : ReadRejected(s, l, h, p, b)
    \/ \E h \in HeadArgs, n \in CountArgs : CopyRange(s, l, h, p, n)
    \/ \E h \in HeadArgs, n \in CountArgs, b \in BOOLEAN :
          CopyRangeRejected(s, l, h, p, n, b)
    \/ LookupPage(s, l, p)
    \/ \E b \in BOOLEAN : LookupPageRejected(s, l, p, b)

Next ==
    \/ /\ Budget
       /\ \/ \E s \in SessionIds : SessionStep(s)
          \/ \E s \in SessionIds, l \in LayerArgs, p \in PositionArgs :
                AppendStep(s, l, p) \/ QueryStep(s, l, p)
    \/ ResetCounters

Spec == Init /\ [][Next]_vars

-----------------------------------------------------------------------------
(* What the MMU promises, through the abstract store.                      *)

Live == {s \in SessionIds : FindSession(s) # {}}

Store == INSTANCE KVStore WITH
    live <- Live,
    val  <- [a \in SessionIds \X Layers \X Positions |-> Token(a[1], a[2], a[3])]

\* The paged MMU implements the flat append-only store of KVStore: reads and
\* range copies of any session, layer and position return exactly what was
\* appended there since the session was created, whatever pages were released
\* and reused in between (att1_kv_mmu_append, _read, _copy_range,
\* _destroy_session).
ImplementsStore == Store!StoreSpec

-----------------------------------------------------------------------------
(* Invariants.                                                             *)

LogicalPages == 0..LogicalPage(MaxPositions - 1)

SessionRecords == [active : BOOLEAN, id : SessionIds]

PageRecords == [active : BOOLEAN, session : SessionIds, layer : Layers,
                logical : LogicalPages, tokens : [Slots -> Payloads \cup {Absent}]]

CounterRecords == [hits : Nat, misses : Nat, allocations : Nat, appends : Nat,
                   reads : Nat, copies : Nat, errors : Nat]

\* Every record holds values the C types and att1_kv_mmu_config allow; in
\* particular no page is mapped beyond the last valid position.
TypeOK ==
    /\ sessions \in [SessionSlots -> SessionRecords]
    /\ pages \in [PageIndexes -> PageRecords]
    /\ counters \in CounterRecords
    /\ reply.op \in Operations
    /\ reply.status \in Statuses

\* A session identifier is in at most one entry of the session table, so that
\* att1_kv_mmu_destroy_session, which clears the first match, removes it.
SessionsUnique ==
    \A i, j \in SessionSlots :
        sessions[i].active /\ sessions[j].active /\ sessions[i].id = sessions[j].id
        => i = j

\* No two physical pages are mapped at the same session, layer and logical page:
\* the first match of att1_kv_mmu_find_page is the only one.
MappingUnique ==
    \A i, j \in PageIndexes :
        /\ pages[i].active /\ pages[j].active
        /\ pages[i].session = pages[j].session
        /\ pages[i].layer = pages[j].layer
        /\ pages[i].logical = pages[j].logical
        => i = j

\* Every page in use belongs to a live session: att1_kv_mmu_destroy_session
\* leaves no page behind for a later session of the same identifier to find.
PagesOwned ==
    \A i \in PageIndexes : pages[i].active => FindSession(pages[i].session) # {}

\* The token a slot of a page holds is never the first of a gap: every earlier
\* position of the session and layer is present too, so that the scan of
\* att1_kv_mmu_next_position meets the end of the tokens and not a hole.
PrefixClosed ==
    \A i \in PageIndexes, t \in Slots :
        pages[i].active /\ pages[i].tokens[t] # Absent
        => \A q \in 0..pages[i].logical * PageTokens + t - 1 :
              TokenPresent(pages[i].session, pages[i].layer, q)

\* No page is taken before it is needed or kept empty: the first slot of every
\* page in use holds a token, also after an append that failed.
NoEmptyPage == \A i \in PageIndexes : pages[i].active => pages[i].tokens[0] # Absent

\* No token is stored at or beyond max_positions.
WithinPositions ==
    \A i \in PageIndexes, t \in Slots :
        pages[i].active /\ pages[i].tokens[t] # Absent
        => pages[i].logical * PageTokens + t < MaxPositions

\* The counters account for each other: a page is allocated only on a miss, a
\* read succeeds only on a hit, and every successful append or read is either a
\* hit or the allocation of a page.  It survives att1_kv_mmu_reset_counters at
\* any moment.
CountersConsistent ==
    /\ counters.allocations <= counters.misses
    /\ counters.reads <= counters.hits
    /\ counters.appends + counters.reads <= counters.hits + counters.allocations
=============================================================================
